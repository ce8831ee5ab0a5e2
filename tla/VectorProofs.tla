--------------------------- MODULE VectorProofs --------------------------------
(***************************************************************************)
(* What the vector files are worth, for any number of generators and of      *)
(* edits, and what holds of every test case in them, for every group, every  *)
(* list of configurations and whatever the hash functions return.            *)
(*                                                                         *)
(* The properties of the files are not inductive by themselves: while a run  *)
(* deletes files its results are empty, and while it generates there is no   *)
(* file of another version left.  Those of the cases follow from what every  *)
(* case is by its construction (Listed, CasesInv): one of the valid cases    *)
(* but for at most one entry, in a session of the material of its group.     *)
(***************************************************************************)
EXTENDS VectorFiles, VectorCases, FrostSigningLaws, SequenceTheorems

\* Every variable the properties speak of stays in its range.
FilesTypeOK ==
  /\ version \in Nat
  /\ disk \in [Positions -> {Absent} \cup (Nat \X BOOLEAN)]
  /\ step \in {"idle", "deleting", "generating", "testing"}
  /\ results \in Seq(BOOLEAN) /\ Len(results) <= Len(Generators)

IInv ==
  /\ FilesTypeOK
  /\ step = "deleting" => results = <<>>
  /\ step = "generating" =>
       \A k \in Positions : disk[k] # Absent => disk[k][1] = version
  /\ OneVersionOnDisk
  /\ ResultsMatchFiles
  /\ TestsReadFreshFiles

USE FilesAssumption

-----------------------------------------------------------------------------
(* Each step preserves IInv.                                               *)

\* An empty directory mixes nothing.
LEMMA InitIInv == Init => IInv
  BY DEF Init, IInv, FilesTypeOK, OneVersionOnDisk, ResultsMatchFiles,
         TestsReadFreshFiles, Positions

\* A file is not the absence of one.
LEMMA FileIsNotAbsent ==
  ASSUME NEW a, NEW b
  PROVE  <<a, b>> # Absent
  BY DEF Absent

\* Editing, starting and ending touch no file.
LEMMA IdleStepsIInv ==
  ASSUME IInv, EditCode \/ Start \/ EndTests
  PROVE  IInv'
  <1>1. CASE EditCode
    BY <1>1 DEF EditCode, IInv, FilesTypeOK, OneVersionOnDisk, ResultsMatchFiles,
                TestsReadFreshFiles, Positions
  <1>2. CASE Start
    BY <1>2 DEF Start, IInv, FilesTypeOK, OneVersionOnDisk, ResultsMatchFiles,
                TestsReadFreshFiles, Positions
  <1>3. CASE EndTests
    BY <1>3 DEF EndTests, IInv, FilesTypeOK, OneVersionOnDisk, ResultsMatchFiles,
                TestsReadFreshFiles, Positions
  <1> QED BY <1>1, <1>2, <1>3

\* Removing a file mixes nothing.
LEMMA RemoveFileIInv ==
  ASSUME IInv, RemoveFile
  PROVE  IInv'
  BY DEF RemoveFile, ToRemove, IInv, FilesTypeOK, OneVersionOnDisk, ResultsMatchFiles,
         TestsReadFreshFiles, Positions

\* Generating starts from an empty directory and no results.
LEMMA DirectoryReadyIInv ==
  ASSUME IInv, DirectoryReady
  PROVE  IInv'
  <1>1. \A k \in Positions : disk[k] = Absent BY DEF DirectoryReady, ToRemove
  <1>2. results = <<>> BY DEF DirectoryReady, IInv
  <1>3. ResultsMatchFiles'
    <2>1. disk' = disk /\ results' = <<>> BY <1>2 DEF DirectoryReady
    <2>2. \A k \in Positions : ~ (k \in DOMAIN results') BY <2>1
    <2>3. \A k \in Positions : disk'[k] # File(TRUE)' BY <1>1, <2>1, FileIsNotAbsent DEF File
    <2> QED BY <2>2, <2>3 DEF ResultsMatchFiles, Positions
  <1>4. step' = "generating" /\ disk' = disk /\ version' = version /\ results' = results
    BY DEF DirectoryReady
  <1>5. FilesTypeOK' BY <1>4 DEF IInv, FilesTypeOK, Positions
  <1>6. OneVersionOnDisk' /\ TestsReadFreshFiles'
    BY <1>4 DEF IInv, OneVersionOnDisk, TestsReadFreshFiles, Positions
  <1>7. \A k \in Positions : disk'[k] = Absent BY <1>1, <1>4
  <1> QED BY <1>3, <1>4, <1>5, <1>6, <1>7 DEF IInv, Positions

\* A file written whole or in part is of the present version.
LEMMA WriteIsOfThisVersion ==
  ASSUME IInv, step = "generating", NEW k \in Positions, NEW whole \in BOOLEAN,
         disk' = [disk EXCEPT ![k] = File(whole)], version' = version
  PROVE  /\ disk' \in [Positions -> {Absent} \cup (Nat \X BOOLEAN)]
         /\ \A j \in Positions : disk'[j] # Absent => disk'[j][1] = version
         /\ OneVersionOnDisk'
  <1>1. File(whole) \in Nat \X BOOLEAN /\ File(whole)[1] = version
    BY DEF IInv, FilesTypeOK, File
  <1>2. disk \in [Positions -> {Absent} \cup (Nat \X BOOLEAN)] BY DEF IInv, FilesTypeOK
  <1>3. disk' \in [Positions -> {Absent} \cup (Nat \X BOOLEAN)] BY <1>1, <1>2
  <1>4. \A j \in Positions : disk'[j] = IF j = k THEN File(whole) ELSE disk[j] BY <1>2
  <1>5. \A j \in Positions : disk[j] # Absent => disk[j][1] = version BY DEF IInv
  <1> HIDE DEF File
  <1>6. \A j \in Positions : disk'[j] # Absent => disk'[j][1] = version
    BY <1>1, <1>4, <1>5
  <1> QED BY <1>3, <1>6 DEF OneVersionOnDisk, Positions

\* The next generator's result is TRUE exactly when its file is whole.
LEMMA RunGenVectorsIInv ==
  ASSUME IInv, RunGenVectors
  PROVE  IInv'
  <1> DEFINE k == Len(results) + 1
             grown(result) == results' = Append(results, result)
             written(whole) == disk' = [disk EXCEPT ![k] = File(whole)]
  <1>1. /\ step = "generating" /\ step' = step /\ version' = version
        /\ results \in Seq(BOOLEAN) /\ Len(results) \in Nat
        /\ k \in Positions /\ k <= Len(Generators)
        /\ disk \in [Positions -> {Absent} \cup (Nat \X BOOLEAN)]
    BY DEF RunGenVectors, GoesOn, IInv, FilesTypeOK, Positions
  <1>2. \A result \in BOOLEAN :
          grown(result) => /\ results' \in Seq(BOOLEAN) /\ Len(results') = k
                           /\ DOMAIN results' = DOMAIN results \cup {k}
                           /\ k \notin DOMAIN results
                           /\ results'[k] = result
                           /\ \A j \in DOMAIN results : results'[j] = results[j]
    BY <1>1
  <1>3. \/ grown(TRUE) /\ written(TRUE)
        \/ grown(FALSE) /\ (disk' = disk \/ written(FALSE))
    BY DEF RunGenVectors, OnFailure
  <1>4. FilesTypeOK' /\ OneVersionOnDisk'
        /\ \A j \in Positions : disk'[j] # Absent => disk'[j][1] = version'
    <2>1. CASE disk' = disk
      BY <1>1, <1>2, <1>3, <2>1 DEF IInv, FilesTypeOK, OneVersionOnDisk
    <2>2. CASE \E whole \in BOOLEAN : written(whole)
      <3>1. /\ disk' \in [Positions -> {Absent} \cup (Nat \X BOOLEAN)]
            /\ \A j \in Positions : disk'[j] # Absent => disk'[j][1] = version
            /\ OneVersionOnDisk'
        BY <1>1, <2>2, WriteIsOfThisVersion
      <3> QED BY <1>1, <1>2, <1>3, <3>1 DEF IInv, FilesTypeOK
    <2> QED BY <1>3, <2>1, <2>2
  <1>5. ResultsMatchFiles'
    <2>1. \A j \in Positions \ {k} : disk'[j] = disk[j] BY <1>1, <1>3
    <2>2. \A j \in Positions \ {k} :
            (disk[j] = File(TRUE)) <=> (j \in DOMAIN results /\ results[j])
      BY <1>1 DEF IInv, ResultsMatchFiles
    <2>3. disk[k] # File(TRUE) /\ File(FALSE) # File(TRUE) /\ File(TRUE)' = File(TRUE)
      BY <1>1, <1>2, <1>3 DEF IInv, ResultsMatchFiles, File
    <2>4. (disk'[k] = File(TRUE)') <=> (k \in DOMAIN results' /\ results'[k])
      BY <1>1, <1>2, <1>3, <2>3
    <2>5. \A j \in Positions \ {k} :
            (disk'[j] = File(TRUE)') <=> (j \in DOMAIN results' /\ results'[j])
      BY <1>2, <1>3, <2>1, <2>2, <2>3
    <2> QED BY <2>4, <2>5 DEF ResultsMatchFiles, Positions
  <1>6. TestsReadFreshFiles' BY <1>1 DEF TestsReadFreshFiles
  <1> QED BY <1>1, <1>4, <1>5, <1>6 DEF IInv, Positions

\* tests.py starts only when every result is TRUE, hence every file whole.
LEMMA FinishIInv ==
  ASSUME IInv, Finish
  PROVE  IInv'
  <1>1. /\ step = "generating" /\ step' \in {"idle", "testing"}
        /\ version' = version /\ disk' = disk /\ results' = results
    BY DEF Finish
  <1>2. TestsReadFreshFiles'
    <2> SUFFICES ASSUME step' = "testing" PROVE \A k \in Positions : disk[k] = File(TRUE)
      BY <1>1 DEF TestsReadFreshFiles, File, Positions
    <2>1. \A k \in DOMAIN results : results[k] BY DEF Finish, ExitStatus
    <2>2. /\ results \in Seq(BOOLEAN) /\ Generators \in Seq(STRING)
          /\ Len(results) = Len(Generators)
      BY DEF Finish, GoesOn, IInv, FilesTypeOK
    <2>3. Positions = DOMAIN results BY <2>2 DEF Positions
    <2> QED BY <1>1, <2>1, <2>3 DEF IInv, ResultsMatchFiles
  <1> QED BY <1>1, <1>2 DEF IInv, FilesTypeOK, OneVersionOnDisk, ResultsMatchFiles, Positions

\* An interrupted run leaves at most a partial file of its own version.
LEMMA InterruptIInv ==
  ASSUME IInv, Interrupt
  PROVE  IInv'
  <1>1. /\ step' = "idle" /\ version' = version /\ results' = results
        /\ \/ disk' = disk
           \/ /\ step = "generating" /\ GoesOn
              /\ disk' = [disk EXCEPT ![Len(results) + 1] = File(FALSE)]
    BY DEF Interrupt
  <1>2. FilesTypeOK' /\ OneVersionOnDisk'
    <2>1. CASE disk' = disk
      BY <1>1, <2>1 DEF IInv, FilesTypeOK, OneVersionOnDisk, Positions
    <2>2. CASE disk' # disk
      <3>1. Len(results) + 1 \in Positions
        <4>1. results \in Seq(BOOLEAN) /\ Generators \in Seq(STRING) /\ GoesOn
          BY <1>1, <2>2 DEF IInv, FilesTypeOK
        <4> QED BY <4>1 DEF GoesOn, Positions
      <3>2. /\ disk' \in [Positions -> {Absent} \cup (Nat \X BOOLEAN)]
            /\ OneVersionOnDisk'
        BY <1>1, <2>2, <3>1, WriteIsOfThisVersion
      <3> QED BY <1>1, <3>2 DEF IInv, FilesTypeOK, Positions
    <2> QED BY <2>1, <2>2
  <1> QED BY <1>1, <1>2 DEF IInv, ResultsMatchFiles, TestsReadFreshFiles

\* IInv is inductive.
LEMMA NextIInv == IInv /\ [Next]_vars => IInv'
  <1> SUFFICES ASSUME IInv, [Next]_vars PROVE IInv' OBVIOUS
  <1>1. CASE EditCode \/ Start \/ EndTests BY <1>1, IdleStepsIInv
  <1>2. CASE RemoveFile BY <1>2, RemoveFileIInv
  <1>3. CASE DirectoryReady BY <1>3, DirectoryReadyIInv
  <1>4. CASE RunGenVectors BY <1>4, RunGenVectorsIInv
  <1>5. CASE Finish BY <1>5, FinishIInv
  <1>6. CASE Interrupt BY <1>6, InterruptIInv
  <1>7. CASE UNCHANGED vars
    BY <1>7 DEF vars, IInv, FilesTypeOK, OneVersionOnDisk, ResultsMatchFiles,
                TestsReadFreshFiles, File, Positions
  <1> QED BY <1>1, <1>2, <1>3, <1>4, <1>5, <1>6, <1>7 DEF Next

-----------------------------------------------------------------------------
(* The theorems.                                                           *)

\* tests.py reads only whole files that the present code has generated, after
\* any history of failures, interrupts and edits.
THEOREM FreshFilesAreTested == Spec => []TestsReadFreshFiles
  <1>1. IInv => TestsReadFreshFiles BY DEF IInv
  <1> QED BY <1>1, InitIInv, NextIInv, PTL DEF Spec

\* The vector directory never mixes the output of two versions of the code.
THEOREM VersionsAreNotMixed == Spec => []OneVersionOnDisk
  <1>1. IInv => OneVersionOnDisk BY DEF IInv
  <1> QED BY <1>1, InitIInv, NextIInv, PTL DEF Spec

\* What gen_vectors.py reports of a generator tells whether its file is whole.
THEOREM ReportsAreTrue == Spec => []ResultsMatchFiles
  <1>1. IInv => ResultsMatchFiles BY DEF IInv
  <1> QED BY <1>1, InitIInv, NextIInv, PTL DEF Spec

-----------------------------------------------------------------------------
(* The material of a test group.                                           *)

\* What a group holds: the real entries, and the crafted ones behind them.
RealEntries(in) ==
  /\ in.n \in 3 .. MaxParticipants /\ in.t \in 1 .. in.n /\ in.thresh_pk \in NonZero
  /\ \A k \in 0 .. in.n - 1 :
       /\ in.secshares[k] \in NonZero /\ in.pubshares[k] = in.secshares[k]
       /\ \A j \in 1 .. 2 : in.secnonces[k][j] \in NonZero
       /\ in.secnonces[k] = <<in.secnonces[k][1], in.secnonces[k][2]>>
       /\ in.pubnonces[k] = in.secnonces[k]
  /\ in.tweaks \in Seq(Int) /\ Len(in.tweaks) = 6

\* The crafted entries that every group has at n and n + 1.
CraftedEntries(in) ==
  /\ in.pubshares[in.n] = Order /\ in.pubnonces[in.n] = <<Order, G>> /\ in.secshares[in.n] = 0
  /\ in.secnonces[in.n] = <<0, 0>> /\ in.secnonces[in.n + 1] = <<in.secnonces[0][1], 0>>
  /\ in.pubshares[in.n + 1] \in NonZero
  /\ \A j \in 1 .. 2 : in.pubnonces[in.n + 1][j] \in NonZero

\* A multiple of G is its factor.
LEMMA TimesG ==
  ASSUME NEW k \in Scalars
  PROVE  Mul(k, G) = k
  BY UnitsAndNegation DEF G

\* The entries of a pool with one fault, and of one with two.
LEMMA OneFault ==
  ASSUME NEW n \in Nat, NEW pool, NEW a, NEW full, full = WithFaults(n, pool, <<a>>)
  PROVE  (\A k \in 0 .. n - 1 : full[k] = pool[k]) /\ full[n] = a
  <1>1. Len(<<a>>) = 1 /\ n + 1 - 1 = n OBVIOUS
  <1>2. full = [i \in 0 .. n |-> IF i < n THEN pool[i] ELSE <<a>>[i - n + 1]]
    BY <1>1 DEF WithFaults
  <1>3. n - n + 1 = 1 /\ ~ (n < n) /\ n \in 0 .. n OBVIOUS
  <1>4. \A k \in 0 .. n - 1 : k \in 0 .. n /\ k < n OBVIOUS
  <1> QED BY <1>2, <1>3, <1>4

\* The same of a pool with two.
LEMMA TwoFaults ==
  ASSUME NEW n \in Nat, NEW pool, NEW a, NEW b, NEW full, full = WithFaults(n, pool, <<a, b>>)
  PROVE  (\A k \in 0 .. n - 1 : full[k] = pool[k]) /\ full[n] = a /\ full[n + 1] = b
  <1>1. Len(<<a, b>>) = 2 /\ n + 2 - 1 = n + 1 OBVIOUS
  <1>2. full = [i \in 0 .. n + 1 |-> IF i < n THEN pool[i] ELSE <<a, b>>[i - n + 1]]
    BY <1>1 DEF WithFaults
  <1>3. n - n + 1 = 1 /\ (n + 1) - n + 1 = 2 /\ ~ (n < n) /\ ~ (n + 1 < n) OBVIOUS
  <1>4. n \in 0 .. n + 1 /\ n + 1 \in 0 .. n + 1 OBVIOUS
  <1>5. \A k \in 0 .. n - 1 : k \in 0 .. n + 1 /\ k < n OBVIOUS
  <1>6. full[n] = a /\ full[n + 1] = b BY <1>2, <1>3, <1>4
  <1> QED BY <1>2, <1>5, <1>6

\* The dealer's shares of a configuration.
LEMMA ConfigShares ==
  ASSUME NEW c \in DOMAIN Configs
  PROVE  LET cfg == Configs[c]
             coeffs == [i \in 1 .. cfg.t - 1 |-> CoeffHash(cfg.seckey, i)]
         IN  /\ cfg.n \in 3 .. MaxParticipants /\ cfg.n \in 1 .. MaxParticipants
             /\ cfg.t \in 1 .. cfg.n /\ cfg.seckey \in NonZero
             /\ coeffs \in [1 .. cfg.t - 1 -> NonZero]
             /\ Keys[c].thresh_pk = cfg.seckey
             /\ Keys[c].secshares = SecretShareShard(cfg.seckey, coeffs, cfg.n)
             /\ DOMAIN Keys[c].secshares = 0 .. cfg.n - 1
             /\ \A k \in 0 .. cfg.n - 1 : /\ Keys[c].secshares[k] \in NonZero
                                          /\ Keys[c].pubshares[k] = Keys[c].secshares[k]
  <1> DEFINE cfg == Configs[c]
             coeffs == [i \in 1 .. cfg.t - 1 |-> CoeffHash(cfg.seckey, i)]
             shares == SecretShareShard(cfg.seckey, coeffs, cfg.n)
  <1>1. /\ cfg.n \in 3 .. MaxParticipants /\ cfg.n \in 1 .. MaxParticipants
        /\ cfg.t \in 1 .. cfg.n /\ cfg.seckey \in NonZero
    BY ConfigsAssumption, ParticipantsAssumption
  <1>2. /\ coeffs \in [1 .. cfg.t - 1 -> NonZero]
        /\ \A k \in 0 .. cfg.n - 1 : Keys[c].pubshares[k] # 0
    BY MaterialAssumption DEF Infinity
  <1>3. Keys[c] = [thresh_pk |-> Mul(cfg.seckey, G), secshares |-> shares,
                   pubshares |-> [i \in DOMAIN shares |-> Mul(shares[i], G)]]
    BY DEF Keys, FrostKeygen
  <1> HIDE DEF coeffs
  <1>4. /\ \A i \in 0 .. cfg.n - 1 : shares[i] \in Scalars
        /\ shares = [i \in 0 .. cfg.n - 1 |-> shares[i]]
    BY <1>1, <1>2, DealtShares
  <1> HIDE DEF cfg, shares
  <1>5. DOMAIN shares = 0 .. cfg.n - 1 BY <1>4
  <1>6. Keys[c].thresh_pk = cfg.seckey
    <2>1. cfg.seckey \in Scalars BY <1>1 DEF NonZero
    <2> QED BY <1>3, <2>1, TimesG
  <1>7. \A k \in 0 .. cfg.n - 1 : Keys[c].pubshares[k] = Mul(shares[k], G) BY <1>3, <1>5
  <1>8. \A k \in 0 .. cfg.n - 1 : Keys[c].pubshares[k] = shares[k] BY <1>4, <1>7, TimesG
  <1>9. \A k \in 0 .. cfg.n - 1 : shares[k] \in NonZero BY <1>2, <1>4, <1>8 DEF NonZero
  <1>10. Keys[c].secshares = shares BY <1>3
  <1> QED BY <1>1, <1>2, <1>5, <1>6, <1>8, <1>9, <1>10 DEF cfg, coeffs, shares

\* The nonces of a configuration.
LEMMA ConfigNonces ==
  ASSUME NEW c \in DOMAIN Configs, NEW k \in 0 .. Configs[c].n - 1
  PROVE  LET nonce == Nonces[c][k]
         IN  /\ nonce.secnonce[1] \in NonZero /\ nonce.secnonce[2] \in NonZero
             /\ nonce.secnonce = <<nonce.secnonce[1], nonce.secnonce[2]>>
             /\ nonce.pubnonce = nonce.secnonce
  <1> DEFINE x == NonceInputs(CommonRand, Keys[c].secshares[k], Keys[c].pubshares[k],
                              ToXonly(Keys[c].thresh_pk), None, None)
             k1 == ScalarOf(NonceGenHash(x, 0))
             k2 == ScalarOf(NonceGenHash(x, 1))
  <1>1. DOMAIN Keys[c].secshares = 0 .. Configs[c].n - 1 BY ConfigShares
  <1>2. Nonces[c][k] = GeneratedNonce(Keys[c], k).val BY <1>1 DEF Nonces, GenerateAllNonces
  <1>3. Succeeds(GeneratedNonce(Keys[c], k)) /\ Nonces[c][k].secnonce \in NonZero \X NonZero
    BY MaterialAssumption
  <1>4. GeneratedNonce(Keys[c], k)
          = IF 0 \in {k1, k2} THEN AssertionError ELSE Returns(NonceGen(k1, k2))
    BY DEF GeneratedNonce, NonceGenInternal
  <1> HIDE DEF k1, k2
  <1>5. Nonces[c][k] = NonceGen(k1, k2)
    BY <1>2, <1>3, <1>4 DEF Succeeds, AssertionError, Returns
  <1>6. /\ Nonces[c][k].secnonce = <<k1, k2>>
        /\ Nonces[c][k].pubnonce = <<Mul(k1, G), Mul(k2, G)>>
    BY <1>5 DEF NonceGen
  <1>7. k1 \in NonZero /\ k2 \in NonZero BY <1>3, <1>6
  <1>8. Mul(k1, G) = k1 /\ Mul(k2, G) = k2 BY <1>7, TimesG DEF NonZero
  <1> QED BY <1>6, <1>7, <1>8

\* The sizes of a configuration.
LEMMA ConfigSizes ==
  ASSUME NEW c \in DOMAIN Configs
  PROVE  /\ Configs[c].n \in 3 .. MaxParticipants /\ Configs[c].n \in Nat
         /\ Configs[c].n \in 1 .. MaxParticipants /\ Configs[c].n >= 3
         /\ Configs[c].t \in 1 .. Configs[c].n /\ Configs[c].t \in Nat
         /\ Configs[c].t >= 1 /\ 0 \in 0 .. Configs[c].n - 1
  BY ConfigsAssumption, ParticipantsAssumption
-----------------------------------------------------------------------------
(* Lists of signers.                                                       *)

\* A list of signers of an n-person group.
SignersOf(n, ids) == SignerIds(ids) /\ ToSet(ids) \in SUBSET (0 .. n - 1)

\* Consecutive ids.
LEMMA IdRanges ==
  ASSUME NEW n \in 1 .. MaxParticipants, NEW first \in 0 .. n, NEW end \in first .. n
  PROVE  LET ids == IdRange(first, end)
         IN  /\ SignersOf(n, ids) /\ Len(ids) = end - first /\ DOMAIN ids = 1 .. end - first
             /\ \A k \in 1 .. end - first : ids[k] = first + k - 1 /\ ids[k] \in 0 .. n - 1
  <1> DEFINE ids == IdRange(first, end)
             m == end - first
  <1>1. n \in Nat /\ n <= MaxParticipants /\ MaxParticipants \in Nat BY ParticipantsAssumption
  <1>2. m \in Nat /\ first \in Nat /\ end \in Nat /\ end <= n BY <1>1
  <1>3. ids = [k \in 1 .. m |-> first + k - 1] BY DEF IdRange
  <1>4. \A k \in 1 .. m : first + k - 1 \in 0 .. n - 1 BY <1>1, <1>2
  <1> HIDE DEF m, ids
  <1>5. \A k \in 1 .. m : ids[k] = first + k - 1 /\ ids[k] \in 0 .. n - 1 BY <1>3, <1>4
  <1>6. ids \in Seq(Nat) /\ Len(ids) = m /\ DOMAIN ids = 1 .. m
    <2>1. \A k \in 1 .. m : ids[k] \in Nat BY <1>1, <1>5
    <2> QED BY <1>2, <1>3, <2>1
  <1>7. \A k \in 1 .. m : ids[k] < MaxParticipants BY <1>1, <1>5
  <1>8. \A j, k \in 1 .. m : ids[j] = ids[k] => j = k BY <1>2, <1>5
  <1>9. IsInjective(ids) BY <1>6, <1>8 DEF IsInjective
  <1>10. ToSet(ids) \in SUBSET (0 .. n - 1) BY <1>5, <1>6 DEF ToSet
  <1>11. SignersOf(n, ids) BY <1>6, <1>7, <1>9, <1>10 DEF SignersOf, SignerIds
  <1> QED BY <1>5, <1>6, <1>11 DEF m, ids

\* The fields of a group, which are those of its configuration.
Sizes(in) == in.n \in 3 .. MaxParticipants /\ in.t \in 1 .. in.n

\* The three sets that start with id 0.
LEMMA SignerSets ==
  ASSUME NEW in, Sizes(in), NEW ids \in {MinSet(in), Min2Set(in), FullSet(in)}
  PROVE  /\ SignersOf(in.n, ids) /\ Len(ids) \in in.t .. in.n /\ DOMAIN ids = 1 .. Len(ids)
         /\ \A k \in DOMAIN ids : ids[k] = k - 1 /\ ids[k] \in 0 .. in.n - 1
         /\ 0 \in ToSet(ids) /\ 1 \in DOMAIN ids
         /\ ids # MinSet(in) => Len(ids) >= 2
  <1> DEFINE n == in.n
             t == in.t
  <1>1. n \in 1 .. MaxParticipants /\ n \in Nat /\ n >= 3 /\ t \in 1 .. n /\ t \in Nat
    BY ParticipantsAssumption DEF Sizes
  <1>2. \E end \in t .. n : ids = IdRange(0, end) /\ (ids # MinSet(in) => end >= 2)
    <2>1. t \in t .. n /\ n \in t .. n BY <1>1
    <2>2. (IF t < 2 THEN 2 ELSE t) \in t .. n /\ (IF t < 2 THEN 2 ELSE t) >= 2 BY <1>1
    <2>3. MinSet(in) = IdRange(0, t) /\ FullSet(in) = IdRange(0, n)
          /\ Min2Set(in) = IdRange(0, IF t < 2 THEN 2 ELSE t)
      BY DEF MinSet, FullSet, Min2Set
    <2>4. CASE ids = MinSet(in) BY <2>1, <2>3, <2>4
    <2>5. CASE ids = FullSet(in) BY <1>1, <2>1, <2>3, <2>5
    <2>6. CASE ids = Min2Set(in) BY <2>2, <2>3, <2>6
    <2> QED BY <2>4, <2>5, <2>6
  <1>3. PICK end \in t .. n : ids = IdRange(0, end) /\ (ids # MinSet(in) => end >= 2) BY <1>2
  <1>4. 0 \in 0 .. n /\ end \in 0 .. n /\ end - 0 = end /\ end >= 1 /\ end \in Nat BY <1>1
  <1>5. /\ SignersOf(n, ids) /\ Len(ids) = end /\ DOMAIN ids = 1 .. end
        /\ \A k \in 1 .. end : ids[k] = 0 + k - 1 /\ ids[k] \in 0 .. n - 1
    BY <1>1, <1>3, <1>4, IdRanges
  <1>6. \A k \in 1 .. end : 0 + k - 1 = k - 1 BY <1>4
  <1>7. 1 \in 1 .. end /\ ids[1] = 0 BY <1>4, <1>5
  <1>8. 0 \in ToSet(ids) BY <1>5, <1>7 DEF ToSet
  <1> QED BY <1>3, <1>5, <1>6, <1>7, <1>8

\* A list of shares that a dealer gave to the participants of a list of ids.
DealtTo(sk, coeffs, n, t, ids, s) ==
  /\ sk \in NonZero /\ n \in 1 .. MaxParticipants /\ t \in 1 .. n
  /\ coeffs \in [1 .. t - 1 -> NonZero]
  /\ SignerIds(ids) /\ ToSet(ids) \in SUBSET (0 .. n - 1) /\ Len(ids) >= t
  /\ \A k \in DOMAIN ids : s[k] = SecretShareShard(sk, coeffs, n)[ids[k]]

\* It combines to the key they were dealt for.
LEMMA DealtToCombines ==
  ASSUME NEW sk, NEW coeffs, NEW n, NEW t, NEW ids, NEW s, DealtTo(sk, coeffs, n, t, ids, s)
  PROVE  DerivePubshareAt(ids, s, -1) = sk /\ SecretShareCombine(s, ids) = sk
  <1>1. /\ sk \in NonZero /\ n \in 1 .. MaxParticipants /\ t \in 1 .. n
        /\ coeffs \in [1 .. t - 1 -> NonZero]
        /\ SignerIds(ids) /\ ToSet(ids) \in SUBSET (0 .. n - 1) /\ Len(ids) >= t
        /\ \A k \in DOMAIN ids : s[k] = SecretShareShard(sk, coeffs, n)[ids[k]]
    BY DEF DealtTo
  <1> QED BY <1>1, DealtListsInterpolate

\* Enough dealt shares combine to the secret key of the configuration.
LEMMA Reconstructed ==
  ASSUME NEW c \in DOMAIN Configs, NEW ids, SignersOf(Configs[c].n, ids),
         Len(ids) >= Configs[c].t
  PROVE  /\ ReconstructThreshSk(ids, Keys[c].secshares) = Configs[c].seckey
         /\ DerivePubshareAt(ids, Taken(Keys[c].secshares, ids), -1) = Configs[c].seckey
  <1> DEFINE cfg == Configs[c]
             coeffs == [i \in 1 .. cfg.t - 1 |-> CoeffHash(cfg.seckey, i)]
             s == Taken(Keys[c].secshares, ids)
  <1>1. /\ cfg.n \in 1 .. MaxParticipants /\ cfg.t \in 1 .. cfg.n /\ cfg.seckey \in NonZero
        /\ coeffs \in [1 .. cfg.t - 1 -> NonZero]
        /\ Keys[c].secshares = SecretShareShard(cfg.seckey, coeffs, cfg.n)
    BY ConfigShares
  <1>2. \A k \in DOMAIN ids : s[k] = SecretShareShard(cfg.seckey, coeffs, cfg.n)[ids[k]]
    BY <1>1 DEF Taken
  <1>3. SignerIds(ids) /\ ToSet(ids) \in SUBSET (0 .. cfg.n - 1) /\ Len(ids) >= cfg.t
    BY DEF SignersOf
  <1> HIDE DEF coeffs, s, cfg
  <1>4. DealtTo(cfg.seckey, coeffs, cfg.n, cfg.t, ids, s)
    BY <1>1, <1>2, <1>3 DEF DealtTo
  <1>5. DerivePubshareAt(ids, s, -1) = cfg.seckey /\ SecretShareCombine(s, ids) = cfg.seckey
    BY <1>4, DealtToCombines
  <1> QED BY <1>5 DEF ReconstructThreshSk, s, cfg
\* What a group consists of, field by field.
LEMMA GroupFields ==
  ASSUME NEW c \in DOMAIN Configs
  PROVE  LET in == Inputs[c]
             n == Configs[c].n
         IN  /\ in.n = n /\ in.t = Configs[c].t /\ in.thresh_pk = Configs[c].seckey
             /\ in.tweaks = CommonTweaks
                  \o <<Order, Neg(ReconstructThreshSk(MinSet(Configs[c]), Keys[c].secshares))>>
             /\ \A k \in 0 .. n - 1 : /\ in.secshares[k] = Keys[c].secshares[k]
                                      /\ in.pubshares[k] = Keys[c].pubshares[k]
                                      /\ in.secnonces[k] = Nonces[c][k].secnonce
                                      /\ in.pubnonces[k] = Nonces[c][k].pubnonce
             /\ in.pubshares[n] = Order
             /\ in.pubshares[n + 1] = Mul(CancelShare(Min2Set(Configs[c]), Keys[c].secshares), G)
             /\ in.secshares[n] = 0
             /\ in.pubnonces[n] = <<Order, G>>
             /\ in.pubnonces[n + 1]
                  = InversePubnonce(n, [i \in 0 .. n - 1 |-> Nonces[c][i].pubnonce])
             /\ in.secnonces[n] = <<0, 0>>
             /\ in.secnonces[n + 1] = <<Nonces[c][0].secnonce[1], 0>>
  <1> DEFINE in == Inputs[c]
             cfg == Configs[c]
             n == cfg.n
             secs == [i \in 0 .. n - 1 |-> Nonces[c][i].secnonce]
             pubs == [i \in 0 .. n - 1 |-> Nonces[c][i].pubnonce]
             cancel == Mul(CancelShare(Min2Set(cfg), Keys[c].secshares), G)
             inverse == InversePubnonce(n, pubs)
             real == <<Order, G>>
             zeroed == <<0, 0>>
             half == <<secs[0][1], 0>>
             tweak == Neg(ReconstructThreshSk(MinSet(cfg), Keys[c].secshares))
  <1>1. n \in Nat /\ 0 \in 0 .. n - 1 BY ConfigSizes
  <1>2. /\ in.n = n /\ in.t = cfg.t /\ in.thresh_pk = Keys[c].thresh_pk
        /\ in.tweaks = CommonTweaks \o <<Order, tweak>>
        /\ in.pubshares = WithFaults(n, Keys[c].pubshares, <<Order, cancel>>)
        /\ in.secshares = WithFaults(n, Keys[c].secshares, <<0>>)
        /\ in.pubnonces = WithFaults(n, pubs, <<real, inverse>>)
        /\ in.secnonces = WithFaults(n, secs, <<zeroed, half>>)
    BY DEF Inputs, SharedGroupInputs, ZeroedSecnonce
  <1>3. /\ \A k \in 0 .. n - 1 : /\ secs[k] = Nonces[c][k].secnonce
                                 /\ pubs[k] = Nonces[c][k].pubnonce
        /\ half = <<Nonces[c][0].secnonce[1], 0>>
    BY <1>1
  <1>4. in.thresh_pk = cfg.seckey BY <1>2, ConfigShares
  <1> HIDE DEF in, n, cfg, secs, pubs, cancel, inverse, real, zeroed, half, tweak
  <1>5. /\ \A k \in 0 .. n - 1 : in.pubshares[k] = Keys[c].pubshares[k]
        /\ in.pubshares[n] = Order /\ in.pubshares[n + 1] = cancel
    BY <1>1, <1>2, TwoFaults
  <1>6. /\ \A k \in 0 .. n - 1 : in.secshares[k] = Keys[c].secshares[k]
        /\ in.secshares[n] = 0
    BY <1>1, <1>2, OneFault
  <1>7. /\ \A k \in 0 .. n - 1 : in.pubnonces[k] = pubs[k]
        /\ in.pubnonces[n] = real /\ in.pubnonces[n + 1] = inverse
    BY <1>1, <1>2, TwoFaults
  <1>8. /\ \A k \in 0 .. n - 1 : in.secnonces[k] = secs[k]
        /\ in.secnonces[n] = zeroed /\ in.secnonces[n + 1] = half
    BY <1>1, <1>2, TwoFaults
  <1>9. /\ \A k \in 0 .. n - 1 : in.secnonces[k] = Nonces[c][k].secnonce
        /\ \A k \in 0 .. n - 1 : in.pubnonces[k] = Nonces[c][k].pubnonce
    BY <1>3, <1>7, <1>8
  <1>10. real = <<Order, G>> /\ zeroed = <<0, 0>> BY DEF real, zeroed
  <1>11. \A k \in 0 .. n - 1 : /\ in.secshares[k] = Keys[c].secshares[k]
                               /\ in.pubshares[k] = Keys[c].pubshares[k]
                               /\ in.secnonces[k] = Nonces[c][k].secnonce
                               /\ in.pubnonces[k] = Nonces[c][k].pubnonce
    BY <1>5, <1>6, <1>9
  <1>12. /\ in.pubshares[n] = Order /\ in.pubshares[n + 1] = cancel /\ in.secshares[n] = 0
         /\ in.pubnonces[n] = real /\ in.pubnonces[n + 1] = inverse
         /\ in.secnonces[n] = zeroed /\ in.secnonces[n + 1] = half
    BY <1>5, <1>6, <1>7, <1>8
  <1>13. /\ in.n = n /\ in.t = cfg.t /\ in.thresh_pk = cfg.seckey
         /\ in.tweaks = CommonTweaks \o <<Order, tweak>>
    BY <1>2, <1>4
  <1>14. half = <<Nonces[c][0].secnonce[1], 0>> BY <1>3
  <1> QED BY <1>10, <1>11, <1>12, <1>13, <1>14 DEF in, n, cfg, pubs, cancel, inverse, tweak

\* The share that cancels is a scalar.
LEMMA CancelShareIsScalar ==
  ASSUME NEW c \in DOMAIN Configs
  PROVE  LET ids == Min2Set(Configs[c])
         IN  /\ CancelShare(ids, Keys[c].secshares)
                  = Sub(Keys[c].secshares[Last(ids)],
                        Div(Configs[c].seckey, DeriveInterpolatingValue(ids, Last(ids))))
             /\ DeriveInterpolatingValue(ids, Last(ids)) \in NonZero
             /\ CancelShare(ids, Keys[c].secshares) \in Scalars
  <1> DEFINE cfg == Configs[c]
             ids == Min2Set(cfg)
             last == Last(ids)
             lambda == DeriveInterpolatingValue(ids, last)
             sk == cfg.seckey
             share == Keys[c].secshares[last]
             cancel == CancelShare(ids, Keys[c].secshares)
  <1>1. Sizes(cfg) /\ cfg.n \in 1 .. MaxParticipants /\ sk \in NonZero BY ConfigShares DEF Sizes
  <1>2. /\ SignersOf(cfg.n, ids) /\ Len(ids) >= cfg.t /\ Len(ids) \in DOMAIN ids
        /\ \A k \in DOMAIN ids : ids[k] \in 0 .. cfg.n - 1
    <2>1. Len(ids) \in cfg.t .. cfg.n /\ DOMAIN ids = 1 .. Len(ids) BY <1>1, SignerSets
    <2>2. cfg.t \in Nat \ {0} /\ cfg.n \in Nat BY <1>1, ParticipantsAssumption DEF Sizes
    <2> HIDE DEF ids, cfg
    <2>3. Len(ids) >= cfg.t /\ Len(ids) \in DOMAIN ids BY <2>1, <2>2
    <2> QED BY <1>1, <2>3, SignerSets DEF ids
  <1>3. ReconstructThreshSk(ids, Keys[c].secshares) = sk BY <1>2, Reconstructed
  <1>4. cancel = Sub(share, Div(sk, lambda)) BY <1>3 DEF CancelShare
  <1>5. last \in 0 .. cfg.n - 1 /\ last \in ToSet(ids)
    <2> HIDE DEF ids
    <2> QED BY <1>2 DEF Last, ToSet
  <1>6. lambda \in NonZero BY <1>2, <1>5, InterpolatingValue DEF SignersOf
  <1>7. share \in NonZero BY <1>5, ConfigShares
  <1> HIDE DEF lambda, sk, share
  <1>8. Div(sk, lambda) \in Scalars BY <1>1, <1>6, Invertible, Closed DEF Div, NonZero
  <1>9. Sub(share, Div(sk, lambda)) \in Scalars BY <1>7, <1>8, Closed DEF NonZero
  <1> QED BY <1>4, <1>6, <1>9 DEF lambda, sk, share

\* The sum of a component of public nonces.
SumOfComponents(pubnonces, j) ==
  SumOver(DOMAIN pubnonces, [i \in DOMAIN pubnonces |-> pubnonces[i][j]])

\* The aggregate of nonces that decode.
LEMMA NonceAggOfReal ==
  ASSUME NEW pubnonces, IsFiniteSet(DOMAIN pubnonces),
         \A i \in DOMAIN pubnonces : pubnonces[i][1] \in NonZero /\ pubnonces[i][2] \in NonZero
  PROVE  /\ NonceAgg(pubnonces)
              = Returns(<<SumOfComponents(pubnonces, 1), SumOfComponents(pubnonces, 2)>>)
         /\ SumOfComponents(pubnonces, 1) \in Scalars
         /\ SumOfComponents(pubnonces, 2) \in Scalars
  <1>1. NonceAgg(pubnonces)
          = Returns(<<SumOfComponents(pubnonces, 1), SumOfComponents(pubnonces, 2)>>)
    BY NonceAggSums DEF SumOfComponents
  <1>2. /\ ScalarsOn(DOMAIN pubnonces, [i \in DOMAIN pubnonces |-> pubnonces[i][1]])
        /\ ScalarsOn(DOMAIN pubnonces, [i \in DOMAIN pubnonces |-> pubnonces[i][2]])
    BY DEF ScalarsOn, NonZero
  <1>3. /\ SumOfComponents(pubnonces, 1) \in Scalars
        /\ SumOfComponents(pubnonces, 2) \in Scalars
    BY <1>2, SumLaws DEF SumOfComponents
  <1> QED BY <1>1, <1>3

\* The nonce that cancels is the negation of a sum.
LEMMA InverseNonceNegates ==
  ASSUME NEW n \in Nat, n >= 2, NEW pubnonces,
         \A k \in 0 .. n - 1 : pubnonces[k][1] \in NonZero /\ pubnonces[k][2] \in NonZero
  PROVE  LET taken == Taken(pubnonces, IdRange(0, n - 1))
         IN  \A j \in 1 .. 2 : /\ SumOfComponents(taken, j) \in Scalars
                              /\ InversePubnonce(n, pubnonces)[j] = Neg(SumOfComponents(taken, j))
                              /\ InversePubnonce(n, pubnonces)[j] \in Scalars
  <1> DEFINE ids == IdRange(0, n - 1)
             taken == Taken(pubnonces, ids)
             inverse == InversePubnonce(n, pubnonces)
  <1>1. DOMAIN ids = 1 .. n - 1 /\ \A k \in 1 .. n - 1 : ids[k] \in 0 .. n - 1
    <2>1. (n - 1) - 0 = n - 1 /\ \A k \in 1 .. n - 1 : 0 + k - 1 \in 0 .. n - 1 OBVIOUS
    <2> QED BY <2>1 DEF IdRange
  <1>2. DOMAIN taken = 1 .. n - 1
        /\ \A k \in 1 .. n - 1 : taken[k][1] \in NonZero /\ taken[k][2] \in NonZero
    BY <1>1 DEF Taken
  <1>3. inverse = <<Neg(NonceAgg(taken).val[1]), Neg(NonceAgg(taken).val[2])>>
    BY DEF InversePubnonce
  <1> HIDE DEF taken, inverse, ids
  <1>4. \A i \in DOMAIN taken : taken[i][1] \in NonZero /\ taken[i][2] \in NonZero BY <1>2
  <1>5. NonceAgg(taken) = Returns(<<SumOfComponents(taken, 1), SumOfComponents(taken, 2)>>)
        /\ SumOfComponents(taken, 1) \in Scalars /\ SumOfComponents(taken, 2) \in Scalars
    <2>1. IsFiniteSet(DOMAIN taken) BY <1>2, FS_Interval
    <2> QED BY <1>4, <2>1, NonceAggOfReal
  <1>6. inverse = <<Neg(SumOfComponents(taken, 1)), Neg(SumOfComponents(taken, 2))>>
    BY <1>3, <1>5 DEF Returns
  <1>7. inverse[1] = Neg(SumOfComponents(taken, 1)) /\ inverse[2] = Neg(SumOfComponents(taken, 2))
    BY <1>6
  <1>8. \A j \in 1 .. 2 : /\ SumOfComponents(taken, j) \in Scalars
                         /\ inverse[j] = Neg(SumOfComponents(taken, j))
    BY <1>5, <1>7
  <1>9. \A j \in 1 .. 2 : inverse[j] \in Scalars BY <1>8, Closed
  <1> QED BY <1>8, <1>9 DEF taken, inverse, ids

\* A list over a smaller set is one over a larger set.
LEMMA ListOfMore ==
  ASSUME NEW S, NEW T, S \subseteq T, NEW s \in Seq(S)
  PROVE  s \in Seq(T)
  <1>1. \A k \in 1 .. Len(s) : s[k] \in T OBVIOUS
  <1>2. s = [k \in 1 .. Len(s) |-> s[k]] OBVIOUS
  <1> QED BY <1>1, <1>2

\* The pool of tweaks: the common ones, one that is too large and the crafted one.
LEMMA PoolOfTweaks ==
  ASSUME NEW c \in DOMAIN Configs
  PROVE  Inputs[c].tweaks \in Seq(Int) /\ Len(Inputs[c].tweaks) = 6
  <1> DEFINE ids == MinSet(Configs[c])
             two == <<Order, Neg(ReconstructThreshSk(ids, Keys[c].secshares))>>
             n == Len(CommonTweaks)
  <1>1. SignersOf(Configs[c].n, ids) /\ Len(ids) >= Configs[c].t
    BY SignerSets, ConfigSizes DEF Sizes
  <1>2. ReconstructThreshSk(ids, Keys[c].secshares) \in Scalars
    BY <1>1, Reconstructed, ConfigsAssumption DEF NonZero
  <1>3. Neg(ReconstructThreshSk(ids, Keys[c].secshares)) \in Int /\ Order \in Int
    <2>1. Neg(ReconstructThreshSk(ids, Keys[c].secshares)) \in Scalars BY <1>2, Closed
    <2>2. \A x \in Scalars : x \in Int BY Closed
    <2>3. Order \in Int BY OrderAssumption
    <2> HIDE DEF two
    <2> QED BY <2>1, <2>2, <2>3
  <1>4. two \in Seq(Int) /\ Len(two) = 2 BY <1>3
  <1>5. CommonTweaks \in Seq(Int) /\ n = 4 BY ConfigsAssumption, Closed, ListOfMore
  <1>6. Inputs[c].tweaks = CommonTweaks \o two BY GroupFields
  <1> HIDE DEF two
  <1>7. CommonTweaks \o two \in Seq(Int) /\ Len(CommonTweaks \o two) = n + Len(two)
    BY <1>4, <1>5, ConcatProperties
  <1> QED BY <1>4, <1>5, <1>6, <1>7

\* What is built for a configuration.
LEMMA BuiltGroup ==
  ASSUME NEW c \in DOMAIN Configs
  PROVE  RealEntries(Inputs[c]) /\ CraftedEntries(Inputs[c])
  <1> DEFINE in == Inputs[c]
             n == Configs[c].n
             inverse == InversePubnonce(n, [i \in 0 .. n - 1 |-> Nonces[c][i].pubnonce])
             cancel == Mul(CancelShare(Min2Set(Configs[c]), Keys[c].secshares), G)
  <1>1. /\ n \in Nat /\ n >= 3 /\ n \in 3 .. MaxParticipants /\ Configs[c].t \in 1 .. n
        /\ 0 \in 0 .. n - 1 /\ Configs[c].seckey \in NonZero
    BY ConfigSizes, ConfigsAssumption
  <1>2. /\ in.n = n /\ in.t = Configs[c].t /\ in.thresh_pk = Configs[c].seckey
        /\ \A k \in 0 .. n - 1 : /\ in.secshares[k] = Keys[c].secshares[k]
                                 /\ in.pubshares[k] = Keys[c].pubshares[k]
                                 /\ in.secnonces[k] = Nonces[c][k].secnonce
                                 /\ in.pubnonces[k] = Nonces[c][k].pubnonce
        /\ in.pubshares[n] = Order /\ in.pubshares[n + 1] = cancel /\ in.secshares[n] = 0
        /\ in.pubnonces[n] = <<Order, G>> /\ in.pubnonces[n + 1] = inverse
        /\ in.secnonces[n] = <<0, 0>>
        /\ in.secnonces[n + 1] = <<Nonces[c][0].secnonce[1], 0>>
    BY GroupFields
  <1>3. \A k \in 0 .. n - 1 : Keys[c].secshares[k] \in NonZero
                              /\ Keys[c].pubshares[k] = Keys[c].secshares[k]
    BY ConfigShares
  <1>4. \A k \in 0 .. n - 1 :
          /\ Nonces[c][k].secnonce[1] \in NonZero /\ Nonces[c][k].secnonce[2] \in NonZero
          /\ Nonces[c][k].secnonce = <<Nonces[c][k].secnonce[1], Nonces[c][k].secnonce[2]>>
          /\ Nonces[c][k].pubnonce = Nonces[c][k].secnonce
    BY ConfigNonces
  <1>5. in.pubshares[n + 1] # 0 /\ \A j \in 1 .. 2 : in.pubnonces[n + 1][j] # 0
    BY MaterialAssumption DEF Infinity
  <1>6. cancel \in Scalars
    <2>1. CancelShare(Min2Set(Configs[c]), Keys[c].secshares) \in Scalars BY CancelShareIsScalar
    <2> QED BY <2>1, TimesG
  <1>7. \A j \in 1 .. 2 : inverse[j] \in Scalars
    <2> DEFINE pubs == [i \in 0 .. n - 1 |-> Nonces[c][i].pubnonce]
    <2>1. \A k \in 0 .. n - 1 : pubs[k][1] \in NonZero /\ pubs[k][2] \in NonZero BY <1>4
    <2> HIDE DEF pubs
    <2>2. \A j \in 1 .. 2 : InversePubnonce(n, pubs)[j] \in Scalars
      BY <1>1, <2>1, InverseNonceNegates
    <2> QED BY <2>2 DEF pubs
  <1> HIDE DEF in, n, inverse, cancel
  <1>8. cancel \in NonZero /\ \A j \in 1 .. 2 : inverse[j] \in NonZero
    <2>1. cancel # 0 BY <1>2, <1>5
    <2>2. \A j \in 1 .. 2 : inverse[j] # 0 BY <1>2, <1>5
    <2> QED BY <1>6, <1>7, <2>1, <2>2 DEF NonZero
  <1>9. RealEntries(in)
    <2>1. \A k \in 0 .. n - 1 : in.secshares[k] \in NonZero /\ in.pubshares[k] = in.secshares[k]
      BY <1>2, <1>3
    <2>2. \A k \in 0 .. n - 1 :
            /\ \A j \in 1 .. 2 : in.secnonces[k][j] \in NonZero
            /\ in.secnonces[k] = <<in.secnonces[k][1], in.secnonces[k][2]>>
            /\ in.pubnonces[k] = in.secnonces[k]
      <3>1. \A j \in 1 .. 2 : j = 1 \/ j = 2 OBVIOUS
      <3> QED BY <1>2, <1>4, <3>1
    <2>3. in.tweaks \in Seq(Int) /\ Len(in.tweaks) = 6 BY PoolOfTweaks DEF in
    <2> QED BY <1>1, <1>2, <2>1, <2>2, <2>3 DEF RealEntries
  <1>10. CraftedEntries(in)
    <2>1. in.secnonces[n + 1] = <<in.secnonces[0][1], 0>> BY <1>1, <1>2
    <2> QED BY <1>2, <1>8, <2>1 DEF CraftedEntries
  <1> QED BY <1>9, <1>10 DEF in

-----------------------------------------------------------------------------
(* What the faulty entries do.                                             *)

\* A sum over a set in which one summand changes.
LEMMA OneSummandChanges ==
  ASSUME NEW S, IsFiniteSet(S), NEW m \in S, NEW f, ScalarsOn(S, f), NEW g, ScalarsOn(S, g),
         \A x \in S \ {m} : g[x] = f[x]
  PROVE  \E rest \in Scalars : SumOver(S, f) = Add(f[m], rest) /\ SumOver(S, g) = Add(g[m], rest)
  <1>1. IsFiniteSet(S \ {m}) /\ ScalarsOn(S \ {m}, f) /\ ScalarsOn(S \ {m}, g)
    BY FS_Subset DEF ScalarsOn
  <1>2. SumOver(S \ {m}, g) = SumOver(S \ {m}, f) BY <1>1, SameSummands
  <1>3. SumOver(S \ {m}, f) \in Scalars BY <1>1, SumLaws
  <1>4. /\ SumOver(S, f) = Add(f[m], SumOver(S \ {m}, f))
        /\ SumOver(S, g) = Add(g[m], SumOver(S \ {m}, g))
    BY SumLaws
  <1> QED BY <1>2, <1>3, <1>4

\* Taking a whole sum off one summand leaves nothing.
LEMMA WholeTakenOff ==
  ASSUME NEW a \in Scalars, NEW rest \in Scalars
  PROVE  Add(Sub(a, Add(a, rest)), rest) = 0
  <1>1. Add(a, rest) \in Scalars BY Closed
  <1>2. Sub(a, Add(a, rest)) = Add(a, Neg(Add(a, rest))) BY DEF Sub
  <1>3. Neg(Add(a, rest)) \in Scalars BY <1>1, Closed
  <1>4. Add(Add(a, Neg(Add(a, rest))), rest) = Add(Add(a, rest), Neg(Add(a, rest)))
    BY <1>1, <1>3, AddAssoc, Commutes, Closed
  <1>5. Add(Add(a, rest), Neg(Add(a, rest))) = 0 BY <1>1, UnitsAndNegation
  <1> QED BY <1>2, <1>4, <1>5

\* A share that is short of a whole key, weighted.
LEMMA WeightedCancel ==
  ASSUME NEW lambda \in NonZero, NEW a \in Scalars, NEW sk \in Scalars
  PROVE  Mul(lambda, Sub(a, Div(sk, lambda))) = Sub(Mul(lambda, a), sk)
  <1> DEFINE d == Div(sk, lambda)
  <1>1. lambda \in Scalars /\ Inv(lambda) \in Scalars /\ Mul(lambda, Inv(lambda)) = 1
    BY Invertible DEF NonZero
  <1>2. d = Mul(sk, Inv(lambda)) BY DEF Div
  <1> HIDE DEF d
  <1>3. d \in Scalars BY <1>1, <1>2, Closed
  <1>4. Mul(lambda, d) = sk
    <2>1. Mul(lambda, Mul(sk, Inv(lambda))) = Mul(sk, Mul(lambda, Inv(lambda)))
      BY <1>1, MulAssoc, Commutes, Closed
    <2> QED BY <1>1, <1>2, <2>1, UnitsAndNegation
  <1>5. Mul(lambda, Neg(d)) = Neg(sk) BY <1>1, <1>3, <1>4, SignLaws
  <1>6. Neg(d) \in Scalars BY <1>3, Closed
  <1>7. Mul(lambda, Add(a, Neg(d))) = Add(Mul(lambda, a), Mul(lambda, Neg(d)))
    BY <1>1, <1>6, Distributes
  <1> QED BY <1>5, <1>7 DEF Sub, d

\* The public shares of the crafted last signer interpolate to infinity.
LEMMA CraftedSharesCancel ==
  ASSUME NEW c \in DOMAIN Configs
  PROVE  LET in == Inputs[c]
             ids == Min2Set(in)
             shares == Taken(in.pubshares, [ids EXCEPT ![Len(ids)] = in.n + 1])
         IN  /\ \A k \in DOMAIN shares : PointDecodes(shares[k])
             /\ DerivePubshareAt(ids, shares, -1) = Infinity
  <1> DEFINE in == Inputs[c]
             n == Configs[c].n
             sk == Configs[c].seckey
             ids == Min2Set(Configs[c])
             m == Len(ids)
             crafted == [ids EXCEPT ![m] = in.n + 1]
             shares == Taken(in.pubshares, crafted)
             real == Taken(Keys[c].secshares, ids)
             lambda == [k \in DOMAIN ids |-> DeriveInterpolatingValue(ids, ids[k])]
             f == [k \in DOMAIN ids |-> Mul(DeriveInterpolatingValue(ids, ids[k]), real[k])]
             g == [k \in DOMAIN ids |-> Mul(DeriveInterpolatingValue(ids, ids[k]), shares[k])]
             cancel == CancelShare(ids, Keys[c].secshares)
  <1>1. Sizes(Configs[c]) /\ n \in 1 .. MaxParticipants /\ n \in Nat /\ sk \in NonZero
    BY ConfigSizes, ConfigsAssumption DEF Sizes
  <1>2. /\ SignersOf(n, ids) /\ m \in Configs[c].t .. n /\ DOMAIN ids = 1 .. m
        /\ \A k \in DOMAIN ids : ids[k] \in 0 .. n - 1
    BY <1>1, SignerSets
  <1>3. m \in Nat /\ m >= Configs[c].t /\ m \in DOMAIN ids BY <1>1, <1>2, ConfigSizes
  <1>4. ids = Min2Set(in) /\ in.n = n BY GroupFields DEF Min2Set
  <1>5. /\ RealEntries(in) /\ CraftedEntries(in)
        /\ \A k \in 0 .. n - 1 : in.pubshares[k] = Keys[c].secshares[k]
                                 /\ Keys[c].secshares[k] \in NonZero
        /\ in.pubshares[n + 1] = Mul(cancel, G) /\ in.pubshares[n + 1] \in NonZero
    <2>1. RealEntries(in) /\ CraftedEntries(in) BY BuiltGroup
    <2>2. /\ \A k \in 0 .. n - 1 : in.pubshares[k] = Keys[c].pubshares[k]
          /\ in.pubshares[n + 1] = Mul(cancel, G)
      BY GroupFields
    <2>3. \A k \in 0 .. n - 1 : Keys[c].secshares[k] \in NonZero
                                /\ Keys[c].pubshares[k] = Keys[c].secshares[k]
      BY ConfigShares
    <2>4. in.pubshares[n + 1] \in NonZero BY <1>4, <2>1 DEF CraftedEntries
    <2> HIDE DEF in, n, cancel
    <2> QED BY <2>1, <2>2, <2>3, <2>4
  <1>6. /\ cancel = Sub(Keys[c].secshares[Last(ids)],
                        Div(sk, DeriveInterpolatingValue(ids, Last(ids))))
        /\ cancel \in Scalars
    BY CancelShareIsScalar
  <1>7. DerivePubshareAt(ids, real, -1) = sk BY <1>2, <1>3, Reconstructed
  <1>8. DerivePubshareAt(ids, real, -1) = SumOver(DOMAIN ids, f)
        /\ DerivePubshareAt(ids, shares, -1) = SumOver(DOMAIN ids, g)
    BY <1>2, ThreshPubkeyIsSum DEF SignersOf
  <1> HIDE DEF ids, in, n, sk
  <1>9. DOMAIN shares = DOMAIN ids /\ DOMAIN crafted = DOMAIN ids BY DEF Taken
  <1>10. \A k \in DOMAIN ids : crafted[k] = IF k = m THEN n + 1 ELSE ids[k] BY <1>4
  <1>11. \A k \in DOMAIN ids : shares[k] = IF k = m THEN cancel ELSE real[k]
    <2>1. Mul(cancel, G) = cancel BY <1>6, TimesG
    <2> HIDE DEF cancel, crafted, m
    <2>2. \A k \in DOMAIN ids : shares[k] = in.pubshares[crafted[k]] BY <1>9 DEF Taken
    <2>3. \A k \in DOMAIN ids : real[k] = in.pubshares[ids[k]] BY <1>2, <1>5 DEF Taken
    <2> QED BY <1>5, <1>10, <2>1, <2>2, <2>3
  <1>12. \A k \in DOMAIN ids : real[k] \in NonZero /\ shares[k] \in NonZero
    <2>1. Mul(cancel, G) = cancel BY <1>6, TimesG
    <2>2. cancel \in NonZero BY <1>5, <2>1
    <2>3. \A k \in DOMAIN ids : real[k] \in NonZero BY <1>2, <1>5 DEF Taken
    <2> HIDE DEF cancel, real, shares, m
    <2> QED BY <1>11, <2>2, <2>3
  <1>13. \A k \in DOMAIN ids : DeriveInterpolatingValue(ids, ids[k]) \in NonZero
    <2>1. \A k \in DOMAIN ids : ids[k] \in ToSet(ids) BY DEF ToSet
    <2> QED BY <1>2, <2>1, InterpolatingValue DEF SignersOf
  <1> HIDE DEF real, shares, crafted, cancel, m
  <1>14. ScalarsOn(DOMAIN ids, f) /\ ScalarsOn(DOMAIN ids, g)
    BY <1>12, <1>13, Closed DEF ScalarsOn, NonZero
  <1>15. f[m] = Mul(DeriveInterpolatingValue(ids, ids[m]), real[m])
         /\ g[m] = Mul(DeriveInterpolatingValue(ids, ids[m]), cancel)
    BY <1>3, <1>11
  <1>16. \A k \in DOMAIN ids \ {m} : g[k] = f[k] BY <1>11
  <1>17. cancel = Sub(real[m], Div(sk, DeriveInterpolatingValue(ids, ids[m])))
    BY <1>3, <1>6 DEF Last, m, real, Taken
  <1>18. g[m] = Sub(f[m], sk)
    <2>1. DeriveInterpolatingValue(ids, ids[m]) \in NonZero /\ real[m] \in Scalars /\ sk \in Scalars
      BY <1>1, <1>3, <1>12, <1>13 DEF NonZero
    <2> HIDE DEF f, g
    <2> QED BY <1>15, <1>17, <2>1, WeightedCancel
  <1>19. IsFiniteSet(DOMAIN ids) BY <1>2, <1>3, FS_Interval
  <1> HIDE DEF f, g
  <1>20. PICK rest \in Scalars : /\ SumOver(DOMAIN ids, f) = Add(f[m], rest)
                                 /\ SumOver(DOMAIN ids, g) = Add(g[m], rest)
    BY <1>3, <1>14, <1>16, <1>19, OneSummandChanges
  <1>21. f[m] \in Scalars BY <1>3, <1>14 DEF ScalarsOn
  <1>22. SumOver(DOMAIN ids, g) = 0 BY <1>7, <1>8, <1>18, <1>20, <1>21, WholeTakenOff
  <1>23. \A k \in DOMAIN shares : PointDecodes(shares[k]) BY <1>9, <1>12 DEF PointDecodes
  <1>24. DerivePubshareAt(ids, shares, -1) = Infinity BY <1>8, <1>22 DEF Infinity
  <1> QED BY <1>4, <1>23, <1>24 DEF shares, crafted, m, in, n, ids

\* A sum from 1 to n, its last summand apart.
LEMMA LastSplitOff ==
  ASSUME NEW n \in Nat, n >= 1, NEW f, ScalarsOn(1 .. n, f), NEW g,
         \A k \in 1 .. n - 1 : g[k] = f[k]
  PROVE  SumOver(1 .. n, f) = Add(f[n], SumOver(1 .. n - 1, g))
  <1>1. n \in 1 .. n OBVIOUS
  <1>2. \A k \in 1 .. n - 1 : g[k] = f[IF k < n THEN k ELSE k + 1] OBVIOUS
  <1> QED BY <1>1, <1>2, SumWithout

\* The crafted nonce and those of the first n - 1 signers add up to infinity.
LEMMA CraftedNonceCancels ==
  ASSUME NEW c \in DOMAIN Configs
  PROVE  Agg(Inputs[c], InverseIndices(Inputs[c])) = <<Infinity, Infinity>>
  <1> DEFINE in == Inputs[c]
             n == Configs[c].n
             pubs == [i \in 0 .. n - 1 |-> Nonces[c][i].pubnonce]
             first == Taken(pubs, IdRange(0, n - 1))
             inverse == InversePubnonce(n, pubs)
             indices == InverseIndices(in)
             all == Taken(in.pubnonces, indices)
  <1>1. n \in Nat /\ n >= 3 /\ n \in 1 .. MaxParticipants BY ConfigSizes
  <1>2. /\ in.n = n /\ in.pubnonces[n + 1] = inverse
        /\ \A k \in 0 .. n - 1 : in.pubnonces[k] = Nonces[c][k].pubnonce
    BY GroupFields
  <1>3. \A k \in 0 .. n - 1 : pubs[k][1] \in NonZero /\ pubs[k][2] \in NonZero
    BY ConfigNonces
  <1>4. \A j \in 1 .. 2 : inverse[j] \in NonZero
    <2>1. CraftedEntries(in) BY BuiltGroup
    <2> QED BY <1>2, <2>1 DEF CraftedEntries
  <1>5. \A k \in 0 .. n - 1 : in.pubnonces[k] = pubs[k] BY <1>2
  <1> HIDE DEF pubs, in, n, inverse
  <1>6. \A j \in 1 .. 2 : /\ SumOfComponents(first, j) \in Scalars
                          /\ inverse[j] = Neg(SumOfComponents(first, j))
    BY <1>1, <1>3, InverseNonceNegates DEF inverse
  <1>7. /\ DOMAIN indices = 1 .. n /\ indices[n] = n + 1
        /\ \A k \in 1 .. n - 1 : indices[k] = k - 1
        /\ DOMAIN first = 1 .. n - 1
        /\ \A k \in 1 .. n - 1 : first[k] = pubs[k - 1]
    <2> DEFINE range == IdRange(0, n - 1)
    <2>1. (n - 1) - 0 = n - 1 /\ \A k \in 1 .. n - 1 : 0 + k - 1 = k - 1 BY <1>1
    <2>2. range = [k \in 1 .. n - 1 |-> k - 1] BY <2>1 DEF IdRange
    <2>3. indices = range \o <<n + 1>> BY <1>2 DEF InverseIndices
    <2>4. range \in Seq(Int) /\ Len(range) = n - 1 BY <1>1, <2>2
    <2>5. DOMAIN first = 1 .. n - 1 /\ \A k \in 1 .. n - 1 : first[k] = pubs[k - 1]
      BY <2>2 DEF Taken
    <2>6. <<n + 1>> \in Seq(Int) /\ Len(<<n + 1>>) = 1 /\ <<n + 1>>[1] = n + 1 BY <1>1
    <2>7. \A k \in 1 .. n - 1 : range[k] = k - 1 BY <2>2
    <2> HIDE DEF range, indices, first
    <2>8. /\ DOMAIN indices = 1 .. n /\ indices[n] = n + 1
          /\ \A k \in 1 .. n - 1 : indices[k] = range[k]
      BY <1>1, <2>3, <2>4, <2>6
    <2> QED BY <2>5, <2>7, <2>8
  <1>8. /\ DOMAIN all = 1 .. n /\ all[n] = inverse
        /\ \A k \in 1 .. n - 1 : all[k] = first[k]
    <2>1. \A k \in 1 .. n - 1 : k - 1 \in 0 .. n - 1 /\ k \in 1 .. n BY <1>1
    <2>2. n \in 1 .. n BY <1>1
    <2>3. DOMAIN all = 1 .. n /\ \A k \in 1 .. n : all[k] = in.pubnonces[indices[k]]
      BY <1>7 DEF Taken
    <2> HIDE DEF all, indices, first
    <2>4. all[n] = in.pubnonces[indices[n]] BY <2>2, <2>3
    <2>5. \A k \in 1 .. n - 1 : all[k] = in.pubnonces[indices[k]] BY <2>1, <2>3
    <2>6. all[n] = inverse BY <1>2, <1>7, <2>4
    <2>7. \A k \in 1 .. n - 1 : all[k] = in.pubnonces[k - 1] BY <1>7, <2>5
    <2>8. \A k \in 1 .. n - 1 : all[k] = first[k] BY <1>5, <1>7, <2>1, <2>7
    <2> QED BY <2>3, <2>6, <2>8
  <1> HIDE DEF all, first, indices
  <1>9. \A k \in DOMAIN all : all[k][1] \in NonZero /\ all[k][2] \in NonZero
    <2>1. \A k \in 1 .. n - 1 : k - 1 \in 0 .. n - 1 BY <1>1
    <2>2. \A k \in 1 .. n - 1 : all[k][1] \in NonZero /\ all[k][2] \in NonZero
      BY <1>3, <1>7, <1>8, <2>1
    <2>3. all[n][1] \in NonZero /\ all[n][2] \in NonZero BY <1>4, <1>8
    <2>4. \A k \in 1 .. n : k \in 1 .. n - 1 \/ k = n BY <1>1
    <2> QED BY <1>8, <2>2, <2>3, <2>4
  <1>10. \A j \in 1 .. 2 : SumOfComponents(all, j) = 0
    <2> TAKE j \in 1 .. 2
    <2> DEFINE f == [i \in DOMAIN all |-> all[i][j]]
               g == [i \in DOMAIN first |-> first[i][j]]
    <2>1. ScalarsOn(1 .. n, f)
      <3>1. \A k \in DOMAIN all : all[k][j] \in Scalars BY <1>9 DEF NonZero
      <3> QED BY <1>8, <3>1 DEF ScalarsOn
    <2>2. \A k \in 1 .. n - 1 : g[k] = f[k]
      <3>1. \A k \in 1 .. n - 1 : k \in 1 .. n BY <1>1
      <3> QED BY <1>7, <1>8, <3>1
    <2>3. f[n] = inverse[j] /\ n \in 1 .. n BY <1>1, <1>8
    <2>4. SumOfComponents(all, j) = SumOver(1 .. n, f) BY <1>8 DEF SumOfComponents
    <2>5. SumOfComponents(first, j) = SumOver(1 .. n - 1, g) BY <1>7 DEF SumOfComponents
    <2> HIDE DEF f, g
    <2>6. SumOver(1 .. n, f) = Add(f[n], SumOver(1 .. n - 1, g))
      BY <1>1, <2>1, <2>2, LastSplitOff
    <2>7. SumOfComponents(all, j)
            = Add(Neg(SumOfComponents(first, j)), SumOfComponents(first, j))
      BY <1>6, <2>3, <2>4, <2>5, <2>6
    <2>8. SumOfComponents(first, j) \in Scalars /\ Neg(SumOfComponents(first, j)) \in Scalars
      BY <1>6, Closed
    <2> QED BY <2>7, <2>8, Commutes, UnitsAndNegation
  <1>11. NonceAgg(all) = Returns(<<SumOfComponents(all, 1), SumOfComponents(all, 2)>>)
    <2>1. IsFiniteSet(DOMAIN all) BY <1>1, <1>8, FS_Interval
    <2> QED BY <1>9, <2>1, NonceAggOfReal
  <1>12. NonceAgg(all).val = <<0, 0>> BY <1>10, <1>11 DEF Returns
  <1> QED BY <1>12 DEF Agg, Infinity, all, indices, in

\* The second element of what is appended to a list.
LEMMA SecondAppended ==
  ASSUME NEW S, NEW s \in Seq(S), NEW t \in Seq(S), NEW n, n = Len(s), 2 \in 1 .. Len(t)
  PROVE  (s \o t)[n + 2] = t[2]
  <1>1. n + 2 \in 1 .. Len(s) + Len(t) OBVIOUS
  <1>2. ~ (n + 2 <= Len(s)) /\ (n + 2) - Len(s) = 2 OBVIOUS
  <1> QED BY <1>1, <1>2, ConcatProperties

\* The crafted tweak takes the group key to infinity.
LEMMA CraftedTweakCancels ==
  ASSUME NEW c \in DOMAIN Configs
  PROVE  LET tweak == Inputs[c].tweaks[6]
         IN  ScalarInRange(tweak) /\ Add(Inputs[c].thresh_pk, Mul(tweak, G)) = Infinity
  <1> DEFINE sk == Configs[c].seckey
             ids == MinSet(Configs[c])
             two == <<Order, Neg(ReconstructThreshSk(ids, Keys[c].secshares))>>
             tweak == Inputs[c].tweaks[6]
  <1>1. Sizes(Configs[c]) /\ sk \in NonZero BY ConfigSizes, ConfigsAssumption DEF Sizes
  <1>2. SignersOf(Configs[c].n, ids) /\ Len(ids) \in Configs[c].t .. Configs[c].n
    BY <1>1, SignerSets
  <1>3. Len(ids) >= Configs[c].t BY <1>2, ConfigSizes
  <1>4. ReconstructThreshSk(ids, Keys[c].secshares) = sk BY <1>2, <1>3, Reconstructed
  <1>5. Inputs[c].thresh_pk = sk /\ Inputs[c].tweaks = CommonTweaks \o two BY GroupFields
  <1>6. two[2] = Neg(sk) /\ Len(two) = 2 BY <1>4
  <1>7. sk \in Scalars /\ Neg(sk) \in Scalars /\ Order \in Int
    <2>1. sk \in Scalars BY <1>1 DEF NonZero
    <2> HIDE DEF sk
    <2>2. Neg(sk) \in Scalars BY <2>1, Closed
    <2>3. Order \in Int BY OrderAssumption
    <2> QED BY <2>1, <2>2, <2>3
  <1>8. two \in Seq(Int) BY <1>4, <1>7 DEF Scalars
  <1>9. tweak = Neg(sk)
    <2> DEFINE n == Len(CommonTweaks)
    <2>1. CommonTweaks \in Seq(Scalars) /\ n = 4 BY ConfigsAssumption
    <2>2. Scalars \subseteq Int BY Closed
    <2>3. CommonTweaks \in Seq(Int) BY <2>1, <2>2, ListOfMore
    <2>4. 2 \in 1 .. Len(two) BY <1>6
    <2> HIDE DEF two
    <2>5. (CommonTweaks \o two)[n + 2] = two[2] BY <1>8, <2>3, <2>4, SecondAppended
    <2>6. n + 2 = 6 BY <2>1
    <2> QED BY <1>5, <1>6, <2>5, <2>6
  <1> HIDE DEF sk, tweak
  <1>10. Mul(tweak, G) = Neg(sk) BY <1>7, <1>9, TimesG
  <1>11. Add(sk, Neg(sk)) = 0 BY <1>7, UnitsAndNegation
  <1>12. Inputs[c].thresh_pk = sk BY <1>5 DEF sk
  <1>13. Add(Inputs[c].thresh_pk, Mul(tweak, G)) = 0 BY <1>10, <1>11, <1>12
  <1>14. tweak \in Scalars BY <1>7, <1>9
  <1> QED BY <1>13, <1>14 DEF ScalarInRange, Infinity, tweak

-----------------------------------------------------------------------------
(* The state of a group's cases.                                           *)

\* The group is one of those built, and stays it.
GroupInv == \E i \in DOMAIN Configs : inputs = Inputs[i]

\* What is built before the first case stays as it is.
LEMMA GroupStays == CasesSpec => []GroupInv
  <1>1. CasesInit => GroupInv
    <2> SUFFICES ASSUME CasesInit PROVE GroupInv OBVIOUS
    <2>1. PICK i \in IF file = "nonce" THEN {1} ELSE DOMAIN Configs : inputs = Inputs[i]
      BY DEF CasesInit
    <2> QED BY <2>1, ConfigsAssumption DEF GroupInv
  <1>2. GroupInv /\ [CasesNext]_casesVars => GroupInv'
    <2> SUFFICES ASSUME GroupInv, [CasesNext]_casesVars PROVE inputs' = inputs BY DEF GroupInv
    <2>1. CASE CasesNext BY <2>1 DEF CasesNext, RunCase, EndCase
    <2>2. CASE UNCHANGED casesVars BY <2>2 DEF casesVars
    <2> QED BY <2>1, <2>2
  <1> QED BY <1>1, <1>2, PTL DEF CasesSpec

\* The crafted entries of every group, for every number of participants, threshold
\* and secret key (common.py:209-246): the public shares with the cancelling one
\* decode and interpolate to infinity, the first n - 1 nonces and the inverse one
\* add up to infinity, and the last tweak is in range and takes the group key there.
THEOREM FaultSlotsTheorem == CasesSpec => []FaultSlotsLeadToInfinity
  <1>1. GroupInv => FaultSlotsLeadToInfinity
    <2> SUFFICES ASSUME NEW c \in DOMAIN Configs, inputs = Inputs[c]
                 PROVE  FaultSlotsLeadToInfinity
      BY DEF GroupInv
    <2>1. LET ids == Min2Set(inputs)
              shares == Taken(inputs.pubshares, [ids EXCEPT ![Len(ids)] = inputs.n + 1])
          IN  /\ \A k \in DOMAIN shares : PointDecodes(shares[k])
              /\ DerivePubshareAt(ids, shares, -1) = Infinity
      BY CraftedSharesCancel
    <2>2. Agg(inputs, InverseIndices(inputs)) = <<Infinity, Infinity>> BY CraftedNonceCancels
    <2>3. ScalarInRange(inputs.tweaks[6])
          /\ Add(inputs.thresh_pk, Mul(inputs.tweaks[6], G)) = Infinity
      BY CraftedTweakCancels
    <2> QED BY <2>1, <2>2, <2>3 DEF FaultSlotsLeadToInfinity
  <1> QED BY <1>1, GroupStays, PTL

-----------------------------------------------------------------------------
(* The cases of every file.                                                *)

\* The nonces that a case has aggregated.
NoncesOf(in, c) == IF c.call = "nonce_agg" THEN c.nonces ELSE Taken(in.pubnonces, c.pubnonces)
\* The positions of the nonces that cpoint does not decode, at most one of them in
\* a list of nonces of a case.
Undecodable(nonces) == {k \in DOMAIN nonces : \E j \in 1 .. 2 : ~ PointDecodes(nonces[k][j])}

\* At most one element, and a sequence by its domain.
AtMostOne(S) == \A x, y \in S : x = y
IsList(s) == \E m \in Nat : DOMAIN s = 1 .. m

\* The fields of a case, and its lists.
CaseFields ==
  {"call", "my_id", "ids", "knows_pubshares", "pubshares", "pubnonces", "secshare", "secnonce",
   "aggnonce", "tweaks", "is_xonly", "msg", "psigs", "signer_index", "aux_rand"}

\* A session that is to be signed, right or wrong.
CaseLists(c) ==
  c.ids \in Seq(Nat) /\ c.tweaks \in Seq(Int) /\ c.is_xonly \in Seq(BOOLEAN)
Plain(c) == DOMAIN c = CaseFields /\ c.call = "sign" /\ CaseLists(c)

\* An aggregation: of all partial signatures, or of one that is spoilt or missing.
Aggregation(in, c) ==
  /\ SignersOf(in.n, c.ids) /\ c.pubshares = c.ids
  /\ c.psigs \in {Psigs(in, c), Front(Psigs(in, c)) \o <<Order>>, Front(Psigs(in, c))}

\* What is true of the cases of all files.
Listed(in, c) ==
  /\ c.call \in {"sign", "det", "verify", "agg", "nonce_gen", "nonce_agg"}
  /\ c.call \in {"sign", "det", "agg"} => DOMAIN c = CaseFields
  /\ c.call \in {"sign", "det", "verify", "agg"} => CaseLists(c)
  /\ c.call \in {"verify", "nonce_agg"} =>
       IsList(NoncesOf(in, c)) /\ AtMostOne(Undecodable(NoncesOf(in, c)))
  /\ c.call = "agg" => Aggregation(in, c)

\* The entries of a list of tests, all of them to be signed or any.
EntryFields == {"case", "want", "fault"}
IsEntry(in, kind, e) ==
  DOMAIN e = EntryFields /\ (IF kind = "plain" THEN Plain(e.case) ELSE Listed(in, e.case))

Tests(in, kind, s) == \E S : s \in Seq(S) /\ \A e \in S : IsEntry(in, kind, e)

\* Lists of tests: those of a set of entries, of plain ones and the empty one.
LEMMA TestsAmong ==
  ASSUME NEW in, NEW kind, NEW S, NEW s \in Seq(S), \A e \in S : IsEntry(in, kind, e)
  PROVE  Tests(in, kind, s)
  BY DEF Tests

\* A case to be signed is among the cases of all files.
LEMMA PlainIsListed ==
  ASSUME NEW in, NEW kind, NEW e, IsEntry(in, "plain", e)
  PROVE  IsEntry(in, kind, e)
  <1>1. Plain(e.case) /\ DOMAIN e = EntryFields BY DEF IsEntry
  <1>2. Listed(in, e.case) BY <1>1 DEF Plain, Listed
  <1> QED BY <1>1, <1>2 DEF IsEntry

\* So is every one of a list of them.
LEMMA PlainTests ==
  ASSUME NEW in, NEW kind, NEW s, Tests(in, "plain", s)
  PROVE  Tests(in, kind, s)
  <1>1. PICK S : s \in Seq(S) /\ \A e \in S : IsEntry(in, "plain", e) BY DEF Tests
  <1>2. \A e \in S : IsEntry(in, kind, e) BY <1>1, PlainIsListed
  <1> QED BY <1>1, <1>2 DEF Tests

\* Tests one after the other.
LEMMA JoinedTests ==
  ASSUME NEW in, NEW kind, NEW s, Tests(in, kind, s), NEW u, Tests(in, kind, u)
  PROVE  Tests(in, kind, s \o u)
  <1>1. PICK S : s \in Seq(S) /\ \A e \in S : IsEntry(in, kind, e) BY DEF Tests
  <1>2. PICK U : u \in Seq(U) /\ \A e \in U : IsEntry(in, kind, e) BY DEF Tests
  <1>3. s \in Seq(S \cup U) /\ u \in Seq(S \cup U) BY <1>1, <1>2, ListOfMore
  <1>4. s \o u \in Seq(S \cup U) BY <1>3, ConcatProperties
  <1>5. \A e \in S \cup U : IsEntry(in, kind, e) BY <1>1, <1>2
  <1> QED BY <1>4, <1>5 DEF Tests

\* The empty list.
LEMMA NoTests ==
  ASSUME NEW in, NEW kind
  PROVE  Tests(in, kind, <<>>)
  <1> DEFINE S == {}
  <1>1. <<>> \in Seq(S) /\ \A e \in S : IsEntry(in, kind, e) OBVIOUS
  <1> HIDE DEF S
  <1> QED BY <1>1, TestsAmong

\* Tests that only some groups have.
LEMMA TestsWhen ==
  ASSUME NEW in, NEW kind, NEW condition, NEW s, Tests(in, kind, s)
  PROVE  Tests(in, kind, When(condition, s))
  BY NoTests DEF When

\* One test.
LEMMA OneTest ==
  ASSUME NEW in, NEW kind, NEW a, IsEntry(in, kind, a)
  PROVE  Tests(in, kind, <<a>>)
  <1> DEFINE S == {a}
             s == <<a>>
  <1>1. s \in Seq(S) OBVIOUS
  <1>2. \A e \in S : IsEntry(in, kind, e) OBVIOUS
  <1> HIDE DEF S, s
  <1>3. Tests(in, kind, s) BY <1>1, <1>2, TestsAmong
  <1> QED BY <1>3 DEF s

\* Two tests.
LEMMA TwoTests ==
  ASSUME NEW in, NEW kind, NEW a, IsEntry(in, kind, a), NEW b, IsEntry(in, kind, b)
  PROVE  Tests(in, kind, <<a, b>>)
  <1> DEFINE S == {a, b}
             s == <<a, b>>
  <1>1. s \in Seq(S) OBVIOUS
  <1>2. \A e \in S : IsEntry(in, kind, e) OBVIOUS
  <1> HIDE DEF S, s
  <1>3. Tests(in, kind, s) BY <1>1, <1>2, TestsAmong
  <1> QED BY <1>3 DEF s

\* Three tests.
LEMMA ThreeTests ==
  ASSUME NEW in, NEW kind, NEW a, IsEntry(in, kind, a), NEW b, IsEntry(in, kind, b),
         NEW c, IsEntry(in, kind, c)
  PROVE  Tests(in, kind, <<a, b, c>>)
  <1> DEFINE S == {a, b, c}
             s == <<a, b, c>>
  <1>1. s \in Seq(S) OBVIOUS
  <1>2. \A e \in S : IsEntry(in, kind, e) OBVIOUS
  <1> HIDE DEF S, s
  <1>3. Tests(in, kind, s) BY <1>1, <1>2, TestsAmong
  <1> QED BY <1>3 DEF s

\* Four tests.
LEMMA FourTests ==
  ASSUME NEW in, NEW kind, NEW a, IsEntry(in, kind, a), NEW b, IsEntry(in, kind, b),
         NEW c, IsEntry(in, kind, c), NEW d, IsEntry(in, kind, d)
  PROVE  Tests(in, kind, <<a, b, c, d>>)
  <1> DEFINE S == {a, b, c, d}
             s == <<a, b, c, d>>
  <1>1. s \in Seq(S) OBVIOUS
  <1>2. \A e \in S : IsEntry(in, kind, e) OBVIOUS
  <1> HIDE DEF S, s
  <1>3. Tests(in, kind, s) BY <1>1, <1>2, TestsAmong
  <1> QED BY <1>3 DEF s

\* Tests given by a function on the positions.
LEMMA TestsByPosition ==
  ASSUME NEW in, NEW kind, NEW m \in Nat, NEW s, DOMAIN s = 1 .. m,
         s = [k \in 1 .. m |-> s[k]], \A k \in 1 .. m : IsEntry(in, kind, s[k])
  PROVE  Tests(in, kind, s)
  <1> DEFINE S == {s[k] : k \in 1 .. m}
  <1>1. s \in Seq(S)
    <2>1. \A k \in 1 .. m : s[k] \in S OBVIOUS
    <2>2. s = [k \in 1 .. m |-> s[k]] OBVIOUS
    <2> HIDE DEF S
    <2>3. [k \in 1 .. m |-> s[k]] \in Seq(S) BY <2>1
    <2> QED BY <2>2, <2>3
  <1>2. \A e \in S : IsEntry(in, kind, e) OBVIOUS
  <1> QED BY <1>1, <1>2, TestsAmong

\* The entry of a case, whatever it is meant to end in.
LEMMA EntryOfCase ==
  ASSUME NEW in, NEW c
  PROVE  /\ Plain(c) =>
              /\ IsEntry(in, "plain", Valid(c))
              /\ \A fault : /\ IsEntry(in, "plain", Refused(c, fault))
                            /\ IsEntry(in, "plain", Blamed(c, fault))
         /\ Listed(in, c) =>
              /\ IsEntry(in, "any", Valid(c)) /\ IsEntry(in, "any", Fails(c))
              /\ \A fault : /\ IsEntry(in, "any", Refused(c, fault))
                            /\ IsEntry(in, "any", Blamed(c, fault))
  <1>1. ASSUME NEW want, NEW fault
        PROVE  LET e == [case |-> c, want |-> want, fault |-> fault]
               IN  DOMAIN e = EntryFields /\ e.case = c
    BY DEF EntryFields
  <1>2. "plain" # "any" OBVIOUS
  <1> QED BY <1>1, <1>2 DEF IsEntry, Valid, Fails, Refused, Blamed

\* The lists of ids that the cases are made with.
IdLists(in) ==
  {MinSet(in), FullSet(in), AltSet(in), Min2Set(in), Excl0Set(in), Reverse(MinSet(in)),
   IdRange(0, in.t - 1), <<in.n>> \o IdRange(1, in.t), <<0, 1, 2>>, <<0, 1, 1>>}

\* They are lists of numbers, each range being a shifted 1 .. m.
LEMMA ListsOfIds ==
  ASSUME NEW in, RealEntries(in), NEW ids \in IdLists(in)
  PROVE  ids \in Seq(Nat)
  <1>1. in.n \in Nat /\ in.t \in Nat /\ in.t \in 1 .. in.n
    BY ParticipantsAssumption DEF RealEntries
  <1>2. ASSUME NEW first \in Nat, NEW end \in Nat, first <= end
        PROVE  IdRange(first, end) \in Seq(Nat)
    <2> DEFINE m == end - first
    <2>1. m \in Nat BY <1>2
    <2>2. IdRange(first, end) = [k \in 1 .. m |-> first + k - 1] BY DEF IdRange
    <2> HIDE DEF m
    <2>3. \A k \in 1 .. m : first + k - 1 \in Nat BY <2>1
    <2> QED BY <2>1, <2>2, <2>3
  <1>3. /\ MinSet(in) \in Seq(Nat) /\ FullSet(in) \in Seq(Nat) /\ Excl0Set(in) \in Seq(Nat)
        /\ IdRange(0, in.t - 1) \in Seq(Nat) /\ IdRange(1, in.t) \in Seq(Nat)
        /\ IdRange(in.n - in.t + 1, in.n) \in Seq(Nat)
    <2>1. ASSUME NEW n \in Nat, NEW t \in Nat, t \in 1 .. n
          PROVE  /\ 1 <= t + 1 /\ 1 <= t /\ n - t + 1 <= n /\ 0 <= t - 1 /\ 0 <= t /\ 0 <= n
                 /\ n - t + 1 \in Nat /\ t - 1 \in Nat /\ t + 1 \in Nat
      BY <2>1
    <2> QED BY <1>1, <1>2, <2>1 DEF MinSet, FullSet, Excl0Set
  <1>4. Min2Set(in) \in Seq(Nat)
    <2> DEFINE end == IF in.t < 2 THEN 2 ELSE in.t
    <2>1. end \in Nat /\ 0 <= end BY <1>1
    <2>2. Min2Set(in) = IdRange(0, end) BY DEF Min2Set
    <2> HIDE DEF end
    <2> QED BY <1>2, <2>1, <2>2
  <1>5. AltSet(in) \in Seq(Nat) /\ <<in.n>> \o IdRange(1, in.t) \in Seq(Nat)
    <2> DEFINE a == <<0>>
               b == <<in.n>>
               c == IdRange(in.n - in.t + 1, in.n)
               d == IdRange(1, in.t)
    <2>1. a \in Seq(Nat) /\ b \in Seq(Nat) /\ c \in Seq(Nat) /\ d \in Seq(Nat) BY <1>1, <1>3
    <2>2. AltSet(in) = a \o c BY DEF AltSet
    <2> HIDE DEF a, b, c, d
    <2>3. a \o c \in Seq(Nat) /\ b \o d \in Seq(Nat) BY <2>1, ConcatProperties
    <2> QED BY <2>2, <2>3 DEF b, d
  <1>6. Reverse(MinSet(in)) \in Seq(Nat)
    <2> DEFINE s == MinSet(in)
               m == Len(s)
    <2>1. s \in Seq(Nat) BY <1>3
    <2> HIDE DEF s
    <2>2. m \in Nat /\ \A k \in 1 .. m : (m - k) + 1 \in 1 .. m /\ s[(m - k) + 1] \in Nat BY <2>1
    <2>3. Reverse(s) = [k \in 1 .. m |-> s[(m - k) + 1]] BY DEF Reverse
    <2> HIDE DEF m
    <2>4. Reverse(s) \in Seq(Nat) BY <2>2, <2>3
    <2> QED BY <2>4 DEF s
  <1>7. <<0, 1, 2>> \in Seq(Nat) /\ <<0, 1, 1>> \in Seq(Nat) OBVIOUS
  <1> QED BY <1>3, <1>4, <1>5, <1>6, <1>7 DEF IdLists

\* A case of a session is one to be signed.
LEMMA CaseIsPlain ==
  ASSUME NEW in, NEW ids \in Seq(Nat)
  PROVE  Plain(Case(in, ids))
  <1> DEFINE c == Case(in, ids)
  <1>1. /\ DOMAIN c = CaseFields /\ c.call = "sign"
        /\ c.ids = ids /\ c.tweaks = <<>> /\ c.is_xonly = <<>>
    BY DEF Case, CaseFields
  <1> HIDE DEF c
  <1>2. CaseLists(c) BY <1>1 DEF CaseLists
  <1> QED BY <1>1, <1>2 DEF Plain, c

\* The valid cases of sign_verify.py.
LEMMA SignValidCases ==
  ASSUME NEW in, RealEntries(in)
  PROVE  Tests(in, "plain", SignValidTests(in))
  <1> DEFINE min == Case(in, MinSet(in))
             full == Case(in, FullSet(in))
             reversed == Case(in, Reverse(MinSet(in)))
             alt == Case(in, AltSet(in))
             inverse == InverseIndices(in)
             unknown == [min EXCEPT !.knows_pubshares = FALSE]
             other == [full EXCEPT !.my_id = 1, !.secshare = 1, !.secnonce = 1]
             infinite == [full EXCEPT !.pubnonces = inverse, !.aggnonce = Agg(in, inverse)]
             empty == [min EXCEPT !.msg = Msgs[2]]
             long == [min EXCEPT !.msg = Msgs[3]]
             p == <<Valid(min), Valid(unknown)>>
             q == When(in.t >= 2, <<Valid(reversed)>>)
             r == When(HasAltSubset(in), <<Valid(alt)>>)
             s == <<Valid(other), Valid(infinite), Valid(empty), Valid(long)>>
  <1>1. SignValidTests(in) = p \o q \o r \o s BY DEF SignValidTests
  <1>2. Plain(min) /\ Plain(full) /\ Plain(reversed) /\ Plain(alt)
    BY CaseIsPlain, ListsOfIds DEF IdLists
  <1> HIDE DEF min, full, reversed, alt, inverse
  <1>3. Plain(unknown) /\ Plain(other) /\ Plain(infinite) /\ Plain(empty) /\ Plain(long)
    BY <1>2 DEF Plain, CaseLists, CaseFields
  <1> HIDE DEF unknown, other, infinite, empty, long
  <1>4. /\ IsEntry(in, "plain", Valid(min)) /\ IsEntry(in, "plain", Valid(unknown))
        /\ IsEntry(in, "plain", Valid(reversed)) /\ IsEntry(in, "plain", Valid(alt))
        /\ IsEntry(in, "plain", Valid(other)) /\ IsEntry(in, "plain", Valid(infinite))
        /\ IsEntry(in, "plain", Valid(empty)) /\ IsEntry(in, "plain", Valid(long))
    BY <1>2, <1>3, EntryOfCase
  <1>5. Tests(in, "plain", p) BY <1>4, TwoTests
  <1>6. Tests(in, "plain", q) BY <1>4, OneTest, TestsWhen
  <1>7. Tests(in, "plain", r) BY <1>4, OneTest, TestsWhen
  <1>8. Tests(in, "plain", s) BY <1>4, FourTests
  <1> HIDE DEF p, q, r, s
  <1> QED BY <1>1, <1>5, <1>6, <1>7, <1>8, JoinedTests

\* The errors that sign and deterministic_sign have in common.
LEMMA CommonErrorCases ==
  ASSUME NEW in, RealEntries(in), NEW aux_rand
  PROVE  Tests(in, "plain", CommonErrorTests(in, aux_rand))
  <1> DEFINE signer(ids) == [Case(in, ids) EXCEPT !.aux_rand = aux_rand]
             min == signer(MinSet(in))
             min2 == signer(Min2Set(in))
             ids2 == Min2Set(in)
             excl0 == signer(Excl0Set(in))
             below == IdRange(0, in.t - 1)
             outside == [min EXCEPT !.my_id = in.t]
             twice == [min EXCEPT !.ids = <<0, 1, 1>>, !.pubshares = <<0, 1, 1>>]
             foreign == [excl0 EXCEPT !.my_id = 1]
             fault == [min2 EXCEPT !.pubshares = [ids2 EXCEPT ![2] = in.n]]
             swapped == [min EXCEPT !.pubshares = SwapLastTwo(MinSet(in))]
             few == [min EXCEPT !.ids = below, !.pubshares = below]
             zero == [min EXCEPT !.secshare = in.n]
             p == When(in.t < in.n, <<Refused(outside, "own id")>>)
             q == <<Refused(twice, "duplicate ids")>>
             r == When(HasExcl0Subset(in), <<Refused(foreign, "own pubshare")>>)
             s == <<Refused(fault, "pubshare")>>
             u == When(in.t >= 2, <<Refused(swapped, "key mismatch")>>)
             w == <<Refused(few, "signer count"), Refused(zero, "secshare")>>
  <1>1. CommonErrorTests(in, aux_rand) = p \o q \o r \o s \o u \o w BY DEF CommonErrorTests
  <1>2. \A ids \in Seq(Nat) : Plain(signer(ids)) BY CaseIsPlain DEF Plain, CaseLists, CaseFields
  <1>14. /\ MinSet(in) \in Seq(Nat) /\ Min2Set(in) \in Seq(Nat) /\ Excl0Set(in) \in Seq(Nat)
         /\ below \in Seq(Nat) /\ <<0, 1, 1>> \in Seq(Nat)
    BY ListsOfIds DEF IdLists
  <1>3. Plain(min) /\ Plain(min2) /\ Plain(excl0) BY <1>2, <1>14
  <1> HIDE DEF signer, min, min2, excl0, ids2, below
  <1>5. /\ Plain(outside) /\ Plain(twice) /\ Plain(foreign) /\ Plain(fault)
        /\ Plain(swapped) /\ Plain(few) /\ Plain(zero)
    BY <1>3, <1>14 DEF Plain, CaseLists, CaseFields
  <1> HIDE DEF outside, twice, foreign, fault, swapped, few, zero
  <1>6. \A check : /\ IsEntry(in, "plain", Refused(outside, check))
                   /\ IsEntry(in, "plain", Refused(twice, check))
                   /\ IsEntry(in, "plain", Refused(foreign, check))
                   /\ IsEntry(in, "plain", Refused(fault, check))
                   /\ IsEntry(in, "plain", Refused(swapped, check))
                   /\ IsEntry(in, "plain", Refused(few, check))
                   /\ IsEntry(in, "plain", Refused(zero, check))
    BY <1>5, EntryOfCase
  <1>7. Tests(in, "plain", p) BY <1>6, OneTest, TestsWhen
  <1>8. Tests(in, "plain", q) BY <1>6, OneTest
  <1>9. Tests(in, "plain", r) BY <1>6, OneTest, TestsWhen
  <1>10. Tests(in, "plain", s) BY <1>6, OneTest
  <1>11. Tests(in, "plain", u) BY <1>6, OneTest, TestsWhen
  <1>12. Tests(in, "plain", w) BY <1>6, TwoTests
  <1> HIDE DEF p, q, r, s, u, w
  <1>13. Tests(in, "plain", p \o q \o r) BY <1>7, <1>8, <1>9, JoinedTests
  <1>16. Tests(in, "plain", p \o q \o r \o s \o u) BY <1>10, <1>11, <1>13, JoinedTests
  <1> QED BY <1>1, <1>12, <1>16, JoinedTests

\* The case of an id out of range.
LEMMA OutOfRangeCase ==
  ASSUME NEW in, RealEntries(in)
  PROVE  IsEntry(in, "plain", OutOfRangeId(in))
  <1> DEFINE me == IF in.t >= 2 THEN 1 ELSE 0
             ids == <<in.n>> \o IdRange(1, in.t)
             bad == [Case(in, MinSet(in)) EXCEPT !.my_id = me, !.secshare = me,
                                                 !.secnonce = me, !.ids = ids]
  <1>1. OutOfRangeId(in) = Refused(bad, "id") BY DEF OutOfRangeId
  <1>4. MinSet(in) \in Seq(Nat) /\ ids \in Seq(Nat) BY ListsOfIds DEF IdLists
  <1>5. Plain(Case(in, MinSet(in))) BY <1>4, CaseIsPlain
  <1> HIDE DEF ids, me
  <1>3. Plain(bad) BY <1>4, <1>5 DEF Plain, CaseLists, CaseFields
  <1> QED BY <1>1, <1>3, EntryOfCase

\* The errors of sign.
LEMMA SignErrorCases ==
  ASSUME NEW in, RealEntries(in)
  PROVE  Tests(in, "plain", SignErrorTests(in))
  <1> DEFINE min == Case(in, MinSet(in))
             min2 == Case(in, Min2Set(in))
             crafted == [Min2Set(in) EXCEPT ![Len(Min2Set(in))] = in.n + 1]
             aggnonces == <<<<Order, G>>, <<G, Order>>, <<G, Order + 1>>>>
             cancelling == [min2 EXCEPT !.pubshares = crafted]
             zeroed == [min EXCEPT !.secnonce = in.n]
             half == [min EXCEPT !.secnonce = in.n + 1]
             blamed(k) == [min EXCEPT !.aggnonce = aggnonces[k]]
             p == <<Refused(cancelling, "infinite threshold key"), OutOfRangeId(in)>>
             q == [k \in 1 .. 3 |-> Blamed(blamed(k), "aggnonce")]
             r == <<Refused(zeroed, "first secnonce"), Refused(half, "second secnonce")>>
  <1>1. SignErrorTests(in) = CommonErrorTests(in, None) \o p \o q \o r BY DEF SignErrorTests
  <1>2. Plain(min) /\ Plain(min2) BY CaseIsPlain, ListsOfIds DEF IdLists
  <1> HIDE DEF min, min2, crafted, aggnonces
  <1>3. Plain(cancelling) /\ Plain(zeroed) /\ Plain(half) /\ \A k : Plain(blamed(k))
    BY <1>2 DEF Plain, CaseLists, CaseFields
  <1> HIDE DEF cancelling, zeroed, half, blamed
  <1>4. Tests(in, "plain", p) BY <1>3, EntryOfCase, OutOfRangeCase, TwoTests
  <1>5. Tests(in, "plain", r) BY <1>3, EntryOfCase, TwoTests
  <1>6. Tests(in, "plain", q)
    <2>1. \A k \in 1 .. 3 : IsEntry(in, "plain", q[k]) BY <1>3, EntryOfCase
    <2>2. 3 \in Nat /\ DOMAIN q = 1 .. 3 /\ q = [k \in 1 .. 3 |-> q[k]] OBVIOUS
    <2> HIDE DEF q
    <2> QED BY <2>1, <2>2, TestsByPosition
  <1>7. Tests(in, "plain", CommonErrorTests(in, None)) BY CommonErrorCases
  <1> HIDE DEF p, q, r
  <1> QED BY <1>1, <1>4, <1>5, <1>6, <1>7, JoinedTests

\* A verification in which no nonce but the first can be faulty.
LEMMA VerificationIsListed ==
  ASSUME NEW in, RealEntries(in), NEW c, c.call = "verify", NEW m \in Nat,
         CaseLists(c),
         DOMAIN c.pubnonces = 1 .. m, \A k \in 2 .. m : c.pubnonces[k] \in 0 .. in.n - 1
  PROVE  Listed(in, c)
  <1> DEFINE nonces == Taken(in.pubnonces, c.pubnonces)
  <1>1. DOMAIN nonces = 1 .. m /\ \A k \in 1 .. m : nonces[k] = in.pubnonces[c.pubnonces[k]]
    BY DEF Taken
  <1>2. NoncesOf(in, c) = nonces BY DEF NoncesOf
  <1> HIDE DEF nonces
  <1>3. \A k \in 2 .. m : \A j \in 1 .. 2 : PointDecodes(nonces[k][j])
    <2> TAKE k \in 2 .. m
    <2> TAKE j \in 1 .. 2
    <2>1. k \in 1 .. m OBVIOUS
    <2>2. in.pubnonces[c.pubnonces[k]] = in.secnonces[c.pubnonces[k]]
          /\ in.secnonces[c.pubnonces[k]][j] \in NonZero
      BY DEF RealEntries
    <2> QED BY <1>1, <2>1, <2>2 DEF PointDecodes
  <1>4. \A k \in 1 .. m : k = 1 \/ k \in 2 .. m OBVIOUS
  <1>5. AtMostOne(Undecodable(nonces)) BY <1>1, <1>3, <1>4 DEF AtMostOne, Undecodable
  <1>6. IsList(nonces) BY <1>1 DEF IsList
  <1> QED BY <1>2, <1>5, <1>6 DEF Listed

\* The verifications of sign_verify.py.
LEMMA VerifyCases ==
  ASSUME NEW in, RealEntries(in)
  PROVE  Tests(in, "any", VerifyFailTests(in)) /\ Tests(in, "any", VerifyErrorTests(in))
  <1> DEFINE good2 == VerifyCase(in, Min2Set(in))
             good == VerifyCase(in, MinSet(in))
             off_curve == [MinSet(in) EXCEPT ![1] = in.n]
             negated == [good2 EXCEPT !.psigs = <<Neg(good2.psigs[1])>>]
             other == [good2 EXCEPT !.signer_index = 2]
             large == [good2 EXCEPT !.psigs = <<Order>>]
             nonce == [good EXCEPT !.pubnonces = off_curve]
             share == [good EXCEPT !.pubshares = off_curve]
             p == <<Fails(negated), Fails(other), Fails(large)>>
             q == <<Blamed(nonce, "pubnonce"), Refused(share, "pubshare")>>
  <1>1. VerifyFailTests(in) = p /\ VerifyErrorTests(in) = q
    BY DEF VerifyFailTests, VerifyErrorTests
  <1>2. ASSUME NEW ids \in Seq(Nat)
        PROVE  /\ DOMAIN VerifyCase(in, ids) = CaseFields
               /\ VerifyCase(in, ids).call = "verify"
               /\ VerifyCase(in, ids).pubnonces = ids
               /\ CaseLists(VerifyCase(in, ids))
    <2> DEFINE c == Case(in, ids)
               psigs == <<Psigs(in, c)[1]>>
    <2>1. VerifyCase(in, ids) = [c EXCEPT !.call = "verify", !.psigs = psigs] BY DEF VerifyCase
    <2>2. DOMAIN c = CaseFields /\ c.pubnonces = ids BY DEF Case, CaseFields
    <2>3. CaseLists(c) BY CaseIsPlain DEF Plain
    <2> HIDE DEF c, psigs
    <2> QED BY <2>1, <2>2, <2>3 DEF CaseFields, CaseLists
  <1>3. /\ CaseLists(good) /\ CaseLists(good2)
        /\ DOMAIN good = CaseFields /\ good.call = "verify" /\ good.pubnonces = MinSet(in)
        /\ DOMAIN good2 = CaseFields /\ good2.call = "verify" /\ good2.pubnonces = Min2Set(in)
    BY <1>2, ListsOfIds DEF IdLists
  <1>4. /\ DOMAIN MinSet(in) = 1 .. Len(MinSet(in)) /\ Len(MinSet(in)) \in Nat
        /\ \A k \in DOMAIN MinSet(in) : MinSet(in)[k] \in 0 .. in.n - 1
        /\ DOMAIN Min2Set(in) = 1 .. Len(Min2Set(in)) /\ Len(Min2Set(in)) \in Nat
        /\ \A k \in DOMAIN Min2Set(in) : Min2Set(in)[k] \in 0 .. in.n - 1
    <2>1. Sizes(in) /\ in.t \in Nat /\ in.n \in Nat
      BY ParticipantsAssumption DEF Sizes, RealEntries
    <2>2. \A ids \in {MinSet(in), Min2Set(in)} :
            /\ Len(ids) \in in.t .. in.n /\ DOMAIN ids = 1 .. Len(ids)
            /\ \A k \in DOMAIN ids : ids[k] \in 0 .. in.n - 1
      BY <2>1, SignerSets
    <2>3. \A m \in in.t .. in.n : m \in Nat BY <2>1
    <2> QED BY <2>2, <2>3
  <1>5. /\ DOMAIN off_curve = DOMAIN MinSet(in)
        /\ \A k \in 2 .. Len(MinSet(in)) : off_curve[k] = MinSet(in)[k] /\ k \in DOMAIN MinSet(in)
    BY <1>4
  <1>6. \A k \in 2 .. Len(Min2Set(in)) : k \in DOMAIN Min2Set(in) BY <1>4
  <1> HIDE DEF good, good2, off_curve
  <1>7. /\ negated.call = "verify" /\ negated.pubnonces = Min2Set(in)
        /\ other.call = "verify" /\ other.pubnonces = Min2Set(in)
        /\ large.call = "verify" /\ large.pubnonces = Min2Set(in)
        /\ nonce.call = "verify" /\ nonce.pubnonces = off_curve
        /\ share.call = "verify" /\ share.pubnonces = MinSet(in)
        /\ CaseLists(negated) /\ CaseLists(other) /\ CaseLists(large)
        /\ CaseLists(nonce) /\ CaseLists(share)
    BY <1>3 DEF CaseFields, CaseLists
  <1> HIDE DEF negated, other, large, nonce, share
  <1>8. \A c : c.call = "verify" /\ CaseLists(c) /\ c.pubnonces = Min2Set(in) => Listed(in, c)
    BY <1>4, <1>6, VerificationIsListed
  <1>9. \A c : c.call = "verify" /\ CaseLists(c) /\ c.pubnonces = MinSet(in) => Listed(in, c)
    BY <1>4, <1>5, VerificationIsListed
  <1>10. \A c : c.call = "verify" /\ CaseLists(c) /\ c.pubnonces = off_curve => Listed(in, c)
    BY <1>4, <1>5, VerificationIsListed
  <1>11. Listed(in, negated) /\ Listed(in, other) /\ Listed(in, large) BY <1>7, <1>8
  <1>12. Listed(in, nonce) /\ Listed(in, share) BY <1>7, <1>9, <1>10
  <1>13. Tests(in, "any", p) BY <1>11, EntryOfCase, ThreeTests
  <1>14. Tests(in, "any", q) BY <1>12, EntryOfCase, TwoTests
  <1> QED BY <1>1, <1>13, <1>14

\* The session of a case, and its partial signatures, do not depend on its call.
SessionFields == {"ids", "knows_pubshares", "pubshares", "aggnonce", "tweaks", "is_xonly", "msg"}

\* Partial signatures do not depend on what the session does not.
LEMMA SameSession ==
  ASSUME NEW in, NEW c, NEW d, \A f \in SessionFields : c[f] = d[f]
  PROVE  Session(in, c) = Session(in, d) /\ Psigs(in, c) = Psigs(in, d)
  <1>1. /\ c.ids = d.ids /\ c.knows_pubshares = d.knows_pubshares /\ c.pubshares = d.pubshares
        /\ c.aggnonce = d.aggnonce /\ c.tweaks = d.tweaks /\ c.is_xonly = d.is_xonly
        /\ c.msg = d.msg
    BY DEF SessionFields
  <1>2. Session(in, c) = Session(in, d) BY <1>1 DEF Session
  <1> QED BY <1>1, <1>2 DEF Psigs

\* A case of an aggregation, complete or with other partial signatures.
AggregationOf(in, c, d) ==
  /\ DOMAIN d = CaseFields /\ d.call = "agg"
  /\ \A f \in CaseFields \ {"call", "psigs"} : d[f] = c[f]

\* An aggregation is a case of the kind that Listed describes.
LEMMA AggregationIsListed ==
  ASSUME NEW in, NEW c, Plain(c), SignersOf(in.n, c.ids), c.pubshares = c.ids,
         NEW d, AggregationOf(in, c, d),
         d.psigs \in {Psigs(in, c), Front(Psigs(in, c)) \o <<Order>>, Front(Psigs(in, c))}
  PROVE  Listed(in, d)
  <1>1. \A f \in SessionFields : d[f] = c[f] BY DEF AggregationOf, SessionFields, CaseFields
  <1>2. Psigs(in, d) = Psigs(in, c) BY <1>1, SameSession
  <1>3. /\ d.ids = c.ids /\ d.pubshares = c.pubshares
        /\ d.tweaks = c.tweaks /\ d.is_xonly = c.is_xonly
    BY DEF AggregationOf, CaseFields
  <1>4. CaseLists(d) BY <1>3 DEF Plain, CaseLists
  <1> QED BY <1>2, <1>3, <1>4 DEF Listed, Aggregation, AggregationOf

\* The case d as an aggregation of psigs.
WithPsigs(d, psigs) == [d EXCEPT !.psigs = psigs]

\* The case of an aggregation keeps the session it aggregates for.
LEMMA AggCaseOf ==
  ASSUME NEW in, NEW c, Plain(c)
  PROVE  /\ AggregationOf(in, c, AggCase(in, c)) /\ AggCase(in, c).psigs = Psigs(in, c)
         /\ \A s : /\ AggregationOf(in, c, WithPsigs(AggCase(in, c), s))
                   /\ WithPsigs(AggCase(in, c), s).psigs = s
  <1> DEFINE psigs == Psigs(in, c)
             d == [c EXCEPT !.call = "agg", !.psigs = psigs]
  <1>1. AggCase(in, c) = d BY DEF AggCase
  <1> HIDE DEF psigs
  <1>2. AggregationOf(in, c, d) /\ d.psigs = psigs BY DEF AggregationOf, Plain, CaseFields
  <1> HIDE DEF d
  <1>3. \A s : AggregationOf(in, c, WithPsigs(d, s)) /\ WithPsigs(d, s).psigs = s
    BY <1>2 DEF AggregationOf, CaseFields, WithPsigs
  <1> QED BY <1>1, <1>2, <1>3 DEF psigs

\* With some of the common tweaks.
LEMMA TweakedIsPlain ==
  ASSUME NEW in, RealEntries(in), NEW c, Plain(c), NEW is_xonly \in Seq(BOOLEAN),
         Len(is_xonly) <= 6
  PROVE  /\ Plain(Tweaked(in, c, is_xonly)) /\ Tweaked(in, c, is_xonly).ids = c.ids
         /\ Tweaked(in, c, is_xonly).pubshares = c.pubshares
  <1> DEFINE tweaks == SubSeq(in.tweaks, 1, Len(is_xonly))
             d == [c EXCEPT !.tweaks = tweaks, !.is_xonly = is_xonly]
  <1>1. tweaks \in Seq(Int)
    <2>1. in.tweaks \in Seq(Int) /\ Len(in.tweaks) = 6 BY DEF RealEntries
    <2> DEFINE pool == in.tweaks
               m == Len(is_xonly)
    <2>2. m \in Nat /\ m <= Len(pool) BY <2>1
    <2>3. tweaks = SubSeq(pool, 1, m) OBVIOUS
    <2> HIDE DEF pool, m, tweaks
    <2>4. pool \in Seq(Int) BY <2>1 DEF pool
    <2>5. SubSeq(pool, 1, m) \in Seq(Int) BY <2>2, <2>4
    <2> QED BY <2>3, <2>5
  <1> HIDE DEF tweaks
  <1>2. /\ DOMAIN d = CaseFields /\ d.call = "sign" /\ d.tweaks = tweaks /\ d.is_xonly = is_xonly
        /\ d.ids = c.ids /\ d.pubshares = c.pubshares
    BY DEF Plain, CaseFields
  <1>3. Tweaked(in, c, is_xonly) = d BY DEF Tweaked, tweaks
  <1> HIDE DEF d
  <1>4. CaseLists(d) BY <1>1, <1>2 DEF CaseLists, Plain
  <1> QED BY <1>2, <1>3, <1>4 DEF Plain

\* The cases of tweak.py.
LEMMA TweakCases ==
  ASSUME NEW in, RealEntries(in)
  PROVE  Tests(in, "plain", TweakTests(in))
  <1> DEFINE min == Case(in, MinSet(in))
             full == Case(in, FullSet(in))
             all == [full EXCEPT !.my_id = 1, !.secshare = 1, !.secnonce = 1]
             plain_then_xonly == <<FALSE, FALSE, TRUE, TRUE>>
             modes == <<<<>>, <<TRUE>>, <<FALSE>>, <<FALSE, TRUE>>, <<TRUE, FALSE, TRUE, FALSE>>,
                        plain_then_xonly>>
             plain == Tweaked(in, min, <<FALSE>>)
             tweaked == Tweaked(in, all, plain_then_xonly)
             refused == <<in.tweaks[5], in.tweaks[6], WrongLength>>
             bad(k) == [plain EXCEPT !.tweaks = <<refused[k]>>]
             uneven == [plain EXCEPT !.is_xonly = <<>>]
             error(k, check) == Refused(bad(k), check)
             out == error(1, "tweak range")
             infinite == error(2, "infinite tweaked key")
             modeless == Refused(uneven, "tweak modes")
             short == error(3, "tweak length")
             p == [k \in DOMAIN modes |-> Valid(Tweaked(in, min, modes[k]))]
             valid == Valid(tweaked)
             q == <<valid, out, infinite, modeless, short>>
             first == <<valid>>
             rest == <<out, infinite, modeless, short>>
  <1>1. TweakTests(in) = p \o q BY DEF TweakTests
  <1>2. Plain(min) /\ Plain(full) BY CaseIsPlain, ListsOfIds DEF IdLists
  <1>3. /\ DOMAIN modes = 1 .. 6
        /\ \A k \in 1 .. 6 : modes[k] \in Seq(BOOLEAN) /\ Len(modes[k]) <= 6
    <2>1. DOMAIN modes = 1 .. 6 OBVIOUS
    <2>2. /\ modes[1] \in Seq(BOOLEAN) /\ Len(modes[1]) <= 6
          /\ modes[2] \in Seq(BOOLEAN) /\ Len(modes[2]) <= 6
          /\ modes[3] \in Seq(BOOLEAN) /\ Len(modes[3]) <= 6
      OBVIOUS
    <2>3. /\ modes[4] \in Seq(BOOLEAN) /\ Len(modes[4]) <= 6
          /\ modes[5] \in Seq(BOOLEAN) /\ Len(modes[5]) <= 6
          /\ modes[6] \in Seq(BOOLEAN) /\ Len(modes[6]) <= 6
      OBVIOUS
    <2>4. \A k \in 1 .. 6 : k = 1 \/ k = 2 \/ k = 3 \/ k = 4 \/ k = 5 \/ k = 6 OBVIOUS
    <2> HIDE DEF modes
    <2> QED BY <2>1, <2>2, <2>3, <2>4
  <1>20. /\ plain_then_xonly \in Seq(BOOLEAN) /\ Len(plain_then_xonly) <= 6
         /\ <<FALSE>> \in Seq(BOOLEAN) /\ Len(<<FALSE>>) <= 6
    OBVIOUS
  <1>21. \A k \in 1 .. 3 : refused[k] \in Int
    <2>1. in.tweaks \in Seq(Int) /\ Len(in.tweaks) = 6 BY DEF RealEntries
    <2>2. in.tweaks[5] \in Int /\ in.tweaks[6] \in Int BY <2>1
    <2>3. WrongLength \in Int BY DEF WrongLength
    <2> QED BY <2>2, <2>3
  <1> HIDE DEF min, full, modes, plain_then_xonly, refused
  <1>4. Plain(all) BY <1>2 DEF Plain, CaseLists, CaseFields
  <1> HIDE DEF all
  <1>5. Plain(plain) /\ Plain(tweaked) /\ \A k \in 1 .. 6 : Plain(Tweaked(in, min, modes[k]))
    BY <1>2, <1>3, <1>4, <1>20, TweakedIsPlain
  <1> HIDE DEF plain, tweaked
  <1>6. Plain(uneven) /\ \A k \in 1 .. 3 : Plain(bad(k))
    BY <1>5, <1>21 DEF Plain, CaseLists, CaseFields
  <1> HIDE DEF uneven, bad
  <1>7. /\ IsEntry(in, "plain", valid) /\ IsEntry(in, "plain", out)
        /\ IsEntry(in, "plain", infinite) /\ IsEntry(in, "plain", modeless)
        /\ IsEntry(in, "plain", short)
    <2>1. Plain(tweaked) /\ Plain(uneven) /\ Plain(bad(1)) /\ Plain(bad(2)) /\ Plain(bad(3))
      BY <1>5, <1>6
    <2> QED BY <2>1, EntryOfCase
  <1>8. Tests(in, "plain", p)
    <2>1. \A k \in 1 .. 6 : IsEntry(in, "plain", p[k]) BY <1>3, <1>5, EntryOfCase
    <2>2. 6 \in Nat /\ DOMAIN p = 1 .. 6 /\ p = [k \in 1 .. 6 |-> p[k]] BY <1>3
    <2> HIDE DEF p
    <2> QED BY <2>1, <2>2, TestsByPosition
  <1> HIDE DEF valid, out, infinite, modeless, short
  <1>9. Tests(in, "plain", first) BY <1>7, OneTest
  <1>10. Tests(in, "plain", rest) BY <1>7, FourTests
  <1>11. q = first \o rest OBVIOUS
  <1> HIDE DEF p, q, first, rest
  <1>12. Tests(in, "plain", q) BY <1>9, <1>10, <1>11, JoinedTests
  <1> QED BY <1>1, <1>8, <1>12, JoinedTests

\* The signers in the opposite order.
LEMMA ReversedSigners ==
  ASSUME NEW n, NEW ids, SignersOf(n, ids)
  PROVE  SignersOf(n, Reverse(ids))
  <1> DEFINE m == Len(ids)
             r == Reverse(ids)
  <1>1. /\ ids \in Seq(Nat) /\ m \in Nat /\ DOMAIN ids = 1 .. m
        /\ \A j, k \in 1 .. m : ids[j] = ids[k] => j = k
        /\ \A k \in 1 .. m : ids[k] \in Nat /\ ids[k] < MaxParticipants
    BY DEF SignersOf, SignerIds, IsInjective
  <1>2. r = [i \in 1 .. m |-> ids[(m - i) + 1]] BY DEF Reverse
  <1> HIDE DEF m, r
  <1>3. \A i \in 1 .. m : (m - i) + 1 \in 1 .. m BY <1>1
  <1>4. /\ DOMAIN r = 1 .. m
        /\ \A i \in 1 .. m : r[i] = ids[(m - i) + 1] /\ r[i] \in Nat /\ r[i] < MaxParticipants
    BY <1>1, <1>2, <1>3
  <1>5. r \in Seq(Nat) BY <1>1, <1>2, <1>4
  <1>6. \A j, k \in 1 .. m : r[j] = r[k] => j = k
    <2> TAKE j \in 1 .. m
    <2> TAKE k \in 1 .. m
    <2>1. r[j] = r[k] => (m - j) + 1 = (m - k) + 1 BY <1>1, <1>3, <1>4
    <2> QED BY <1>1, <2>1
  <1>7. ToSet(r) \in SUBSET (0 .. n - 1)
    <2>1. ToSet(ids) \in SUBSET (0 .. n - 1) BY DEF SignersOf
    <2>2. \A i \in 1 .. m : r[i] \in ToSet(ids) BY <1>1, <1>3, <1>4 DEF ToSet
    <2> QED BY <1>4, <2>1, <2>2 DEF ToSet
  <1> QED BY <1>4, <1>5, <1>6, <1>7 DEF SignersOf, SignerIds, IsInjective, r

\* The cases of sig_agg.py.
LEMMA SigAggCases ==
  ASSUME NEW in, RealEntries(in)
  PROVE  Tests(in, "any", SigAggTests(in))
  <1> DEFINE plain == Case(in, MinSet(in))
             unknown == [plain EXCEPT !.knows_pubshares = FALSE]
             reversed == Case(in, Reverse(MinSet(in)))
             tweaked == Tweaked(in, plain, <<TRUE, FALSE, FALSE>>)
             full == Case(in, FullSet(in))
             min == AggCase(in, plain)
             spoilt == [min EXCEPT !.psigs = Front(min.psigs) \o <<Order>>]
             missing == [min EXCEPT !.psigs = Front(min.psigs)]
             p == <<Valid(min), Valid(AggCase(in, unknown))>>
             q == When(in.t >= 2, <<Valid(AggCase(in, reversed))>>)
             r == <<Valid(AggCase(in, tweaked))>>
             s == When(in.t < in.n, <<Valid(AggCase(in, full))>>)
             u == <<Blamed(spoilt, "psig"), Refused(missing, "psig count")>>
  <1>1. SigAggTests(in) = p \o q \o r \o s \o u BY DEF SigAggTests
  <1>2. \A ids \in Seq(Nat) : /\ Plain(Case(in, ids)) /\ Case(in, ids).ids = ids
                              /\ Case(in, ids).pubshares = ids
    BY CaseIsPlain DEF Case
  <1>3. SignersOf(in.n, MinSet(in)) /\ SignersOf(in.n, FullSet(in))
    BY SignerSets DEF Sizes, RealEntries
  <1>4. SignersOf(in.n, Reverse(MinSet(in))) BY <1>3, ReversedSigners
  <1> DEFINE Sound(c) == Plain(c) /\ SignersOf(in.n, c.ids) /\ c.pubshares = c.ids
  <1>5. Sound(plain) /\ Sound(reversed) /\ Sound(full)
    BY <1>2, <1>3, <1>4 DEF SignersOf, SignerIds
  <1> HIDE DEF plain, reversed, full
  <1>6. Sound(unknown) BY <1>5 DEF Plain, CaseLists, CaseFields
  <1>7. Sound(tweaked)
    <2> DEFINE modes == <<TRUE, FALSE, FALSE>>
    <2>1. modes \in Seq(BOOLEAN) /\ Len(modes) <= 6 OBVIOUS
    <2>2. tweaked = Tweaked(in, plain, modes) OBVIOUS
    <2>3. Plain(plain) /\ SignersOf(in.n, plain.ids) /\ plain.pubshares = plain.ids BY <1>5
    <2> HIDE DEF modes, tweaked
    <2>4. /\ Plain(tweaked) /\ tweaked.ids = plain.ids /\ tweaked.pubshares = plain.pubshares
      BY <2>1, <2>2, <2>3, TweakedIsPlain
    <2> QED BY <2>3, <2>4
  <1> HIDE DEF unknown, tweaked, min
  <1>8. \A c : Sound(c) => Listed(in, AggCase(in, c)) BY AggCaseOf, AggregationIsListed
  <1>9. /\ Listed(in, AggCase(in, plain)) /\ Listed(in, AggCase(in, unknown))
        /\ Listed(in, AggCase(in, reversed)) /\ Listed(in, AggCase(in, tweaked))
        /\ Listed(in, AggCase(in, full))
    BY <1>5, <1>6, <1>7, <1>8
  <1>10. /\ min.psigs = Psigs(in, plain)
         /\ AggregationOf(in, plain, spoilt) /\ spoilt.psigs = Front(min.psigs) \o <<Order>>
         /\ AggregationOf(in, plain, missing) /\ missing.psigs = Front(min.psigs)
    <2>1. /\ min.psigs = Psigs(in, plain)
          /\ \A l : /\ AggregationOf(in, plain, WithPsigs(min, l))
                    /\ WithPsigs(min, l).psigs = l
      BY <1>5, AggCaseOf DEF min
    <2>2. /\ spoilt = WithPsigs(min, Front(min.psigs) \o <<Order>>)
          /\ missing = WithPsigs(min, Front(min.psigs))
      BY DEF WithPsigs
    <2> HIDE DEF spoilt, missing
    <2> QED BY <2>1, <2>2
  <1> HIDE DEF spoilt, missing
  <1>11. Listed(in, spoilt) BY <1>5, <1>10, AggregationIsListed
  <1>12. Listed(in, missing) BY <1>5, <1>10, AggregationIsListed
  <1>13. Listed(in, min) BY <1>9 DEF min
  <1>14. Tests(in, "any", p) BY <1>9, <1>13, EntryOfCase, TwoTests
  <1>15. Tests(in, "any", q) BY <1>9, EntryOfCase, OneTest, TestsWhen
  <1>16. Tests(in, "any", r) BY <1>9, EntryOfCase, OneTest
  <1>17. Tests(in, "any", s) BY <1>9, EntryOfCase, OneTest, TestsWhen
  <1>18. Tests(in, "any", u) BY <1>11, <1>12, EntryOfCase, TwoTests
  <1> HIDE DEF p, q, r, s, u
  <1>19. Tests(in, "any", p \o q \o r \o s) BY <1>14, <1>15, <1>16, <1>17, JoinedTests
  <1> QED BY <1>1, <1>18, <1>19, JoinedTests

\* The cases of det_sign.py.
LEMMA DetOfPlain ==
  ASSUME NEW in, NEW e, IsEntry(in, "plain", e)
  PROVE  IsEntry(in, "any", Det(in, e))
  <1> DEFINE derived(c) == [c EXCEPT !.call = "det", !.aggnonce = DeriveAggothernonce(in, c)]
             a == derived(e.case)
             d == [e EXCEPT !.case = a]
  <1>1. Det(in, e) = d BY DEF Det
  <1>2. DOMAIN e = EntryFields /\ Plain(e.case) BY DEF IsEntry
  <1>3. DOMAIN a = CaseFields /\ a.call = "det" /\ CaseLists(a)
    BY <1>2 DEF Plain, CaseLists, CaseFields
  <1> HIDE DEF a
  <1>4. DOMAIN d = EntryFields /\ d.case = a BY <1>2 DEF EntryFields
  <1>5. Listed(in, a) BY <1>3 DEF Listed
  <1>6. "any" # "plain" OBVIOUS
  <1> HIDE DEF d
  <1> QED BY <1>1, <1>4, <1>5, <1>6 DEF IsEntry

\* The cases of det_sign.
LEMMA DetCases ==
  ASSUME NEW in, RealEntries(in)
  PROVE  Tests(in, "any", DetTests(in))
  <1> DEFINE min == DetSigner(in, MinSet(in))
             unknown == [min EXCEPT !.knows_pubshares = FALSE]
             reversed == DetSigner(in, Reverse(MinSet(in)))
             alt == DetSigner(in, AltSet(in))
             rand2 == [min EXCEPT !.aux_rand = Rands[2]]
             rand3 == [min EXCEPT !.aux_rand = Rands[3]]
             other == [DetSigner(in, FullSet(in)) EXCEPT !.my_id = 1, !.secshare = 1]
             empty == [min EXCEPT !.msg = Msgs[2]]
             long == [min EXCEPT !.msg = Msgs[3]]
             tweaked == Tweaked(in, min, <<TRUE>>)
             p == <<Valid(min), Valid(unknown)>>
             q == When(in.t >= 2, <<Valid(reversed)>>)
             r == When(HasAltSubset(in), <<Valid(alt)>>)
             s == <<Valid(rand2), Valid(rand3), Valid(other), Valid(empty), Valid(long),
                    Valid(tweaked)>>
             s1 == <<Valid(rand2), Valid(rand3)>>
             s2 == <<Valid(other), Valid(empty), Valid(long), Valid(tweaked)>>
  <1>1. DetValidTests(in) = p \o q \o r \o s BY DEF DetValidTests
  <1>2. \A ids \in Seq(Nat) : Plain(DetSigner(in, ids))
    BY CaseIsPlain DEF DetSigner, Plain, CaseLists, CaseFields
  <1>21. /\ MinSet(in) \in Seq(Nat) /\ Min2Set(in) \in Seq(Nat) /\ FullSet(in) \in Seq(Nat)
         /\ Reverse(MinSet(in)) \in Seq(Nat) /\ AltSet(in) \in Seq(Nat)
    BY ListsOfIds DEF IdLists
  <1>3. Plain(min) /\ Plain(reversed) /\ Plain(alt) BY <1>2, <1>21
  <1>22. Plain(DetSigner(in, FullSet(in))) BY <1>2, <1>21
  <1>4. Plain(other) BY <1>22 DEF Plain, CaseLists, CaseFields
  <1> HIDE DEF min, reversed, alt, other
  <1>5. Plain(unknown) /\ Plain(rand2) /\ Plain(rand3) /\ Plain(empty) /\ Plain(long)
    BY <1>3 DEF Plain, CaseLists, CaseFields
  <1>20. <<TRUE>> \in Seq(BOOLEAN) /\ Len(<<TRUE>>) <= 6 OBVIOUS
  <1>6. Plain(tweaked) BY <1>3, <1>20, TweakedIsPlain
  <1> HIDE DEF unknown, rand2, rand3, empty, long, tweaked
  <1>7. /\ IsEntry(in, "plain", Valid(min)) /\ IsEntry(in, "plain", Valid(unknown))
        /\ IsEntry(in, "plain", Valid(reversed)) /\ IsEntry(in, "plain", Valid(alt))
        /\ IsEntry(in, "plain", Valid(rand2)) /\ IsEntry(in, "plain", Valid(rand3))
        /\ IsEntry(in, "plain", Valid(other)) /\ IsEntry(in, "plain", Valid(empty))
        /\ IsEntry(in, "plain", Valid(long)) /\ IsEntry(in, "plain", Valid(tweaked))
    BY <1>3, <1>4, <1>5, <1>6, EntryOfCase
  <1>8. Tests(in, "plain", p) BY <1>7, TwoTests
  <1>9. Tests(in, "plain", q) BY <1>7, OneTest, TestsWhen
  <1>10. Tests(in, "plain", r) BY <1>7, OneTest, TestsWhen
  <1>11. Tests(in, "plain", s1) /\ Tests(in, "plain", s2) BY <1>7, TwoTests, FourTests
  <1>12. s = s1 \o s2 OBVIOUS
  <1> HIDE DEF p, q, r, s, s1, s2
  <1>13. Tests(in, "plain", s) BY <1>11, <1>12, JoinedTests
  <1>14. Tests(in, "plain", DetValidTests(in)) BY <1>1, <1>8, <1>9, <1>10, <1>13, JoinedTests
  <1>15. Tests(in, "plain", DetErrorTests(in))
    <2> DEFINE outside == OutOfRangeId(in)
               range == [outside EXCEPT !.case.aux_rand = Rands[1]]
               good == Tweaked(in, DetSigner(in, MinSet(in)), <<TRUE>>)
               bad == [good EXCEPT !.tweaks = <<Order>>, !.is_xonly = <<FALSE>>]
               u == <<range, Refused(bad, "tweak range")>>
    <2>1. DetErrorTests(in) = CommonErrorTests(in, Rands[1]) \o u BY DEF DetErrorTests
    <2>2. IsEntry(in, "plain", outside) BY OutOfRangeCase
    <2>3. Plain(good) BY <1>2, <1>20, <1>21, TweakedIsPlain
    <2>7. <<Order>> \in Seq(Int) BY OrderAssumption
    <2> HIDE DEF outside, good
    <2>4. Plain(bad) BY <2>3, <2>7 DEF Plain, CaseLists, CaseFields
    <2>5. IsEntry(in, "plain", range)
      <3>1. DOMAIN outside = EntryFields /\ Plain(outside.case) BY <2>2 DEF IsEntry
      <3>2. DOMAIN range = EntryFields /\ range.case = [outside.case EXCEPT !.aux_rand = Rands[1]]
        BY <3>1 DEF EntryFields
      <3> HIDE DEF range
      <3>3. Plain(range.case) BY <3>1, <3>2 DEF Plain, CaseLists, CaseFields
      <3> QED BY <3>2, <3>3 DEF IsEntry
    <2> HIDE DEF range, bad
    <2>6. Tests(in, "plain", u) BY <2>4, <2>5, EntryOfCase, TwoTests
    <2> HIDE DEF u
    <2> QED BY <2>1, <2>6, CommonErrorCases, JoinedTests
  <1> DEFINE derived == DetValidTests(in) \o DetErrorTests(in)
             dets == [k \in DOMAIN derived |-> Det(in, derived[k])]
  <1>16. Tests(in, "plain", derived) BY <1>14, <1>15, JoinedTests
  <1>17. Tests(in, "any", dets)
    <2> HIDE DEF derived
    <2>1. PICK S : derived \in Seq(S) /\ \A e \in S : IsEntry(in, "plain", e) BY <1>16 DEF Tests
    <2> DEFINE m == Len(derived)
    <2>2. m \in Nat /\ DOMAIN derived = 1 .. m /\ \A k \in 1 .. m : derived[k] \in S BY <2>1
    <2> HIDE DEF m
    <2>3. \A k \in 1 .. m : IsEntry(in, "any", dets[k]) BY <2>1, <2>2, DetOfPlain
    <2>4. DOMAIN dets = 1 .. m /\ dets = [k \in 1 .. m |-> dets[k]] BY <2>2
    <2> HIDE DEF dets
    <2> QED BY <2>2, <2>3, <2>4, TestsByPosition
  <1>18. Tests(in, "any", AggothernonceTests(in))
    <2> DEFINE valid == Valid(DetSigner(in, Min2Set(in)))
               min2 == Det(in, valid).case
               literals == <<<<Order, G>>, <<0, G>>, <<G, Order>>, <<G, Order + 1>>>>
               bad(k) == [min2 EXCEPT !.aggnonce = literals[k]]
               u == [k \in DOMAIN literals |-> Blamed(bad(k), "aggothernonce")]
    <2>1. AggothernonceTests(in) = u BY DEF AggothernonceTests
    <2>2. DOMAIN min2 = CaseFields /\ min2.call = "det" /\ CaseLists(min2)
      <3> DEFINE c == DetSigner(in, Min2Set(in))
                 d == [c EXCEPT !.call = "det", !.aggnonce = DeriveAggothernonce(in, c)]
      <3>1. Plain(c) BY <1>2, <1>21
      <3>2. DOMAIN valid = EntryFields /\ valid.case = c BY DEF Valid, EntryFields
      <3> HIDE DEF c, valid
      <3>3. min2 = d BY <3>2 DEF Det, EntryFields
      <3>4. DOMAIN d = CaseFields /\ d.call = "det" /\ CaseLists(d)
        BY <3>1 DEF Plain, CaseLists, CaseFields
      <3> HIDE DEF d, min2
      <3> QED BY <3>3, <3>4
    <2>3. DOMAIN literals = 1 .. 4 OBVIOUS
    <2> HIDE DEF min2, literals
    <2>4. \A k : Listed(in, bad(k)) BY <2>2 DEF Listed, CaseFields, CaseLists
    <2> HIDE DEF bad
    <2>5. \A k \in 1 .. 4 : IsEntry(in, "any", u[k]) BY <2>3, <2>4, EntryOfCase
    <2>6. 4 \in Nat /\ DOMAIN u = 1 .. 4 /\ u = [k \in 1 .. 4 |-> u[k]] BY <2>3
    <2> HIDE DEF u
    <2> QED BY <2>1, <2>5, <2>6, TestsByPosition
  <1>19. DetTests(in) = dets \o AggothernonceTests(in) BY DEF DetTests
  <1> HIDE DEF dets
  <1> QED BY <1>17, <1>18, <1>19, JoinedTests

\* Two nonces of which one is sound.
Sound(nonce) == \A j \in 1 .. 2 : PointDecodes(nonce[j])

\* A list of two nonces.
LEMMA PairOfNonces ==
  ASSUME NEW in, NEW a, NEW b, Sound(a) \/ Sound(b)
  PROVE  Listed(in, [call |-> "nonce_agg", nonces |-> <<a, b>>])
  <1> DEFINE c == [call |-> "nonce_agg", nonces |-> <<a, b>>]
             pair == <<a, b>>
  <1>1. c.call = "nonce_agg" /\ c.nonces = pair OBVIOUS
  <1>2. DOMAIN pair = 1 .. 2 /\ pair[1] = a /\ pair[2] = b OBVIOUS
  <1> HIDE DEF c, pair
  <1>3. \A k \in Undecodable(pair) : k \in {1, 2} /\ ~ Sound(pair[k])
    BY <1>2 DEF Undecodable, Sound
  <1>4. AtMostOne(Undecodable(pair)) BY <1>2, <1>3 DEF AtMostOne
  <1>5. IsList(pair) BY <1>2 DEF IsList
  <1>6. NoncesOf(in, c) = pair BY <1>1 DEF NoncesOf
  <1>7. Listed(in, c) BY <1>1, <1>4, <1>5, <1>6 DEF Listed
  <1> QED BY <1>7 DEF c

\* The cases of nonce.py.
LEMMA NonceCases ==
  ASSUME NEW in
  PROVE  Tests(in, "any", NonceGenTests(in)) /\ Tests(in, "any", NonceAggTests)
  <1>1. Tests(in, "any", NonceGenTests(in))
    <2> DEFINE given(msg) == NonceInputs(CommonRand, in.secshares[0], in.pubshares[0],
                                         ToXonly(in.thresh_pk), msg, 0)
               hashed == <<given(3), given(Msgs[2]), given(Msgs[3]),
                           NonceInputs(CommonRand, None, None, None, None, None), given(None)>>
               c(k) == [call |-> "nonce_gen", hashed |-> hashed[k]]
               s == [k \in DOMAIN hashed |-> Valid(c(k))]
    <2>1. NonceGenTests(in) = s BY DEF NonceGenTests
    <2>2. DOMAIN hashed = 1 .. 5 OBVIOUS
    <2> HIDE DEF hashed
    <2>3. \A k : c(k).call = "nonce_gen" OBVIOUS
    <2> HIDE DEF c
    <2>4. \A k : Listed(in, c(k)) BY <2>3 DEF Listed
    <2>5. \A k \in 1 .. 5 : IsEntry(in, "any", s[k]) BY <2>2, <2>4, EntryOfCase
    <2>6. 5 \in Nat /\ DOMAIN s = 1 .. 5 /\ s = [k \in 1 .. 5 |-> s[k]] BY <2>2
    <2> HIDE DEF s
    <2> QED BY <2>1, <2>5, <2>6, TestsByPosition
  <1>2. Tests(in, "any", NonceAggTests)
    <2> DEFINE agg(pubnonces) == [call |-> "nonce_agg", nonces |-> pubnonces]
               two == agg(<<<<2, 3>>, <<4, 5>>>>)
               opposite == agg(<<<<2, G>>, <<4, Neg(G)>>>>)
               second == agg(<<<<2, 3>>, <<Order, 5>>>>)
               first == agg(<<<<4, Order>>, <<4, 5>>>>)
               above == agg(<<<<4, Order + 1>>, <<4, 5>>>>)
               E(bad) == Blamed(bad, "pubnonce")
               p == <<Valid(two), Valid(opposite)>>
               q == <<E(second), E(first), E(above)>>
               s == <<Valid(two), Valid(opposite), E(second), E(first), E(above)>>
    <2>1. NonceAggTests = s BY DEF NonceAggTests
    <2>2. /\ \A k \in 1 .. 5 : k \in NonZero
          /\ G \in NonZero
      <3>1. Order \in Int /\ Order > 5 BY OrderAssumption, LiteralsAssumption
      <3> QED BY <3>1 DEF NonZero, Scalars, G
    <2>3. Sound(<<2, 3>>) /\ Sound(<<4, 5>>) /\ Sound(<<2, G>>)
      BY <2>2 DEF Sound, PointDecodes
    <2>4. Listed(in, two) /\ Listed(in, opposite) /\ Listed(in, second)
          /\ Listed(in, first) /\ Listed(in, above)
      BY <2>3, PairOfNonces
    <2> HIDE DEF two, opposite, second, first, above
    <2>5. Tests(in, "any", p) BY <2>4, EntryOfCase, TwoTests
    <2>6. Tests(in, "any", q) BY <2>4, EntryOfCase, ThreeTests
    <2>7. s = p \o q OBVIOUS
    <2> HIDE DEF p, q, s
    <2> QED BY <2>1, <2>5, <2>6, <2>7, JoinedTests
  <1> QED BY <1>1, <1>2

\* The cases of every file.
LEMMA CasesOfFiles ==
  ASSUME NEW in, RealEntries(in), NEW f \in Files
  PROVE  Tests(in, "any", TestsOf(f, in))
  <1>1. CASE f = "nonce"
    <2>1. TestsOf(f, in) = NonceGenTests(in) \o NonceAggTests BY <1>1 DEF TestsOf
    <2> QED BY <2>1, NonceCases, JoinedTests
  <1>2. CASE f = "sign_verify"
    <2> DEFINE p == SignValidTests(in) \o SignErrorTests(in)
    <2>1. Tests(in, "any", p) BY SignValidCases, SignErrorCases, PlainTests, JoinedTests
    <2> HIDE DEF p
    <2>2. Tests(in, "any", p \o VerifyFailTests(in) \o VerifyErrorTests(in))
      BY <2>1, VerifyCases, JoinedTests
    <2>3. TestsOf(f, in) = p \o VerifyFailTests(in) \o VerifyErrorTests(in)
      BY <1>2 DEF TestsOf, SignVerifyTests, p
    <2> QED BY <2>2, <2>3
  <1>3. CASE f = "tweak"
    <2>1. TestsOf(f, in) = TweakTests(in) BY <1>3 DEF TestsOf
    <2> QED BY <2>1, TweakCases, PlainTests
  <1>4. CASE f = "det_sign"
    <2>1. TestsOf(f, in) = DetTests(in) BY <1>4 DEF TestsOf
    <2> QED BY <2>1, DetCases
  <1>5. CASE f = "sig_agg"
    <2>1. TestsOf(f, in) = SigAggTests(in) BY <1>5 DEF TestsOf
    <2> QED BY <2>1, SigAggCases
  <1> QED BY <1>1, <1>2, <1>3, <1>4, <1>5 DEF Files

\* A case that some file has.
Written(in, c) ==
  \E f \in Files : \E k \in DOMAIN TestsOf(f, in) : c = TestsOf(f, in)[k].case

\* What is left to run, and what the generator has run.
IsLeft(in, e) == IsEntry(in, "any", e) /\ Written(in, e.case)
LeftList(in, s) == \E S : s \in Seq(S) /\ \A e \in S : IsLeft(in, e)

Recorded(in, d) == /\ Listed(in, d.case) /\ Written(in, d.case)
                   /\ d.result = Run(in, in.secnonces, d.case).result

RecordedList(in, s) == \E S : s \in Seq(S) /\ \A d \in S : Recorded(in, d)

\* The material of the group is one of those built, the pool of nonces is as it was
\* built, and the lists hold what is left and what was run.
CasesInv ==
  /\ \E i \in DOMAIN Configs : inputs = Inputs[i]
  /\ secnonces = inputs.secnonces
  /\ LeftList(inputs, pending)
  /\ RecordedList(inputs, done)

\* No case changes the pool of secret nonces.
LEMMA PoolStays ==
  ASSUME NEW in, NEW pool, NEW c, Listed(in, c)
  PROVE  Run(in, pool, c).pool = pool
  <1>1. c.call \in {"sign", "det", "verify", "agg", "nonce_gen", "nonce_agg"} BY DEF Listed
  <1> DEFINE ran == Run(in, pool, c)
             signed == Sign(pool[c.secnonce], in.secshares[c.secshare], c.my_id, Session(in, c))
             request == DetRequest(in, c)
  <1>2. /\ c.call = "sign" => ran = AfterSign(pool, c.secnonce, signed)
        /\ c.call = "verify" =>
             ran = [result |-> Verify(in, c, c.psigs[1], c.signer_index), pool |-> pool]
        /\ c.call = "agg" => ran = [result |-> PartialSigAgg(c.psigs, Session(in, c)), pool |-> pool]
        /\ c.call = "det" => ran = [result |-> DeterministicSign(request), pool |-> pool]
        /\ c.call = "nonce_gen" => ran = [result |-> NonceGenInternal(c.hashed), pool |-> pool]
        /\ c.call = "nonce_agg" => ran = [result |-> NonceAgg(c.nonces), pool |-> pool]
    BY DEF Run
  <1> HIDE DEF ran, signed, request
  <1>3. AfterSign(pool, c.secnonce, signed).pool = pool BY DEF AfterSign, PoolAfter
  <1>4. ran.pool = pool BY <1>1, <1>2, <1>3
  <1> QED BY <1>4 DEF ran

\* It holds before the first case, and every case preserves it.
LEMMA CasesInit_Inv == CasesInit => CasesInv
  <1> SUFFICES ASSUME CasesInit PROVE CasesInv OBVIOUS
  <1>1. PICK i \in IF file = "nonce" THEN {1} ELSE DOMAIN Configs : inputs = Inputs[i]
    BY DEF CasesInit
  <1>2. i \in DOMAIN Configs BY ConfigsAssumption
  <1>3. RealEntries(inputs) BY <1>1, <1>2, BuiltGroup
  <1>4. LeftList(inputs, pending)
    <2> DEFINE tests == TestsOf(file, inputs)
    <2>1. pending = tests /\ file \in Files BY DEF CasesInit
    <2>2. Tests(inputs, "any", tests) BY <1>3, <2>1, CasesOfFiles
    <2>3. PICK S : tests \in Seq(S) /\ \A x \in S : IsEntry(inputs, "any", x)
      BY <2>2 DEF Tests
    <2>4. \A k \in DOMAIN tests : Written(inputs, tests[k].case) BY <2>1 DEF Written
    <2> HIDE DEF tests
    <2> DEFINE T == {x \in S : Written(inputs, x.case)}
    <2>5. tests \in Seq(T) BY <2>3, <2>4
    <2>6. \A x \in T : IsLeft(inputs, x) BY <2>3 DEF IsLeft
    <2> HIDE DEF T
    <2> QED BY <2>1, <2>5, <2>6 DEF LeftList
  <1>5. RecordedList(inputs, done)
    <2> DEFINE S == {}
    <2>1. <<>> \in Seq(S) /\ \A d \in S : Recorded(inputs, d) OBVIOUS
    <2> HIDE DEF S
    <2> QED BY <2>1 DEF CasesInit, RecordedList
  <1> QED BY <1>1, <1>2, <1>4, <1>5 DEF CasesInit, CasesInv

\* Running the next case keeps it: the case moves from one list to the other.
LEMMA CasesNext_Inv == CasesInv /\ [CasesNext]_casesVars => CasesInv'
  <1> SUFFICES ASSUME CasesInv, [CasesNext]_casesVars PROVE CasesInv' OBVIOUS
  <1>1. CASE UNCHANGED casesVars
    <2>1. /\ inputs' = inputs /\ secnonces' = secnonces /\ pending' = pending /\ done' = done
      BY <1>1 DEF casesVars
    <2> QED BY <2>1 DEF CasesInv
  <1>2. CASE CasesNext
    <2> DEFINE e == Head(pending)
               ran == Run(inputs, secnonces, e.case)
               met == /\ AsExpected(e, ran.result)
                      /\ "knows_pubshares" \in DOMAIN e.case => PsigsVerify(inputs, e, ran.result)
               new == [case |-> e.case, fault |-> e.fault, result |-> ran.result]
    <2>1. pending # <<>> /\ EndCase(e, ran, met) BY <1>2 DEF CasesNext, RunCase
    <2> HIDE DEF met
    <2>2. /\ pending' = IF met THEN Tail(pending) ELSE <<>>
          /\ done' = Append(done, new) /\ secnonces' = ran.pool /\ inputs' = inputs
      BY <2>1 DEF EndCase
    <2>3. PICK S : pending \in Seq(S) /\ \A x \in S : IsLeft(inputs, x)
      BY DEF CasesInv, LeftList
    <2>4. e \in S /\ Tail(pending) \in Seq(S) BY <2>1, <2>3
    <2>5. Listed(inputs, e.case) /\ Written(inputs, e.case)
      <3>1. IsEntry(inputs, "any", e) /\ Written(inputs, e.case) BY <2>3, <2>4 DEF IsLeft
      <3>2. "any" # "plain" OBVIOUS
      <3> HIDE DEF e
      <3> QED BY <3>1, <3>2 DEF IsEntry
    <2>6. secnonces = inputs.secnonces BY DEF CasesInv
    <2>7. ran.pool = secnonces BY <2>5, PoolStays
    <2>8. Recorded(inputs, new)
      <3>1. new.case = e.case /\ new.result = ran.result OBVIOUS
      <3> HIDE DEF new
      <3> QED BY <2>5, <2>6, <3>1 DEF Recorded
    <2>9. LeftList(inputs, Tail(pending)) /\ LeftList(inputs, <<>>)
      <3>1. <<>> \in Seq(S) OBVIOUS
      <3> QED BY <2>3, <2>4, <3>1 DEF LeftList
    <2> HIDE DEF e, ran, new
    <2>10. RecordedList(inputs, Append(done, new))
      <3>1. PICK D : done \in Seq(D) /\ \A d \in D : Recorded(inputs, d)
        BY DEF CasesInv, RecordedList
      <3> DEFINE more == D \cup {new}
      <3>2. done \in Seq(more) BY <3>1, ListOfMore
      <3>3. Append(done, new) \in Seq(more) BY <3>2
      <3>4. \A d \in more : Recorded(inputs, d) BY <2>8, <3>1
      <3> HIDE DEF more
      <3> QED BY <3>3, <3>4 DEF RecordedList
    <2>11. \E i \in DOMAIN Configs : inputs = Inputs[i] BY DEF CasesInv
    <2>12. LeftList(inputs, pending') BY <2>2, <2>9
    <2>13. RecordedList(inputs, done') BY <2>2, <2>10
    <2>14. secnonces' = inputs.secnonces BY <2>2, <2>6, <2>7
    <2> QED BY <2>2, <2>11, <2>12, <2>13, <2>14 DEF CasesInv
  <1> QED BY <1>1, <1>2

(* Whatever a generator runs is one of the cases that its file has, of a     *)
(* group built from a configuration, and what a case is by its construction; *)
(* its result is that of the call on the pool of nonces as it was built,     *)
(* which no case before it has changed (common.py, sign_verify.py:47-69).    *)
THEOREM CasesInvariant == CasesSpec => []CasesInv
  <1> QED BY CasesInit_Inv, CasesNext_Inv, PTL DEF CasesSpec

-----------------------------------------------------------------------------
(* Whom an error blames.                                                   *)

\* Whether r lays an error to a contribution.
Blames(r) == r.kind = "InvalidContributionError"

\* What returns, and the other errors, blame nobody.
LEMMA BlamesNobody ==
  /\ \A r : IsValueError(r) => ~ Blames(r) /\ ~ Succeeds(r)
  /\ \A check : ~ Blames(ValueError(check)) /\ ~ Succeeds(ValueError(check))
  /\ ~ Blames(AssertionError) /\ ~ Succeeds(AssertionError)
  /\ \A x : ~ Blames(Returns(x)) /\ Succeeds(Returns(x)) /\ Returns(x).val = x
  /\ \A i, contrib : LET error == InvalidContribution(i, contrib)
                     IN  /\ Blames(error) /\ ~ Succeeds(error)
                         /\ error.idx = i /\ error.contrib = contrib
  BY DEF Blames, Succeeds, IsValueError, ValueError, AssertionError, Returns,
         InvalidContribution

\* The validated parameters and the tweaks blame nobody.
LEMMA ParamsBlameNobody ==
  ASSUME NEW ctx, CaseLists(ctx), NEW knows
  PROVE  LET valid == ValidateSessionParams(ctx.n, ctx.t, ctx.ids, knows, ctx.pubshares,
                                            ctx.thresh_pk)
             tweaked == ThreshPubkeyAndTweak(ctx.thresh_pk, ctx.tweaks, ctx.is_xonly)
         IN  /\ valid = Returns(TRUE) \/ IsValueError(valid)
             /\ ~ Blames(valid)
             /\ ~ Blames(tweaked)
  <1> DEFINE valid == ValidateSessionParams(ctx.n, ctx.t, ctx.ids, knows, ctx.pubshares,
                                            ctx.thresh_pk)
             tweaked == ThreshPubkeyAndTweak(ctx.thresh_pk, ctx.tweaks, ctx.is_xonly)
  <1>1. valid = Returns(TRUE) \/ IsValueError(valid) BY ParamsChecked
  <1>2. tweaked \in TweakResults(ctx.thresh_pk) BY TweaksExplain DEF CaseLists
  <1> HIDE DEF valid, tweaked
  <1>3. ~ Blames(valid) BY <1>1, BlamesNobody
  <1>4. ~ Blames(tweaked) BY <1>2, BlamesNobody DEF TweakResults
  <1> QED BY <1>1, <1>3, <1>4 DEF valid, tweaked

\* The session values blame the coordinator, for an aggregate nonce that is none.
LEMMA SessionBlame ==
  ASSUME NEW ctx, CaseLists(ctx), Blames(GetSessionValues(ctx))
  PROVE  /\ GetSessionValues(ctx) = InvalidContribution(None, "aggnonce")
         /\ \E j \in 1 .. 2 : ctx.aggnonce[j] \notin Scalars
  <1> DEFINE valid == ValidateSessionParams(ctx.n, ctx.t, ctx.ids, ctx.knows_pubshares,
                                            ctx.pubshares, ctx.thresh_pk)
             r == ThreshPubkeyAndTweak(ctx.thresh_pk, ctx.tweaks, ctx.is_xonly)
             values == GetSessionValues(ctx)
  <1>1. (valid = Returns(TRUE) \/ IsValueError(valid)) /\ ~ Blames(valid) /\ ~ Blames(r)
    BY ParamsBlameNobody
  <1>2. values = IF Succeeds(valid)
                 THEN IF Succeeds(r) THEN ValuesOfKey(ctx, r.val) ELSE r
                 ELSE valid
    BY DEF GetSessionValues, Then
  <1> HIDE DEF valid, r, values
  <1>3. values = ValuesOfKey(ctx, r.val) BY <1>1, <1>2 DEF values
  <1> DEFINE Q == r.val.Q
             b == ScalarOf(NonceCoefHash(Len(ctx.ids), SerializeIds(ctx.ids), ctx.aggnonce,
                                         ToXonly(Q), ctx.msg))
             R == FinalNonce(ctx.aggnonce, b)
             e == ScalarOf(ChallengeHash(ToXonly(R), ToXonly(Q), ctx.msg))
             bad == {j \in 1 .. 2 : ~ PointOrInfinityDecodes(ctx.aggnonce[j])}
             found == [Q |-> Q, gacc |-> r.val.gacc, tacc |-> r.val.tacc, b |-> b, R |-> R, e |-> e]
  <1>4. values = IF b \notin NonZero THEN AssertionError
                 ELSE IF bad # {}
                 THEN IF ctx.aggnonce[Min(bad)] = WrongLength
                      THEN AssertionError ELSE InvalidContribution(None, "aggnonce")
                 ELSE IF e \notin NonZero THEN AssertionError
                 ELSE Returns(found)
    BY <1>3 DEF ValuesOfKey
  <1>5. bad # {} => \E j \in 1 .. 2 : ctx.aggnonce[j] \notin Scalars
    BY DEF PointOrInfinityDecodes
  <1>6. Blames(values) BY DEF values
  <1> HIDE DEF Q, b, R, e, bad, found
  <1>7. bad # {} /\ values = InvalidContribution(None, "aggnonce")
    BY <1>4, <1>6, BlamesNobody
  <1> QED BY <1>5, <1>7 DEF values

\* Signing blames no one else.
LEMMA SignBlame ==
  ASSUME NEW ctx, CaseLists(ctx), NEW secnonce, NEW secshare, NEW my_id,
         Blames(SignResult(secnonce, secshare, my_id, ctx))
  PROVE  /\ SignResult(secnonce, secshare, my_id, ctx) = InvalidContribution(None, "aggnonce")
         /\ \E j \in 1 .. 2 : ctx.aggnonce[j] \notin Scalars
  <1> DEFINE values == GetSessionValues(ctx)
             result == SignResult(secnonce, secshare, my_id, ctx)
             with(v) == SignWith(secnonce, secshare, my_id, ctx, v)
  <1>1. result = IF Succeeds(values) THEN with(values.val) ELSE values BY DEF SignResult, Then
  <1>2. \A v : ~ Blames(with(v))
    <2> TAKE v
    <2>1. IsValueError(with(v)) \/ \E psig : with(v) \in {AssertionError, Returns(psig)}
      BY ValueErrorsAre DEF SignWith
    <2> HIDE DEF with
    <2> QED BY <2>1, BlamesNobody
  <1> HIDE DEF values, with, result
  <1>3. Blames(result) BY DEF result
  <1>4. result = values /\ Blames(values) BY <1>1, <1>2, <1>3
  <1> QED BY <1>4, SessionBlame DEF values, result

\* Nor does it blame anybody under an aggregate nonce that is one.
LEMMA VerificationBlamesNobody ==
  ASSUME NEW ctx, CaseLists(ctx), \A j \in 1 .. 2 : ctx.aggnonce[j] \in Scalars,
         NEW psig, NEW my_id, NEW pubnonce, NEW pubshare
  PROVE  ~ Blames(PartialSigVerifyInternal(psig, my_id, pubnonce, pubshare, ctx))
  <1> DEFINE values == GetSessionValues(ctx)
             r == PartialSigVerifyInternal(psig, my_id, pubnonce, pubshare, ctx)
  <1>1. Succeeds(values) => \E b : r = Returns(b) BY DEF PartialSigVerifyInternal, Then
  <1>2. ~ Succeeds(values) => r = values BY DEF PartialSigVerifyInternal, Then
  <1>3. ~ Blames(values) BY SessionBlame
  <1> HIDE DEF values, r
  <1>4. ~ Blames(r) BY <1>1, <1>2, <1>3, BlamesNobody
  <1> QED BY <1>4 DEF r

\* A list of nonces of which one at most does not decode.
LEMMA NonceAggBlame ==
  ASSUME NEW nonces, IsList(nonces), AtMostOne(Undecodable(nonces))
  PROVE  LET r == NonceAgg(nonces)
         IN  /\ Blames(r) => r.contrib = "pubnonce" /\ Undecodable(nonces) = {r.idx}
             /\ Succeeds(r) => \A j \in 1 .. 2 : r.val[j] \in Scalars
             /\ Succeeds(r) \/ Blames(r) \/ r = AssertionError
  <1> DEFINE bad(j) == {i \in DOMAIN nonces : ~ PointDecodes(nonces[i][j])}
             failure(j) == IF nonces[Min(bad(j))][j] = WrongLength
                           THEN AssertionError
                           ELSE InvalidContribution(FirstOf(bad(j)), "pubnonce")
             R(j) == SumOver(DOMAIN nonces, [i \in DOMAIN nonces |-> nonces[i][j]])
             r == NonceAgg(nonces)
  <1>1. r = IF bad(1) # {} THEN failure(1)
            ELSE IF bad(2) # {} THEN failure(2)
            ELSE Returns(<<R(1), R(2)>>)
    BY DEF NonceAgg
  <1>2. PICK m \in Nat : DOMAIN nonces = 1 .. m BY DEF IsList
  <1>3. ASSUME NEW j \in 1 .. 2, bad(j) # {}
        PROVE  \/ failure(j) = AssertionError
               \/ \E i : /\ failure(j) = InvalidContribution(i, "pubnonce")
                         /\ Undecodable(nonces) = {i}
    <2>1. bad(j) \in SUBSET (1 .. m) /\ bad(j) \in SUBSET Int BY <1>2
    <2>7. IsFiniteSet(1 .. m) BY FS_Interval
    <2>2. IsFiniteSet(bad(j))
      <3> HIDE DEF bad
      <3> QED BY <2>1, <2>7, FS_Subset
    <2>3. bad(j) \in SUBSET Undecodable(nonces) BY DEF Undecodable
    <2> DEFINE i == Min(bad(j))
    <2>4. i \in bad(j)
      <3> HIDE DEF bad
      <3> QED BY <1>3, <2>1, <2>2, Extremes
    <2>5. failure(j) \in {AssertionError, InvalidContribution(i, "pubnonce")} BY DEF FirstOf
    <2> HIDE DEF failure, i, bad
    <2>6. Undecodable(nonces) = {i} BY <2>3, <2>4 DEF AtMostOne
    <2> QED BY <2>5, <2>6
  <1>4. ASSUME bad(1) = {}, bad(2) = {}
        PROVE  \E x, y \in Scalars : r = Returns(<<x, y>>)
    <2>1. ASSUME NEW j \in 1 .. 2 PROVE R(j) \in Scalars
      <3> DEFINE f == [i \in DOMAIN nonces |-> nonces[i][j]]
      <3>1. j = 1 \/ j = 2 OBVIOUS
      <3>2. ScalarsOn(DOMAIN nonces, f)
        <4>1. \A i \in DOMAIN nonces : nonces[i][j] \in NonZero BY <1>4, <3>1 DEF PointDecodes
        <4> QED BY <4>1 DEF ScalarsOn, NonZero
      <3>3. IsFiniteSet(DOMAIN nonces) BY <1>2, FS_Interval
      <3> HIDE DEF f
      <3>4. SumOver(DOMAIN nonces, f) \in Scalars BY <3>2, <3>3, SumLaws
      <3> QED BY <3>4 DEF f
    <2> HIDE DEF bad, failure, R, r
    <2>2. r = Returns(<<R(1), R(2)>>) BY <1>1, <1>4
    <2>3. R(1) \in Scalars /\ R(2) \in Scalars BY <2>1
    <2> QED BY <2>2, <2>3
  <1> HIDE DEF bad, failure, R, r
  <1>5. CASE bad(1) = {} /\ bad(2) = {}
    <2>1. PICK x, y \in Scalars : r = Returns(<<x, y>>) BY <1>4, <1>5
    <2>2. \A j \in 1 .. 2 : <<x, y>>[j] \in Scalars OBVIOUS
    <2>3. ~ Blames(r) /\ Succeeds(r) /\ \A j \in 1 .. 2 : r.val[j] \in Scalars BY <2>1, <2>2, BlamesNobody
    <2> QED BY <2>3 DEF r
  <1>6. CASE bad(1) # {} \/ bad(2) # {}
    <2>1. PICK j \in 1 .. 2 : bad(j) # {} /\ r = failure(j) BY <1>1, <1>6
    <2>2. /\ ~ Succeeds(r) /\ (Blames(r) \/ r = AssertionError)
          /\ Blames(r) => r.contrib = "pubnonce" /\ Undecodable(nonces) = {r.idx}
      BY <1>3, <2>1, BlamesNobody
    <2> QED BY <2>2 DEF r
  <1> QED BY <1>5, <1>6

\* What the property asks of the blame of an error.
RightBlame(in, c, error) ==
  Blames(error) =>
    CASE error.contrib = "pubnonce" -> Undecodable(NoncesOf(in, c)) = {error.idx}
      [] error.contrib = "psig" ->
           {j \in DOMAIN c.psigs : ~ ScalarInRange(c.psigs[j])} = {error.idx}
      [] OTHER -> error.idx = None /\ \E j \in 1 .. 2 : ~ PointDecodes(c.aggnonce[j])

\* The session of a case has its tweaks and its aggregate nonce.
LEMMA SessionOfCase ==
  ASSUME NEW in, NEW c, CaseLists(c)
  PROVE  LET ctx == Session(in, c)
         IN  CaseLists(ctx) /\ ctx.aggnonce = c.aggnonce /\ ctx.ids = c.ids
  BY DEF Session, CaseLists

\* The session with another aggregate nonce, as the verifier and the
\* deterministic signer make it.
UnderAggnonce(ctx, aggnonce) == [ctx EXCEPT !.aggnonce = aggnonce]
KnownUnder(ctx, aggnonce) == [ctx EXCEPT !.knows_pubshares = TRUE, !.aggnonce = aggnonce]

\* Such sessions have the tweaks of ctx.
LEMMA OtherSessionOfCase ==
  ASSUME NEW in, NEW c, CaseLists(c), NEW aggnonce
  PROVE  /\ CaseLists(UnderAggnonce(Session(in, c), aggnonce))
         /\ UnderAggnonce(Session(in, c), aggnonce).aggnonce = aggnonce
         /\ CaseLists(KnownUnder(Session(in, c), aggnonce))
         /\ KnownUnder(Session(in, c), aggnonce).aggnonce = aggnonce
  BY DEF Session, CaseLists, UnderAggnonce, KnownUnder

\* The errors of sign, of partial_sig_verify and of nonce_agg.
LEMMA SignsWithRightBlame ==
  ASSUME NEW in, NEW pool, NEW c, Listed(in, c), c.call = "sign"
  PROVE  RightBlame(in, c, Run(in, pool, c).result)
  <1> DEFINE ctx == Session(in, c)
             r == SignResult(pool[c.secnonce], in.secshares[c.secshare], c.my_id, ctx)
  <1>1. Run(in, pool, c).result = r BY DEF Run, AfterSign, Sign
  <1>2. CaseLists(c) BY DEF Listed
  <1>3. CaseLists(ctx) /\ ctx.aggnonce = c.aggnonce BY <1>2, SessionOfCase
  <1>4. Blames(r) => /\ r = InvalidContribution(None, "aggnonce")
                     /\ \E j \in 1 .. 2 : ctx.aggnonce[j] \notin Scalars
    <2> HIDE DEF ctx
    <2> QED BY <1>3, SignBlame
  <1> HIDE DEF ctx, r
  <1>5. RightBlame(in, c, r)
    <2>1. \A j \in 1 .. 2 : c.aggnonce[j] \notin Scalars => ~ PointDecodes(c.aggnonce[j])
      BY DEF PointDecodes, NonZero
    <2>2. Blames(r) => r.contrib = "aggnonce" /\ r.idx = None BY <1>4, BlamesNobody
    <2> QED BY <1>3, <1>4, <2>1, <2>2 DEF RightBlame
  <1> QED BY <1>1, <1>5

\* partial_sig_verify blames a nonce that does not decode, and no other.
LEMMA VerifiesWithRightBlame ==
  ASSUME NEW in, NEW pool, NEW c, Listed(in, c), c.call = "verify"
  PROVE  RightBlame(in, c, Run(in, pool, c).result)
  <1> DEFINE ctx == Session(in, c)
             nonces == Taken(in.pubnonces, c.pubnonces)
             psig == c.psigs[1]
             i == c.signer_index
             r == PartialSigVerify(psig, nonces, ctx, i)
             valid == ValidateSessionParams(ctx.n, ctx.t, ctx.ids, TRUE, ctx.pubshares,
                                            ctx.thresh_pk)
             other(agg) == KnownUnder(ctx, agg)
             verify(agg) == PartialSigVerifyInternal(psig, ctx.ids[i], nonces[i], ctx.pubshares[i],
                                                     other(agg))
             summed == NonceAgg(nonces)
  <1>1. Run(in, pool, c).result = r BY DEF Run, Verify
  <1>2. NoncesOf(in, c) = nonces BY DEF NoncesOf
  <1>3. CaseLists(c) /\ IsList(nonces) /\ AtMostOne(Undecodable(nonces)) BY <1>2 DEF Listed
  <1>4. CaseLists(ctx) /\ \A agg : CaseLists(other(agg)) /\ other(agg).aggnonce = agg
    BY <1>3, SessionOfCase, OtherSessionOfCase
  <1>5. \/ IsValueError(r)
        \/ r = IF Succeeds(valid) THEN IF Succeeds(summed) THEN verify(summed.val) ELSE summed
               ELSE valid
    <2>1. \/ \E check : r = ValueError(check)
          \/ r = IF Succeeds(valid) THEN IF Succeeds(summed) THEN verify(summed.val) ELSE summed
                 ELSE valid
      BY DEF PartialSigVerify, Then, KnownUnder
    <2> HIDE DEF r, valid, summed, verify
    <2> QED BY <2>1, ValueErrorsAre
  <1>6. ~ Blames(valid)
    <2> HIDE DEF ctx
    <2> QED BY <1>4, ParamsBlameNobody
  <1>7. /\ Blames(summed) => summed.contrib = "pubnonce" /\ Undecodable(nonces) = {summed.idx}
        /\ Succeeds(summed) => \A j \in 1 .. 2 : summed.val[j] \in Scalars
    <2> HIDE DEF nonces
    <2> QED BY <1>3, NonceAggBlame
  <1>8. Succeeds(summed) => ~ Blames(verify(summed.val))
    <2> HIDE DEF ctx, nonces, psig, i, other, summed
    <2> QED BY <1>4, <1>7, VerificationBlamesNobody
  <1> HIDE DEF ctx, nonces, r, valid, verify, summed
  <1>9. Blames(r) => r.contrib = "pubnonce" /\ Undecodable(nonces) = {r.idx}
    BY <1>5, <1>6, <1>7, <1>8, BlamesNobody
  <1> QED BY <1>1, <1>2, <1>9 DEF RightBlame

\* So does nonce_agg.
LEMMA AggregatesNoncesWithRightBlame ==
  ASSUME NEW in, NEW pool, NEW c, Listed(in, c), c.call = "nonce_agg"
  PROVE  RightBlame(in, c, Run(in, pool, c).result)
  <1> DEFINE nonces == c.nonces
             r == NonceAgg(nonces)
  <1>1. Run(in, pool, c).result = r BY DEF Run
  <1>2. NoncesOf(in, c) = nonces BY DEF NoncesOf
  <1>3. IsList(nonces) /\ AtMostOne(Undecodable(nonces)) BY <1>2 DEF Listed
  <1>4. Blames(r) => r.contrib = "pubnonce" /\ Undecodable(nonces) = {r.idx}
    BY <1>3, NonceAggBlame
  <1> HIDE DEF nonces, r
  <1> QED BY <1>1, <1>2, <1>4 DEF RightBlame

\* The partial signatures of a session that all its signers can sign.
LEMMA AllSignersSign ==
  ASSUME NEW in, RealEntries(in), NEW c, CaseLists(c), SignersOf(in.n, c.ids),
         c.pubshares = c.ids, Succeeds(GetSessionValues(Session(in, c)))
  PROVE  LET v == GetSessionValues(Session(in, c)).val
         IN  /\ GetSessionValues(Session(in, c)) = Returns(v) /\ Coefficients(v)
             /\ \A k \in DOMAIN c.ids :
                  /\ Psigs(in, c)[k]
                       = PartialSig(in.secnonces[c.ids[k]][1], in.secnonces[c.ids[k]][2],
                                    in.secshares[c.ids[k]], c.ids[k], c.ids, v)
                  /\ Psigs(in, c)[k] \in Scalars
  <1> DEFINE ctx == Session(in, c)
             values == GetSessionValues(ctx)
             v == values.val
  <1>1. /\ ctx.n = in.n /\ ctx.t = in.t /\ ctx.ids = c.ids /\ ctx.tweaks = c.tweaks
        /\ ctx.is_xonly = c.is_xonly /\ ctx.pubshares = Taken(in.pubshares, c.pubshares)
    BY DEF Session
  <1>2. SignerIds(c.ids) /\ c.ids \in Seq(Nat) BY DEF SignersOf, SignerIds
  <1>3. SessionShape(ctx)
    <2>1. in.n \in Int /\ in.t \in Int BY ParticipantsAssumption DEF RealEntries
    <2> HIDE DEF ctx
    <2> QED BY <1>1, <1>2, <2>1 DEF SessionShape, CaseLists
  <1>4. Succeeds(values) OBVIOUS
  <1> HIDE DEF ctx, values
  <1>5. values = Returns(v) /\ ValuesOk(ctx, v) BY <1>3, <1>4, SessionValuesReturned DEF values
  <1>6. Coefficients(v) BY <1>5 DEF ValuesOk, Coefficients
  <1> HIDE DEF v
  <1>7. ASSUME NEW k \in DOMAIN c.ids
        PROVE  LET psig == PartialSig(in.secnonces[c.ids[k]][1], in.secnonces[c.ids[k]][2],
                                      in.secshares[c.ids[k]], c.ids[k], c.ids, v)
               IN  Psigs(in, c)[k] = psig /\ psig \in Scalars
    <2> DEFINE id == c.ids[k]
               k_1 == in.secnonces[id][1]
               k_2 == in.secnonces[id][2]
               share == in.secshares[id]
               psig == PartialSig(k_1, k_2, share, id, c.ids, v)
    <2>1. id \in ToSet(c.ids) BY DEF ToSet
    <2>2. id \in 0 .. in.n - 1 BY <2>1 DEF SignersOf
    <2>3. /\ share \in NonZero /\ k_1 \in NonZero /\ k_2 \in NonZero
          /\ in.secnonces[id] = <<k_1, k_2>>
      BY <2>2 DEF RealEntries
    <2>4. \A j \in DOMAIN ctx.ids : ctx.ids[j] = id => ctx.pubshares[j] = share
      <3>1. \A j \in DOMAIN c.ids : Taken(in.pubshares, c.pubshares)[j] = in.pubshares[c.ids[j]]
        BY DEF Taken
      <3>2. in.pubshares[id] = share BY <2>2 DEF RealEntries
      <3> HIDE DEF id, share
      <3> QED BY <1>1, <3>1, <3>2
    <2> HIDE DEF id, k_1, k_2, share, psig
    <2>5. Sign(<<k_1, k_2>>, share, id, ctx).result = Returns(psig)
      <3>1. Sign(<<k_1, k_2>>, share, id, ctx).result
              = Returns(PartialSig(k_1, k_2, share, id, ctx.ids, v))
        BY <1>1, <1>2, <1>5, <1>6, <2>1, <2>3, <2>4, SignReturns DEF values
      <3> QED BY <1>1, <3>1 DEF psig
    <2>6. SignResult(in.secnonces[id], share, id, ctx) = Returns(psig)
      BY <2>3, <2>5 DEF Sign
    <2>7. Psigs(in, c)[k] = SignResult(in.secnonces[id], share, id, ctx).val
      BY DEF Psigs, id, share, ctx
    <2>8. Psigs(in, c)[k] = psig BY <2>6, <2>7, BlamesNobody
    <2>9. psig \in Scalars
      <3>1. k_1 \in Scalars /\ k_2 \in Scalars /\ share \in Scalars BY <2>3 DEF NonZero
      <3> QED BY <1>2, <1>6, <2>1, <3>1, SigningEquation DEF psig
    <2> QED BY <2>8, <2>9 DEF psig, id, k_1, k_2, share
  <1> QED BY <1>5, <1>6, <1>7 DEF v, values, ctx

\* Of scalars, with the last one spoilt or missing or not, at most one is none.
LEMMA OneSpoilt ==
  ASSUME NEW s \in Seq(Scalars), NEW d, d \in {s, Front(s) \o <<Order>>, Front(s)}
  PROVE  IsList(d) /\ AtMostOne({j \in DOMAIN d : ~ ScalarInRange(d[j])})
  <1> DEFINE f == Front(s)
             o == <<Order>>
  <1>1. f \in Seq(Scalars)
    <2> DEFINE n == Len(s)
    <2>1. n \in Nat /\ \A k \in 1 .. n - 1 : s[k] \in Scalars OBVIOUS
    <2>2. CASE n = 0 BY <2>2 DEF Front
    <2>3. CASE n # 0
      <3>1. n - 1 \in Nat /\ n - 1 <= Len(s) BY <2>1, <2>3
      <3> DEFINE m == n - 1
      <3> HIDE DEF n
      <3>2. SubSeq(s, 1, m) \in Seq(Scalars) BY <3>1
      <3> QED BY <3>2 DEF Front, n
    <2> QED BY <2>2, <2>3
  <1>2. f \in Seq(Int) /\ o \in Seq(Int) /\ Len(o) = 1
    <2>1. Scalars \subseteq Int BY Closed
    <2>2. Order \in Int BY OrderAssumption
    <2>3. o \in Seq(Int) /\ Len(o) = 1 BY <2>2
    <2> HIDE DEF f, o
    <2>4. f \in Seq(Int) BY <1>1, <2>1, ListOfMore
    <2> QED BY <2>3, <2>4
  <1> HIDE DEF f, o
  <1>3. /\ f \o o \in Seq(Int) /\ Len(f \o o) = Len(f) + 1
        /\ \A k \in 1 .. Len(f) + 1 : (f \o o)[k] = IF k <= Len(f) THEN f[k] ELSE o[k - Len(f)]
    <2>1. f \o o \in Seq(Int) BY <1>2, ConcatProperties
    <2>2. Len(f \o o) = Len(f) + Len(o) BY <1>2, ConcatProperties
    <2>3. \A k \in 1 .. Len(f) + Len(o) :
            (f \o o)[k] = IF k <= Len(f) THEN f[k] ELSE o[k - Len(f)]
      BY <1>2, ConcatProperties
    <2> QED BY <1>2, <2>1, <2>2, <2>3
  <1> DEFINE bad == {j \in DOMAIN d : ~ ScalarInRange(d[j])}
  <1>4. d = s => AtMostOne(bad) BY DEF AtMostOne, ScalarInRange
  <1>5. d = f => AtMostOne(bad) BY <1>1 DEF AtMostOne, ScalarInRange
  <1>6. ASSUME d = f \o o PROVE AtMostOne(bad)
    <2>1. DOMAIN d = 1 .. Len(f) + 1 BY <1>3, <1>6
    <2>2. \A k \in 1 .. Len(f) + 1 : k # Len(f) + 1 => d[k] \in Scalars
      <3> TAKE k \in 1 .. Len(f) + 1
      <3>1. k # Len(f) + 1 => k <= Len(f) /\ k \in 1 .. Len(f) BY <1>2
      <3> QED BY <1>1, <1>3, <1>6, <3>1
    <2> QED BY <2>1, <2>2 DEF AtMostOne, ScalarInRange
  <1>7. IsList(d)
    <2>1. \A S : \A l \in Seq(S) : IsList(l) BY DEF IsList
    <2> QED BY <1>1, <1>3, <2>1 DEF f, o
  <1> QED BY <1>4, <1>5, <1>6, <1>7 DEF f, o

\* The errors of partial_sig_agg.
LEMMA AggregatesWithRightBlame ==
  ASSUME NEW in, RealEntries(in), NEW pool, NEW c, Listed(in, c), c.call = "agg"
  PROVE  RightBlame(in, c, Run(in, pool, c).result)
  <1> DEFINE ctx == Session(in, c)
             values == GetSessionValues(ctx)
             psigs == c.psigs
             bad == {i \in DOMAIN psigs : ~ ScalarInRange(psigs[i])}
             sum(v) == Add(SumOver(DOMAIN psigs, psigs), TweakSummand(v))
             aggregate(v) == IF Len(psigs) # Len(ctx.ids) THEN ValueError("psig count")
                             ELSE IF bad # {} THEN InvalidContribution(FirstOf(bad), "psig")
                             ELSE Returns(<<ToXonly(v.R), sum(v)>>)
             r == PartialSigAgg(psigs, ctx)
  <1>1. Run(in, pool, c).result = r BY DEF Run
  <1>2. r = IF Succeeds(values) THEN aggregate(values.val) ELSE values BY DEF PartialSigAgg, Then
  <1>3. CaseLists(c) /\ Aggregation(in, c) BY DEF Listed
  <1>4. CaseLists(ctx) /\ ctx.aggnonce = c.aggnonce BY <1>3, SessionOfCase
  <1>5. ~ Succeeds(values) => RightBlame(in, c, r)
    <2>1. ASSUME ~ Succeeds(values), Blames(values) PROVE RightBlame(in, c, values)
      <3> HIDE DEF ctx
      <3>1. /\ values = InvalidContribution(None, "aggnonce")
            /\ \E j \in 1 .. 2 : c.aggnonce[j] \notin Scalars
        BY <1>4, <2>1, SessionBlame
      <3>2. values.contrib = "aggnonce" /\ values.idx = None BY <3>1, BlamesNobody
      <3> HIDE DEF values
      <3> QED BY <3>1, <3>2 DEF RightBlame, PointDecodes, NonZero
    <2>2. ~ Blames(values) => RightBlame(in, c, values) BY DEF RightBlame
    <2> HIDE DEF r, values, aggregate
    <2> QED BY <1>2, <2>1, <2>2
  <1>6. Succeeds(values) => RightBlame(in, c, r)
    <2> SUFFICES ASSUME Succeeds(values) PROVE RightBlame(in, c, r) OBVIOUS
    <2>1. IsList(psigs) /\ AtMostOne(bad)
      <3> DEFINE s == Psigs(in, c)
      <3>1. SignersOf(in.n, c.ids) /\ c.pubshares = c.ids
            /\ psigs \in {s, Front(s) \o <<Order>>, Front(s)}
        BY <1>3 DEF Aggregation
      <3>2. \A k \in DOMAIN c.ids : s[k] \in Scalars BY <1>3, <3>1, AllSignersSign
      <3>3. s \in Seq(Scalars)
        <4>1. c.ids \in Seq(Nat) BY <3>1 DEF SignersOf, SignerIds
        <4> DEFINE f == [k \in 1 .. Len(c.ids) |-> s[k]]
        <4>2. s = f BY <4>1 DEF Psigs
        <4> HIDE DEF s
        <4>3. f \in Seq(Scalars) BY <3>2, <4>1
        <4> HIDE DEF f
        <4> QED BY <4>2, <4>3
      <3> HIDE DEF s, psigs
      <3>4. IsList(psigs) /\ AtMostOne({j \in DOMAIN psigs : ~ ScalarInRange(psigs[j])}) BY <3>1, <3>3, OneSpoilt
      <3> QED BY <3>4
    <2>2. bad # {} => bad = {FirstOf(bad)}
      <3>1. PICK m \in Nat : DOMAIN psigs = 1 .. m BY <2>1 DEF IsList
      <3>2. IsFiniteSet(1 .. m) BY FS_Interval
      <3>3. bad \in SUBSET (1 .. m) /\ bad \in SUBSET Int BY <3>1
      <3> HIDE DEF bad
      <3>4. IsFiniteSet(bad) BY <3>2, <3>3, FS_Subset
      <3>5. bad # {} => Min(bad) \in bad BY <3>3, <3>4, Extremes
      <3> QED BY <2>1, <3>5 DEF AtMostOne, FirstOf
    <2> DEFINE i == FirstOf(bad)
    <2>3. \/ IsValueError(r)
          \/ bad = {i} /\ r = InvalidContribution(i, "psig")
          \/ \E x : r = Returns(x)
      <3> HIDE DEF r, values, bad, sum
      <3> QED BY <1>2, <2>2, ValueErrorsAre
    <2> HIDE DEF r, i
    <2>4. Blames(r) => r.contrib = "psig" /\ r.idx = i /\ bad = {i} BY <2>3, BlamesNobody
    <2> QED BY <2>4 DEF RightBlame
  <1> QED BY <1>1, <1>5, <1>6

\* The own nonce of a deterministic signer decodes: what does not is aggothernonce.
LEMMA AggothernonceBlame ==
  ASSUME NEW k_1 \in NonZero, NEW k_2 \in NonZero, NEW other
  PROVE  LET r == AggnonceWith(NonceGen(k_1, k_2).pubnonce, other)
         IN  /\ Blames(r) => /\ r = InvalidContribution(None, "aggothernonce")
                             /\ \E j \in 1 .. 2 : ~ PointDecodes(other[j])
             /\ Succeeds(r) => \A j \in 1 .. 2 : r.val[j] \in Scalars
  <1> DEFINE own == NonceGen(k_1, k_2).pubnonce
             pair == <<own, other>>
             agg == NonceAgg(pair)
             r == AggnonceWith(own, other)
  <1>1. own = <<k_1, k_2>>
    <2>1. k_1 \in Scalars /\ k_2 \in Scalars BY DEF NonZero
    <2> QED BY <2>1, TimesG DEF NonceGen
  <1>2. r = IF other = Omitted THEN Returns(own)
            ELSE IF Succeeds(agg) \/ agg = AssertionError THEN agg
            ELSE InvalidContribution(None, "aggothernonce")
    BY DEF AggnonceWith
  <1>3. /\ own[1] \in NonZero /\ own[2] \in NonZero /\ \A j \in 1 .. 2 : own[j] \in Scalars
    BY <1>1 DEF NonZero
  <1> HIDE DEF own
  <1>4. DOMAIN pair = 1 .. 2 /\ pair[1] = own /\ pair[2] = other OBVIOUS
  <1>5. IsList(pair) BY <1>4 DEF IsList
  <1> HIDE DEF pair
  <1>6. AtMostOne(Undecodable(pair)) /\ Undecodable(pair) \in SUBSET {2}
    <2>1. \A k \in Undecodable(pair) : k = 2
      <3> SUFFICES ASSUME NEW k \in Undecodable(pair) PROVE k = 2 OBVIOUS
      <3>1. k \in 1 .. 2 /\ \E j \in 1 .. 2 : ~ PointDecodes(pair[k][j])
        BY <1>4 DEF Undecodable
      <3>2. \A j \in 1 .. 2 : PointDecodes(pair[1][j])
        <4>1. \A j \in 1 .. 2 : j = 1 \/ j = 2 OBVIOUS
        <4> QED BY <1>3, <1>4, <4>1 DEF PointDecodes
      <3> QED BY <3>1, <3>2
    <2> QED BY <2>1 DEF AtMostOne
  <1>7. /\ Blames(agg) => agg.contrib = "pubnonce" /\ Undecodable(pair) = {agg.idx}
        /\ Succeeds(agg) => \A j \in 1 .. 2 : agg.val[j] \in Scalars
    BY <1>5, <1>6, NonceAggBlame
  <1>8. Succeeds(agg) \/ Blames(agg) \/ agg = AssertionError BY <1>5, <1>6, NonceAggBlame
  <1>9. Blames(agg) => \E j \in 1 .. 2 : ~ PointDecodes(other[j])
    <2>1. Blames(agg) => 2 \in Undecodable(pair) BY <1>6, <1>7
    <2> QED BY <1>4, <2>1 DEF Undecodable
  <1> HIDE DEF agg, r
  <1>10. Blames(r) => /\ r = InvalidContribution(None, "aggothernonce")
                      /\ \E j \in 1 .. 2 : ~ PointDecodes(other[j])
    <2>1. ~ Blames(Returns(own)) /\ ~ Blames(AssertionError) BY BlamesNobody
    <2>2. Succeeds(agg) => ~ Blames(agg) BY DEF Succeeds, Blames
    <2> QED BY <1>2, <1>8, <1>9, <2>1, <2>2
  <1>11. Succeeds(r) => \A j \in 1 .. 2 : r.val[j] \in Scalars
    <2>1. Returns(own).val = own /\ ~ Succeeds(InvalidContribution(None, "aggothernonce"))
          /\ ~ Succeeds(AssertionError)
      BY BlamesNobody
    <2> QED BY <1>2, <1>3, <1>7, <2>1
  <1> QED BY <1>10, <1>11 DEF r, own

\* The errors of deterministic_sign.
LEMMA DetSignsWithRightBlame ==
  ASSUME NEW in, NEW pool, NEW c, Listed(in, c), c.call = "det", HashesToIntegers(in, c)
  PROVE  RightBlame(in, c, Run(in, pool, c).result)
  <1> DEFINE ctx == Session(in, c)
             request == DetRequest(in, c)
             valid == ValidateSessionParams(ctx.n, ctx.t, ctx.ids, ctx.knows_pubshares,
                                            ctx.pubshares, ctx.thresh_pk)
             tweaked == ThreshPubkeyAndTweak(ctx.thresh_pk, ctx.tweaks, ctx.is_xonly)
             derived == DeriveNonce(InputsUnder(request, tweaked.val))
             nonce == derived.val
             summed == AggnonceWith(nonce.pubnonce, c.aggnonce)
             signed == SignResult(nonce.secnonce, request.secshare, c.my_id,
                                  UnderAggnonce(ctx, summed.val))
             r == DeterministicSign(request)
  <1>1. Run(in, pool, c).result = r BY DEF Run
  <1>2. request.ctx = ctx /\ request.aggothernonce = c.aggnonce /\ request.my_id = c.my_id
    BY DEF DetRequest
  <1>3. CaseLists(c) BY DEF Listed
  <1>4. CaseLists(ctx) /\ CaseLists(UnderAggnonce(ctx, summed.val))
        /\ UnderAggnonce(ctx, summed.val).aggnonce = summed.val
    BY <1>3, SessionOfCase, OtherSessionOfCase
  <1>5. r = IF Succeeds(valid)
            THEN IF Succeeds(tweaked)
                 THEN IF Succeeds(derived) THEN SignUnder(request, nonce) ELSE derived
                 ELSE tweaked
            ELSE valid
    <2> HIDE DEF ctx, request
    <2> QED BY <1>2 DEF DeterministicSign, Then
  <1>6. SignUnder(request, nonce)
          = IF Succeeds(summed)
            THEN IF Succeeds(signed)
                 THEN Returns([pubnonce |-> nonce.pubnonce, psig |-> signed.val])
                 ELSE signed
            ELSE summed
    <2> HIDE DEF ctx, request, nonce
    <2> QED BY <1>2 DEF SignUnder, Then, UnderAggnonce
  <1>7. ~ Blames(valid) /\ ~ Blames(tweaked)
    <2>1. CaseLists(ctx) BY <1>3, SessionOfCase
    <2> HIDE DEF ctx
    <2> USE DEF valid, tweaked
    <2>2. ~ Blames(valid) BY <2>1, ParamsBlameNobody
    <2>3. ~ Blames(tweaked) BY <2>1, ParamsBlameNobody
    <2> QED BY <2>2, <2>3
  <1>8. ASSUME Succeeds(valid), Succeeds(tweaked)
        PROVE  \/ derived = AssertionError
               \/ \E k_1, k_2 \in NonZero : derived = Returns(NonceGen(k_1, k_2))
    <2> DEFINE x == InputsUnder(request, tweaked.val)
               k(i) == ScalarOf(DetNonceHash(x, i))
    <2>3. \A j \in {0, 1} : DetNonceHash(x, j) \in Int
      <3> DEFINE t == tweaked.val
      <3>1. HashesToIntegers(in, c)
              = (Succeeds(valid) /\ Succeeds(tweaked) =>
                   \A j \in {0, 1} : DetNonceHash(InputsUnder(request, t), j) \in Int)
        <4> HIDE DEF ctx
        <4> QED BY <1>2 DEF HashesToIntegers
      <3> HIDE DEF request, valid, tweaked, t
      <3>2. \A j \in {0, 1} : DetNonceHash(InputsUnder(request, t), j) \in Int
        BY <1>8, <3>1
      <3> QED BY <3>2 DEF t
    <2> HIDE DEF x
    <2>1. derived = IF 0 \in {k(0), k(1)} THEN AssertionError ELSE Returns(NonceGen(k(0), k(1)))
      BY DEF DeriveNonce, x
    <2>2. k(0) \in Scalars /\ k(1) \in Scalars
      BY <2>3, OrderAssumption DEF Scalars, ScalarOf
    <2> HIDE DEF derived, k
    <2> QED BY <2>1, <2>2 DEF NonZero
  <1> HIDE DEF request, valid, tweaked, derived, nonce
  <1>9. Succeeds(valid) /\ Succeeds(tweaked) => ~ Blames(derived) BY <1>8, BlamesNobody
  <1>10. ASSUME Succeeds(valid), Succeeds(tweaked), Succeeds(derived)
         PROVE  /\ Blames(summed) => /\ summed = InvalidContribution(None, "aggothernonce")
                                     /\ \E j \in 1 .. 2 : ~ PointDecodes(c.aggnonce[j])
                /\ Succeeds(summed) => \A j \in 1 .. 2 : summed.val[j] \in Scalars
    <2>1. PICK k_1, k_2 \in NonZero : derived = Returns(NonceGen(k_1, k_2))
      BY <1>8, <1>10, BlamesNobody
    <2>2. nonce = NonceGen(k_1, k_2) BY <2>1, BlamesNobody DEF nonce
    <2> QED BY <2>2, AggothernonceBlame
  <1>11. ASSUME Succeeds(valid), Succeeds(tweaked), Succeeds(derived), Succeeds(summed)
         PROVE  ~ Blames(signed)
    <2> DEFINE other == UnderAggnonce(ctx, summed.val)
    <2>1. CaseLists(other) /\ \A j \in 1 .. 2 : other.aggnonce[j] \in Scalars
      BY <1>4, <1>10, <1>11
    <2> HIDE DEF other
    <2>2. ~ Blames(SignResult(nonce.secnonce, request.secshare, c.my_id, other))
      BY <2>1, SignBlame
    <2> QED BY <2>2 DEF other
  <1> HIDE DEF ctx, summed, signed, r
  <1>12. Blames(r) => /\ r = InvalidContribution(None, "aggothernonce")
                      /\ \E j \in 1 .. 2 : ~ PointDecodes(c.aggnonce[j])
    <2>1. Blames(r) => /\ Succeeds(valid) /\ Succeeds(tweaked) /\ Succeeds(derived)
                       /\ r = SignUnder(request, nonce)
      BY <1>5, <1>7, <1>9
    <2>2. Blames(r) => r = summed BY <1>6, <1>11, <2>1, BlamesNobody
    <2> QED BY <1>10, <2>1, <2>2
  <1>13. RightBlame(in, c, r)
    <2>1. Blames(r) => r.contrib = "aggothernonce" /\ r.idx = None BY <1>12, BlamesNobody
    <2> QED BY <1>12, <2>1 DEF RightBlame
  <1> QED BY <1>1, <1>13

\* Every case of every file.
LEMMA CasesBlameRightly ==
  ASSUME NEW in, RealEntries(in), NEW pool, NEW c, Listed(in, c),
         c.call = "det" => HashesToIntegers(in, c)
  PROVE  RightBlame(in, c, Run(in, pool, c).result)
  <1>1. c.call \in {"sign", "det", "verify", "agg", "nonce_gen", "nonce_agg"} BY DEF Listed
  <1>2. CASE c.call = "nonce_gen"
    <2> DEFINE r == NonceGenInternal(c.hashed)
    <2>1. Run(in, pool, c).result = r BY <1>2 DEF Run
    <2>2. r = AssertionError \/ \E x : r = Returns(x) BY DEF NonceGenInternal
    <2> HIDE DEF r
    <2>3. ~ Blames(r) BY <2>2, BlamesNobody
    <2> QED BY <2>1, <2>3 DEF RightBlame
  <1> QED BY <1>1, <1>2, SignsWithRightBlame, VerifiesWithRightBlame, AggregatesWithRightBlame,
             DetSignsWithRightBlame, AggregatesNoncesWithRightBlame

(* The error of a case names the one contribution that is faulty, whichever  *)
(* test group it belongs to (BlameFallsOnFault; signing.py:46-53).          *)
THEOREM BlameTheorem == CasesSpec => []BlameFallsOnFault
  <1>1. CasesInv => BlameFallsOnFault
    <2> SUFFICES ASSUME CasesInv PROVE BlameFallsOnFault OBVIOUS
    <2>1. PICK i \in DOMAIN Configs : inputs = Inputs[i] BY DEF CasesInv
    <2>2. RealEntries(inputs) BY <2>1, BuiltGroup
    <2>3. PICK S : done \in Seq(S) /\ \A d \in S : Recorded(inputs, d)
      BY DEF CasesInv, RecordedList
    <2>4. ASSUME NEW k \in DOMAIN done
          PROVE  RightBlame(inputs, done[k].case, done[k].result)
      <3> DEFINE d == done[k]
      <3>1. Recorded(inputs, d) BY <2>3
      <3> HIDE DEF d
      <3>2. d.case.call = "det" => HashesToIntegers(inputs, d.case)
        BY <2>1, <3>1, HashAssumption DEF Recorded, Written
      <3>3. RightBlame(inputs, d.case, d.result)
        BY <2>2, <3>1, <3>2, CasesBlameRightly DEF Recorded
      <3> QED BY <3>3 DEF d
    <2>5. \A c : FaultyNonces(c) = Undecodable(NoncesOf(inputs, c))
      BY DEF FaultyNonces, Undecodable, NoncesOf
    <2> QED BY <2>4, <2>5 DEF BlameFallsOnFault, RightBlame, Blames
  <1> QED BY <1>1, CasesInvariant, PTL

-----------------------------------------------------------------------------
(* What the order of the signers does not change.                          *)

\* Sessions that differ in the order of the signers and in what is known of
\* their public shares.
SameButOrder(ctx, other) ==
  /\ CaseLists(ctx) /\ CaseLists(other) /\ ToSet(other.ids) = ToSet(ctx.ids)
  /\ other.thresh_pk = ctx.thresh_pk /\ other.tweaks = ctx.tweaks
  /\ other.is_xonly = ctx.is_xonly /\ other.aggnonce = ctx.aggnonce /\ other.msg = ctx.msg

\* Lists of the same elements without repetition are of the same length, and one
\* is the other in some order.
LEMMA SameElements ==
  ASSUME NEW s \in Seq(Nat), IsInjective(s), NEW u \in Seq(Nat), IsInjective(u),
         ToSet(s) = ToSet(u)
  PROVE  /\ Len(s) = Len(u)
         /\ \E p \in Bijection(DOMAIN s, DOMAIN u) : \A k \in DOMAIN s : s[k] = u[p[k]]
  <1> DEFINE p == [k \in DOMAIN s |-> CHOOSE j \in DOMAIN u : u[j] = s[k]]
  <1>1. ASSUME NEW k \in DOMAIN s PROVE p[k] \in DOMAIN u /\ u[p[k]] = s[k]
    <2>1. s[k] \in ToSet(u) BY DEF ToSet
    <2>2. \E j \in DOMAIN u : u[j] = s[k] BY <2>1 DEF ToSet
    <2> QED BY <2>2
  <1>2. ASSUME NEW j \in DOMAIN u PROVE \E k \in DOMAIN s : p[k] = j
    <2>1. u[j] \in ToSet(s) BY DEF ToSet
    <2>2. PICK k \in DOMAIN s : s[k] = u[j] BY <2>1 DEF ToSet
    <2>3. u[p[k]] = u[j] /\ p[k] \in DOMAIN u BY <1>1, <2>2
    <2> HIDE DEF p
    <2>4. p[k] = j BY <2>3 DEF IsInjective
    <2> QED BY <2>4
  <1>3. ASSUME NEW k \in DOMAIN s, NEW l \in DOMAIN s, p[k] = p[l] PROVE k = l
    <2>1. s[k] = s[l] BY <1>1, <1>3
    <2> QED BY <2>1 DEF IsInjective
  <1>4. p \in [DOMAIN s -> DOMAIN u] BY <1>1
  <1> HIDE DEF p
  <1>5. p \in Bijection(DOMAIN s, DOMAIN u)
    BY <1>2, <1>3, <1>4 DEF Bijection, Injection, Surjection, IsInjective
  <1>6. /\ DOMAIN s = 1 .. Len(s) /\ Len(s) \in Nat /\ DOMAIN u = 1 .. Len(u) /\ Len(u) \in Nat
    OBVIOUS
  <1>7. Len(s) = Len(u)
    <2> DEFINE m == Len(s)
               n == Len(u)
    <2>1. ASSUME NEW k \in Nat PROVE IsFiniteSet(1 .. k) /\ Cardinality(1 .. k) = k
      <3>1. k - 1 + 1 = k /\ (1 > k <=> k = 0) OBVIOUS
      <3>2. IsFiniteSet(1 .. k) /\ Cardinality(1 .. k) = IF 1 > k THEN 0 ELSE k - 1 + 1
        BY FS_Interval
      <3> QED BY <3>1, <3>2
    <2>2. Cardinality(1 .. m) = m /\ Cardinality(1 .. n) = n /\ IsFiniteSet(1 .. m)
      BY <1>6, <2>1
    <2>3. ExistsBijection(1 .. m, 1 .. n) BY <1>5, <1>6 DEF ExistsBijection
    <2> DEFINE S == 1 .. m
               T == 1 .. n
    <2>4. ExistsBijection(S, T) /\ IsFiniteSet(S) BY <2>2, <2>3
    <2>5. Cardinality(S) = m /\ Cardinality(T) = n BY <2>2
    <2> HIDE DEF S, T
    <2>6. Cardinality(T) = Cardinality(S) BY <2>4, FS_Bijection
    <2> QED BY <2>5, <2>6
  <1> QED BY <1>1, <1>5, <1>7

\* What the session values and the signatures take from the list of signers.
LEMMA ListedAlike ==
  ASSUME NEW ctx, NEW other, SameButOrder(ctx, other), ValidContext(ctx), ValidContext(other)
  PROVE  /\ Len(other.ids) = Len(ctx.ids) /\ SerializeIds(other.ids) = SerializeIds(ctx.ids)
         /\ \E p \in Bijection(DOMAIN ctx.ids, DOMAIN other.ids) :
              \A k \in DOMAIN ctx.ids : ctx.ids[k] = other.ids[p[k]]
  <1>1. ctx.ids \in Seq(Nat) /\ other.ids \in Seq(Nat) /\ ToSet(other.ids) = ToSet(ctx.ids)
    BY DEF SameButOrder, CaseLists
  <1>2. ASSUME NEW c, ValidContext(c) PROVE IsInjective(c.ids)
    <2>1. ParamsPass(c.n, c.t, c.ids, c.knows_pubshares, c.pubshares, c.thresh_pk)
      BY <1>2, ParamsChecked DEF ValidContext
    <2> QED BY <2>1 DEF ParamsPass, HasDuplicates
  <1> DEFINE s == ctx.ids
             u == other.ids
  <1>3. IsInjective(s) /\ IsInjective(u) BY <1>2
  <1> HIDE DEF s, u
  <1>4. /\ Len(s) = Len(u)
        /\ \E p \in Bijection(DOMAIN s, DOMAIN u) : \A k \in DOMAIN s : s[k] = u[p[k]]
    BY <1>1, <1>3, SameElements DEF s, u
  <1>5. DOMAIN s = DOMAIN u BY <1>1, <1>4 DEF s, u
  <1>6. SerializeIds(u) = SerializeIds(s) BY <1>1, <1>5 DEF SerializeIds, s, u
  <1> QED BY <1>4, <1>6 DEF s, u

\* Session values need valid parameters.
LEMMA ValuesNeedValid ==
  ASSUME NEW ctx, Succeeds(GetSessionValues(ctx))
  PROVE  ValidContext(ctx)
  <1> DEFINE valid == ValidateSessionParams(ctx.n, ctx.t, ctx.ids, ctx.knows_pubshares,
                                            ctx.pubshares, ctx.thresh_pk)
  <1>1. valid = Returns(TRUE) \/ IsValueError(valid) BY ParamsChecked
  <1>2. ~ Succeeds(valid) => GetSessionValues(ctx) = valid BY DEF GetSessionValues, Then
  <1> HIDE DEF valid
  <1>3. valid = Returns(TRUE) BY <1>1, <1>2, BlamesNobody
  <1> QED BY <1>3 DEF ValidContext, valid

\* All that a session computes is the same.
LEMMA ValuesAlike ==
  ASSUME NEW ctx, NEW other, SameButOrder(ctx, other), ValidContext(ctx), ValidContext(other)
  PROVE  GetSessionValues(other) = GetSessionValues(ctx)
  <1>1. /\ other.thresh_pk = ctx.thresh_pk /\ other.tweaks = ctx.tweaks
        /\ other.is_xonly = ctx.is_xonly /\ other.aggnonce = ctx.aggnonce /\ other.msg = ctx.msg
    BY DEF SameButOrder
  <1>2. Len(other.ids) = Len(ctx.ids) /\ SerializeIds(other.ids) = SerializeIds(ctx.ids)
    BY ListedAlike
  <1>3. \A tweak_ctx : ValuesOfKey(other, tweak_ctx) = ValuesOfKey(ctx, tweak_ctx)
    BY <1>1, <1>2 DEF ValuesOfKey
  <1> QED BY <1>1, <1>3, SameValuesOfKey

\* What sign returns is the partial signature under the session values.
LEMMA SignReturnsPsig ==
  ASSUME NEW ctx, NEW secnonce, NEW secshare, NEW my_id,
         Succeeds(SignResult(secnonce, secshare, my_id, ctx))
  PROVE  /\ Succeeds(GetSessionValues(ctx))
         /\ SignResult(secnonce, secshare, my_id, ctx)
              = Returns(PartialSig(secnonce[1], secnonce[2], secshare, my_id, ctx.ids,
                                   GetSessionValues(ctx).val))
  <1> DEFINE values == GetSessionValues(ctx)
             r == SignResult(secnonce, secshare, my_id, ctx)
             psig == PartialSig(secnonce[1], secnonce[2], secshare, my_id, ctx.ids, values.val)
             signed == SignWith(secnonce, secshare, my_id, ctx, values.val)
  <1>1. r = IF Succeeds(values) THEN signed ELSE values BY DEF SignResult, Then
  <1>2. IsValueError(signed) \/ signed \in {Returns(psig), AssertionError}
    <2> HIDE DEF values
    <2> QED BY ValueErrorsAre DEF SignWith
  <1>3. Succeeds(r) OBVIOUS
  <1> HIDE DEF values, r, psig, signed
  <1>4. Succeeds(values) /\ r = Returns(psig) BY <1>1, <1>2, <1>3, BlamesNobody
  <1> QED BY <1>4 DEF values, r, psig

\* A signer that gets two signatures gets the same.
LEMMA SignedAlike ==
  ASSUME NEW ctx, NEW other, SameButOrder(ctx, other), NEW secnonce, NEW secshare, NEW my_id,
         Succeeds(SignResult(secnonce, secshare, my_id, ctx)),
         Succeeds(SignResult(secnonce, secshare, my_id, other))
  PROVE  SignResult(secnonce, secshare, my_id, other) = SignResult(secnonce, secshare, my_id, ctx)
  <1> DEFINE v == GetSessionValues(ctx).val
             w == GetSessionValues(other).val
             psig(ids, x) == PartialSig(secnonce[1], secnonce[2], secshare, my_id, ids, x)
  <1>1. /\ Succeeds(GetSessionValues(ctx))
        /\ SignResult(secnonce, secshare, my_id, ctx) = Returns(psig(ctx.ids, v))
    BY SignReturnsPsig
  <1>2. /\ Succeeds(GetSessionValues(other))
        /\ SignResult(secnonce, secshare, my_id, other) = Returns(psig(other.ids, w))
    BY SignReturnsPsig
  <1>3. ValidContext(ctx) /\ ValidContext(other) BY <1>1, <1>2, ValuesNeedValid
  <1>4. v = w BY <1>3, ValuesAlike
  <1> HIDE DEF v, w
  <1>5. ToSet(other.ids) = ToSet(ctx.ids) BY DEF SameButOrder
  <1>6. psig(ctx.ids, v) = psig(other.ids, v)
    BY <1>5 DEF PartialSig, DeriveInterpolatingValue
  <1> QED BY <1>1, <1>2, <1>4, <1>6

\* What two cases with the same question have in common.
SameQuestion(a, b) ==
  /\ ToSet(a.ids) = ToSet(b.ids) /\ a.my_id = b.my_id /\ a.secshare = b.secshare
  /\ a.secnonce = b.secnonce /\ a.aggnonce = b.aggnonce /\ a.tweaks = b.tweaks
  /\ a.is_xonly = b.is_xonly /\ a.msg = b.msg /\ a.aux_rand = b.aux_rand

\* The question fixes all of that.
LEMMA QuestionBinds ==
  ASSUME NEW a, DOMAIN a = CaseFields, NEW b, DOMAIN b = CaseFields, Question(a) = Question(b)
  PROVE  SameQuestion(a, b)
  <1>1. ASSUME NEW c, DOMAIN c = CaseFields
        PROVE  LET q == Question(c)
               IN  /\ q.ids = ToSet(c.ids) /\ q.my_id = c.my_id /\ q.secshare = c.secshare
                   /\ q.secnonce = c.secnonce /\ q.aggnonce = c.aggnonce /\ q.tweaks = c.tweaks
                   /\ q.is_xonly = c.is_xonly /\ q.msg = c.msg /\ q.aux_rand = c.aux_rand
    BY <1>1 DEF Question, CaseFields
  <1> DEFINE q == Question(a)
             r == Question(b)
  <1>2. /\ q.ids = ToSet(a.ids) /\ q.my_id = a.my_id /\ q.secshare = a.secshare
        /\ q.secnonce = a.secnonce /\ q.aggnonce = a.aggnonce /\ q.tweaks = a.tweaks
        /\ q.is_xonly = a.is_xonly /\ q.msg = a.msg /\ q.aux_rand = a.aux_rand
    BY <1>1
  <1>3. /\ r.ids = ToSet(b.ids) /\ r.my_id = b.my_id /\ r.secshare = b.secshare
        /\ r.secnonce = b.secnonce /\ r.aggnonce = b.aggnonce /\ r.tweaks = b.tweaks
        /\ r.is_xonly = b.is_xonly /\ r.msg = b.msg /\ r.aux_rand = b.aux_rand
    BY <1>1
  <1>4. q = r OBVIOUS
  <1> HIDE DEF q, r
  <1> QED BY <1>2, <1>3, <1>4 DEF SameQuestion

\* Their sessions differ in the order of the signers at most, under whichever
\* aggregate nonce.
LEMMA SessionsAlike ==
  ASSUME NEW in, NEW a, CaseLists(a), NEW b, CaseLists(b), SameQuestion(a, b)
  PROVE  /\ SameButOrder(Session(in, a), Session(in, b))
         /\ \A agg : SameButOrder(UnderAggnonce(Session(in, a), agg),
                                  UnderAggnonce(Session(in, b), agg))
  <1>1. /\ ToSet(a.ids) = ToSet(b.ids) /\ a.aggnonce = b.aggnonce /\ a.tweaks = b.tweaks
        /\ a.is_xonly = b.is_xonly /\ a.msg = b.msg
    BY DEF SameQuestion
  <1>2. CaseLists(Session(in, a)) /\ CaseLists(Session(in, b)) BY SessionOfCase
  <1>3. ASSUME NEW agg
        PROVE  /\ CaseLists(UnderAggnonce(Session(in, a), agg))
               /\ CaseLists(UnderAggnonce(Session(in, b), agg))
    BY OtherSessionOfCase
  <1>4. SameButOrder(Session(in, a), Session(in, b)) BY <1>1, <1>2 DEF SameButOrder, Session
  <1>5. ASSUME NEW agg
        PROVE  SameButOrder(UnderAggnonce(Session(in, a), agg), UnderAggnonce(Session(in, b), agg))
    <2> DEFINE s == UnderAggnonce(Session(in, a), agg)
               u == UnderAggnonce(Session(in, b), agg)
    <2>1. CaseLists(s) /\ CaseLists(u) BY <1>3
    <2>2. /\ s.ids = a.ids /\ s.tweaks = a.tweaks /\ s.is_xonly = a.is_xonly /\ s.msg = a.msg
          /\ s.aggnonce = agg /\ s.thresh_pk = in.thresh_pk
      BY DEF UnderAggnonce, Session
    <2>3. /\ u.ids = b.ids /\ u.tweaks = b.tweaks /\ u.is_xonly = b.is_xonly /\ u.msg = b.msg
          /\ u.aggnonce = agg /\ u.thresh_pk = in.thresh_pk
      BY DEF UnderAggnonce, Session
    <2> HIDE DEF s, u
    <2>4. SameButOrder(s, u) BY <1>1, <2>1, <2>2, <2>3 DEF SameButOrder
    <2> QED BY <2>4 DEF s, u
  <1> QED BY <1>4, <1>5

\* The answers of sign.
LEMMA SignsAlike ==
  ASSUME NEW in, NEW pool, NEW a, Listed(in, a), NEW b, Listed(in, b),
         a.call = "sign", b.call = "sign", SameQuestion(a, b),
         Succeeds(Run(in, pool, a).result), Succeeds(Run(in, pool, b).result)
  PROVE  Run(in, pool, a).result = Run(in, pool, b).result
  <1> DEFINE secnonce == pool[a.secnonce]
             secshare == in.secshares[a.secshare]
             sign(ctx) == SignResult(secnonce, secshare, a.my_id, ctx)
             s == Session(in, a)
             u == Session(in, b)
  <1>1. Run(in, pool, a).result = sign(s) BY DEF Run, AfterSign, Sign
  <1>2. Run(in, pool, b).result = sign(u)
    <2>1. a.secnonce = b.secnonce /\ a.secshare = b.secshare /\ a.my_id = b.my_id
      BY DEF SameQuestion
    <2> QED BY <2>1 DEF Run, AfterSign, Sign
  <1>3. CaseLists(a) /\ CaseLists(b) BY DEF Listed
  <1>4. SameButOrder(s, u) BY <1>3, SessionsAlike
  <1> HIDE DEF secnonce, secshare, s, u
  <1>5. Succeeds(sign(s)) /\ Succeeds(sign(u)) BY <1>1, <1>2
  <1>6. sign(u) = sign(s) BY <1>4, <1>5, SignedAlike
  <1> HIDE DEF sign
  <1> QED BY <1>1, <1>2, <1>6

\* A list with its last element spoilt or missing gives itself away.
LEMMA NoneSpoilt ==
  ASSUME NEW s \in Seq(Scalars), NEW d, d \in {s, Front(s) \o <<Order>>, Front(s)},
         Len(d) = Len(s), \A j \in DOMAIN d : d[j] \in Scalars
  PROVE  d = s
  <1> DEFINE f == Front(s)
             o == <<Order>>
             n == Len(s)
  <1>1. n \in Nat /\ DOMAIN s = 1 .. n /\ \A k \in 1 .. n - 1 : s[k] \in Scalars OBVIOUS
  <1>2. CASE n = 0
    <2>1. s = <<>> BY <1>2
    <2>2. f = <<>> BY <1>2, <2>1 DEF Front
    <2>3. <<>> \o <<Order>> = <<Order>> /\ Len(<<Order>>) = 1 /\ Len(<<>>) = 0
      BY OrderAssumption
    <2> QED BY <2>1, <2>2, <2>3
  <1>3. CASE n # 0
    <2>1. n - 1 \in Nat /\ n - 1 <= n /\ n - 1 # n BY <1>1, <1>3
    <2>2. f \in Seq(Scalars) /\ Len(f) = n - 1
      <3> DEFINE m == n - 1
      <3>1. m \in Nat /\ m <= Len(s) BY <2>1
      <3>2. f = SubSeq(s, 1, m) BY DEF Front
      <3> HIDE DEF f, m
      <3>3. SubSeq(s, 1, m) \in Seq(Scalars) BY <3>1
      <3>4. Len(SubSeq(s, 1, m)) = m BY <3>1
      <3> QED BY <3>2, <3>3, <3>4 DEF m
    <2>3. d # f BY <2>1, <2>2
    <2>4. d # f \o o
      <3>1. f \in Seq(Int) /\ o \in Seq(Int) /\ Len(o) = 1 /\ o[1] = Order
        <4>1. Scalars \subseteq Int BY Closed
        <4>2. Order \in Int BY OrderAssumption
        <4>3. o \in Seq(Int) /\ Len(o) = 1 /\ o[1] = Order BY <4>2
        <4> HIDE DEF f, o
        <4>4. f \in Seq(Int) BY <2>2, <4>1, ListOfMore
        <4> QED BY <4>3, <4>4
      <3> DEFINE g == f \o o
      <3> HIDE DEF f, o, n
      <3>2. Len(g) = Len(f) + Len(o) /\ g \in Seq(Int) BY <3>1, ConcatProperties
      <3>3. \A k \in 1 .. Len(f) + Len(o) : g[k] = IF k <= Len(f) THEN f[k] ELSE o[k - Len(f)]
        BY <3>1, ConcatProperties
      <3>4. n \in 1 .. Len(f) + Len(o) /\ ~ n <= Len(f) /\ n - Len(f) = 1
        BY <1>1, <2>1, <2>2, <3>1
      <3>5. g[n] = Order BY <3>1, <3>3, <3>4
      <3>6. n \in DOMAIN g BY <3>2, <3>4
      <3>7. Order \notin Scalars BY OrderAssumption DEF Scalars
      <3> QED BY <3>5, <3>6, <3>7
    <2> QED BY <2>3, <2>4
  <1> QED BY <1>2, <1>3

\* The aggregates: each signer's partial signature is the same, and their sum is
\* that of the same summands.
LEMMA AggregatesAll ==
  ASSUME NEW in, RealEntries(in), NEW c, Listed(in, c), c.call = "agg",
         Succeeds(PartialSigAgg(c.psigs, Session(in, c)))
  PROVE  LET ctx == Session(in, c)
             v == GetSessionValues(ctx).val
         IN  /\ ValidContext(ctx) /\ CaseLists(ctx) /\ ctx.ids = c.ids
             /\ PartialSigAgg(c.psigs, ctx)
                  = Returns(<<ToXonly(v.R), Add(SumOver(DOMAIN c.psigs, c.psigs), TweakSummand(v))>>)
             /\ DOMAIN c.psigs = DOMAIN c.ids
             /\ \A k \in DOMAIN c.ids :
                  /\ c.psigs[k] = PartialSig(in.secnonces[c.ids[k]][1], in.secnonces[c.ids[k]][2],
                                             in.secshares[c.ids[k]], c.ids[k], c.ids, v)
                  /\ c.psigs[k] \in Scalars
  <1> DEFINE ctx == Session(in, c)
             values == GetSessionValues(ctx)
             v == values.val
             psigs == c.psigs
             bad == {i \in DOMAIN psigs : ~ ScalarInRange(psigs[i])}
             sum(w) == Add(SumOver(DOMAIN psigs, psigs), TweakSummand(w))
             aggregate(w) == IF Len(psigs) # Len(ctx.ids) THEN ValueError("psig count")
                             ELSE IF bad # {} THEN InvalidContribution(FirstOf(bad), "psig")
                             ELSE Returns(<<ToXonly(w.R), sum(w)>>)
             r == PartialSigAgg(psigs, ctx)
             s == Psigs(in, c)
  <1>1. r = IF Succeeds(values) THEN aggregate(v) ELSE values BY DEF PartialSigAgg, Then
  <1>2. CaseLists(c) /\ Aggregation(in, c) BY DEF Listed
  <1>3. CaseLists(ctx) /\ ctx.ids = c.ids BY <1>2, SessionOfCase
  <1>4. /\ SignersOf(in.n, c.ids) /\ c.pubshares = c.ids
        /\ psigs \in {s, Front(s) \o <<Order>>, Front(s)}
    BY <1>2 DEF Aggregation
  <1>5. /\ Succeeds(values) /\ Len(psigs) = Len(c.ids) /\ bad = {}
        /\ r = Returns(<<ToXonly(v.R), sum(v)>>)
    <2>1. Succeeds(r) OBVIOUS
    <2> HIDE DEF r, values, v, bad, sum, ctx
    <2> QED BY <1>1, <1>3, <2>1, BlamesNobody
  <1>6. ValidContext(ctx) BY <1>5, ValuesNeedValid
  <1>7. \A k \in DOMAIN c.ids :
          /\ s[k] = PartialSig(in.secnonces[c.ids[k]][1], in.secnonces[c.ids[k]][2],
                               in.secshares[c.ids[k]], c.ids[k], c.ids, v)
          /\ s[k] \in Scalars
    BY <1>2, <1>4, <1>5, AllSignersSign
  <1>8. s \in Seq(Scalars) /\ Len(s) = Len(c.ids) /\ DOMAIN s = DOMAIN c.ids
    <2>1. c.ids \in Seq(Nat) BY <1>2 DEF CaseLists
    <2> DEFINE f == [k \in 1 .. Len(c.ids) |-> s[k]]
    <2>2. s = f BY <2>1 DEF Psigs
    <2> HIDE DEF s
    <2>3. f \in Seq(Scalars) /\ Len(f) = Len(c.ids) /\ DOMAIN f = DOMAIN c.ids BY <1>7, <2>1
    <2> HIDE DEF f
    <2> QED BY <2>2, <2>3
  <1>9. psigs = s
    <2> HIDE DEF s, psigs
    <2>1. \A j \in DOMAIN psigs : psigs[j] \in Scalars BY <1>5 DEF ScalarInRange
    <2>2. Len(psigs) = Len(s) BY <1>5, <1>8
    <2> QED BY <1>4, <1>8, <2>1, <2>2, NoneSpoilt
  <1>10. DOMAIN psigs = DOMAIN c.ids BY <1>8, <1>9
  <1> HIDE DEF s, psigs, v, ctx, r
  <1> QED BY <1>3, <1>5, <1>6, <1>7, <1>9, <1>10 DEF psigs, ctx, v, values, r

\* The answers of partial_sig_agg.
LEMMA AggregatesAlike ==
  ASSUME NEW in, RealEntries(in), NEW pool, NEW a, Listed(in, a), NEW b, Listed(in, b),
         a.call = "agg", b.call = "agg", SameQuestion(a, b),
         Succeeds(Run(in, pool, a).result), Succeeds(Run(in, pool, b).result)
  PROVE  Run(in, pool, a).result = Run(in, pool, b).result
  <1> DEFINE s == Session(in, a)
             u == Session(in, b)
             v == GetSessionValues(s).val
             w == GetSessionValues(u).val
             f == a.psigs
             g == b.psigs
             S == DOMAIN f
             I == DOMAIN g
             psig(id, ids, x) == PartialSig(in.secnonces[id][1], in.secnonces[id][2],
                                            in.secshares[id], id, ids, x)
  <1>1. Run(in, pool, a).result = PartialSigAgg(f, s) BY DEF Run
  <1>2. Run(in, pool, b).result = PartialSigAgg(g, u) BY DEF Run
  <1>3. /\ ValidContext(s) /\ s.ids = a.ids /\ S = DOMAIN a.ids
        /\ PartialSigAgg(f, s) = Returns(<<ToXonly(v.R), Add(SumOver(S, f), TweakSummand(v))>>)
        /\ \A k \in DOMAIN a.ids : f[k] = psig(a.ids[k], a.ids, v) /\ f[k] \in Scalars
    <2>1. Succeeds(PartialSigAgg(f, s)) BY <1>1
    <2> QED BY <2>1, AggregatesAll
  <1>4. /\ ValidContext(u) /\ u.ids = b.ids /\ I = DOMAIN b.ids
        /\ PartialSigAgg(g, u) = Returns(<<ToXonly(w.R), Add(SumOver(I, g), TweakSummand(w))>>)
        /\ \A k \in DOMAIN b.ids : g[k] = psig(b.ids[k], b.ids, w) /\ g[k] \in Scalars
    <2>1. Succeeds(PartialSigAgg(g, u)) BY <1>2
    <2> QED BY <2>1, AggregatesAll
  <1>5. CaseLists(a) /\ CaseLists(b) BY DEF Listed
  <1>6. SameButOrder(s, u) BY <1>5, SessionsAlike
  <1> HIDE DEF s, u
  <1>7. v = w BY <1>3, <1>4, <1>6, ValuesAlike
  <1>8. PICK p \in Bijection(DOMAIN a.ids, DOMAIN b.ids) :
          \A k \in DOMAIN a.ids : a.ids[k] = b.ids[p[k]]
    BY <1>3, <1>4, <1>6, ListedAlike
  <1>9. ToSet(a.ids) = ToSet(b.ids) BY DEF SameQuestion
  <1>10. \A id : psig(id, a.ids, v) = psig(id, b.ids, v)
    BY <1>9 DEF PartialSig, DeriveInterpolatingValue
  <1> HIDE DEF v, w, f, g, S, I, psig
  <1>11. p \in Bijection(S, I) /\ p \in [S -> I]
    <2>1. p \in Bijection(S, I) BY <1>3, <1>4
    <2> QED BY <2>1 DEF Bijection, Injection
  <1>12. \A k \in S : f[k] = g[p[k]]
    <2> TAKE k \in S
    <2>1. p[k] \in I BY <1>11
    <2>2. f[k] = psig(a.ids[k], b.ids, v) BY <1>3, <1>10
    <2>3. g[p[k]] = psig(b.ids[p[k]], b.ids, v) BY <1>4, <1>7, <2>1
    <2> QED BY <1>3, <1>8, <2>2, <2>3
  <1>13. IsFiniteSet(S) /\ IsFiniteSet(I)
    <2>1. \A l \in Seq(Nat) : IsFiniteSet(DOMAIN l)
      <3> TAKE l \in Seq(Nat)
      <3>1. PICK m \in Nat : DOMAIN l = 1 .. m OBVIOUS
      <3>2. IsFiniteSet(1 .. m) BY FS_Interval
      <3> QED BY <3>1, <3>2
    <2>2. a.ids \in Seq(Nat) /\ b.ids \in Seq(Nat) BY <1>5 DEF CaseLists
    <2> QED BY <1>3, <1>4, <2>1, <2>2
  <1>14. ScalarsOn(I, g) BY <1>4 DEF ScalarsOn
  <1>15. SumOver(S, f) = SumOver(I, g) BY <1>11, <1>12, <1>13, <1>14, SumReindexed
  <1> QED BY <1>1, <1>2, <1>3, <1>4, <1>7, <1>15

\* The steps of deterministic_sign on a case: the tweaked key, the nonce derived
\* under it, the aggregate nonce with it, and the signature.
DetTweaked(in, c) ==
  LET ctx == Session(in, c) IN ThreshPubkeyAndTweak(ctx.thresh_pk, ctx.tweaks, ctx.is_xonly)

DetNonce(in, c) == DeriveNonce(InputsUnder(DetRequest(in, c), DetTweaked(in, c).val))

DetSummed(in, c) == AggnonceWith(DetNonce(in, c).val.pubnonce, c.aggnonce)

DetSigned(in, c) ==
  SignResult(DetNonce(in, c).val.secnonce, in.secshares[c.secshare], c.my_id,
             UnderAggnonce(Session(in, c), DetSummed(in, c).val))

\* What a deterministic signer answers, and under which nonce.
LEMMA DetReturnsPsig ==
  ASSUME NEW in, NEW c, Listed(in, c), Succeeds(DeterministicSign(DetRequest(in, c)))
  PROVE  /\ ValidContext(Session(in, c)) /\ Succeeds(DetSigned(in, c))
         /\ DeterministicSign(DetRequest(in, c))
              = Returns([pubnonce |-> DetNonce(in, c).val.pubnonce, psig |-> DetSigned(in, c).val])
  <1> DEFINE ctx == Session(in, c)
             request == DetRequest(in, c)
             valid == ValidateSessionParams(ctx.n, ctx.t, ctx.ids, ctx.knows_pubshares,
                                            ctx.pubshares, ctx.thresh_pk)
             tweaked == DetTweaked(in, c)
             derived == DetNonce(in, c)
             nonce == derived.val
             summed == DetSummed(in, c)
             signed == DetSigned(in, c)
             under == SignUnder(request, nonce)
             answer == Returns([pubnonce |-> nonce.pubnonce, psig |-> signed.val])
             r == DeterministicSign(request)
  <1>1. /\ request.ctx = ctx /\ request.aggothernonce = c.aggnonce /\ request.my_id = c.my_id
        /\ request.secshare = in.secshares[c.secshare]
    BY DEF DetRequest
  <1>2. r = IF Succeeds(valid)
            THEN IF Succeeds(tweaked)
                 THEN IF Succeeds(derived) THEN under ELSE derived
                 ELSE tweaked
            ELSE valid
    <2>1. tweaked = ThreshPubkeyAndTweak(ctx.thresh_pk, ctx.tweaks, ctx.is_xonly) BY DEF DetTweaked
    <2>2. derived = DeriveNonce(InputsUnder(request, tweaked.val)) BY DEF DetNonce
    <2> HIDE DEF ctx, request
    <2> QED BY <1>1, <2>1, <2>2 DEF DeterministicSign, Then
  <1>3. under = IF Succeeds(summed) THEN IF Succeeds(signed) THEN answer ELSE signed ELSE summed
    <2>1. summed = AggnonceWith(nonce.pubnonce, request.aggothernonce) BY <1>1 DEF DetSummed
    <2>2. signed = SignResult(nonce.secnonce, request.secshare, request.my_id,
                              UnderAggnonce(request.ctx, summed.val))
      BY <1>1 DEF DetSigned
    <2> HIDE DEF ctx, request, nonce, summed, signed
    <2> QED BY <2>1, <2>2 DEF SignUnder, Then, UnderAggnonce
  <1>4. valid = Returns(TRUE) \/ IsValueError(valid) BY ParamsChecked
  <1>5. Succeeds(r) OBVIOUS
  <1>6. valid = Returns(TRUE) /\ Succeeds(signed) /\ r = answer
    <2> HIDE DEF valid, tweaked, derived, nonce, summed, signed, under, answer, r
    <2> QED BY <1>2, <1>3, <1>4, <1>5, BlamesNobody
  <1>7. ValidContext(ctx) BY <1>6 DEF ValidContext
  <1> QED BY <1>6, <1>7

\* The answers of deterministic_sign: the nonce is derived from the same inputs.
LEMMA DetSignsAlike ==
  ASSUME NEW in, NEW pool, NEW a, Listed(in, a), NEW b, Listed(in, b),
         a.call = "det", b.call = "det", SameQuestion(a, b),
         Succeeds(Run(in, pool, a).result), Succeeds(Run(in, pool, b).result)
  PROVE  Run(in, pool, a).result = Run(in, pool, b).result
  <1> DEFINE s == Session(in, a)
             u == Session(in, b)
             t == DetTweaked(in, a).val
             nonce == DetNonce(in, a).val
             agg == DetSummed(in, a).val
             secshare == in.secshares[a.secshare]
  <1>1. Run(in, pool, a).result = DeterministicSign(DetRequest(in, a)) BY DEF Run
  <1>2. Run(in, pool, b).result = DeterministicSign(DetRequest(in, b)) BY DEF Run
  <1>3. /\ a.aggnonce = b.aggnonce /\ a.secshare = b.secshare /\ a.my_id = b.my_id
        /\ a.aux_rand = b.aux_rand /\ a.msg = b.msg /\ a.tweaks = b.tweaks
        /\ a.is_xonly = b.is_xonly
    BY DEF SameQuestion
  <1>4. /\ ValidContext(s) /\ Succeeds(DetSigned(in, a))
        /\ DeterministicSign(DetRequest(in, a))
             = Returns([pubnonce |-> nonce.pubnonce, psig |-> DetSigned(in, a).val])
    BY <1>1, DetReturnsPsig
  <1>5. /\ ValidContext(u) /\ Succeeds(DetSigned(in, b))
        /\ DeterministicSign(DetRequest(in, b))
             = Returns([pubnonce |-> DetNonce(in, b).val.pubnonce, psig |-> DetSigned(in, b).val])
    BY <1>2, DetReturnsPsig
  <1>6. CaseLists(a) /\ CaseLists(b) BY DEF Listed
  <1>7. SameButOrder(s, u) /\ SameButOrder(UnderAggnonce(s, agg), UnderAggnonce(u, agg))
    BY <1>6, SessionsAlike
  <1>8. s.ids = a.ids /\ u.ids = b.ids /\ s.msg = a.msg /\ u.msg = b.msg BY DEF Session
  <1>9. DetTweaked(in, b) = DetTweaked(in, a) BY <1>3 DEF Session, DetTweaked
  <1>10. Len(u.ids) = Len(s.ids) /\ SerializeIds(u.ids) = SerializeIds(s.ids)
    <2> HIDE DEF s, u
    <2> QED BY <1>4, <1>5, <1>7, ListedAlike
  <1>11. DetNonce(in, b) = DetNonce(in, a)
    <2>1. ASSUME NEW c
          PROVE  LET q == DetRequest(in, c)
                 IN  /\ q.secshare = in.secshares[c.secshare] /\ q.my_id = c.my_id
                     /\ q.aggothernonce = c.aggnonce /\ q.aux_rand = c.aux_rand
                     /\ q.ctx = Session(in, c)
      BY DEF DetRequest
    <2> HIDE DEF t, s, u
    <2>2. InputsUnder(DetRequest(in, a), t) = InputsUnder(DetRequest(in, b), t)
      BY <1>3, <1>8, <1>10, <2>1 DEF InputsUnder, DetNonceInputs, s, u
    <2> QED BY <1>9, <2>2 DEF DetNonce, t
  <1>12. DetSummed(in, b) = DetSummed(in, a) BY <1>3, <1>11 DEF DetSummed
  <1>13. DetSigned(in, b) = DetSigned(in, a)
    <2> DEFINE sign(ctx) == SignResult(nonce.secnonce, secshare, a.my_id, ctx)
               s2 == UnderAggnonce(s, agg)
               u2 == UnderAggnonce(u, agg)
    <2>1. DetSigned(in, a) = sign(s2) BY DEF DetSigned
    <2>2. DetSigned(in, b) = sign(u2) BY <1>3, <1>11, <1>12 DEF DetSigned
    <2>3. SameButOrder(s2, u2) BY <1>7
    <2>4. Succeeds(sign(s2)) /\ Succeeds(sign(u2)) BY <1>4, <1>5, <2>1, <2>2
    <2> HIDE DEF s2, u2, nonce, secshare
    <2>5. sign(u2) = sign(s2) BY <2>3, <2>4, SignedAlike
    <2> QED BY <2>1, <2>2, <2>5
  <1> QED BY <1>1, <1>2, <1>4, <1>5, <1>11, <1>13

(* Neither the order in which the signers are listed nor whether their public *)
(* shares are given changes a partial signature, an aggregate or the answer  *)
(* of a deterministic signer, in any group and whatever the hashes return    *)
(* (SameAnswers; sign_verify.py:236 and 247).                               *)
THEOREM SameAnswersTheorem == CasesSpec => []SameAnswers
  <1>1. CasesInv => SameAnswers
    <2> SUFFICES ASSUME CasesInv PROVE SameAnswers OBVIOUS
    <2>1. PICK i \in DOMAIN Configs : inputs = Inputs[i] BY DEF CasesInv
    <2>2. RealEntries(inputs) BY <2>1, BuiltGroup
    <2>3. PICK S : done \in Seq(S) /\ \A d \in S : Recorded(inputs, d)
      BY DEF CasesInv, RecordedList
    <2>4. ASSUME NEW j \in DOMAIN done, NEW k \in DOMAIN done,
                 done[j].case.call \in {"sign", "agg", "det"}, done[k].case.call = done[j].case.call,
                 Succeeds(done[j].result), Succeeds(done[k].result),
                 Question(done[j].case) = Question(done[k].case)
          PROVE  done[j].result = done[k].result
      <3> DEFINE a == done[j].case
                 b == done[k].case
                 pool == inputs.secnonces
      <3>1. Recorded(inputs, done[j]) /\ Recorded(inputs, done[k]) BY <2>3
      <3>2. /\ Listed(inputs, a) /\ done[j].result = Run(inputs, pool, a).result
            /\ Listed(inputs, b) /\ done[k].result = Run(inputs, pool, b).result
        BY <3>1 DEF Recorded
      <3>3. a.call \in {"sign", "agg", "det"} /\ b.call = a.call BY <2>4
      <3>4. Question(a) = Question(b) BY <2>4
      <3>5. Succeeds(Run(inputs, pool, a).result) /\ Succeeds(Run(inputs, pool, b).result)
        BY <2>4, <3>2
      <3> HIDE DEF a, b, pool
      <3>6. SameQuestion(a, b) BY <3>2, <3>3, <3>4, QuestionBinds DEF Listed
      <3>7. Run(inputs, pool, a).result = Run(inputs, pool, b).result
        BY <2>2, <3>2, <3>3, <3>5, <3>6, SignsAlike, AggregatesAlike, DetSignsAlike
      <3> QED BY <3>2, <3>7
    <2> QED BY <2>4 DEF SameAnswers
  <1> QED BY <1>1, CasesInvariant, PTL
=============================================================================
