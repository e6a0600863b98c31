-------------------------- MODULE SiteSecrets_proofs --------------------------
(***************************************************************************)
(* Proofs about SiteSecrets, for any passwords and any environment.        *)
(***************************************************************************)
EXTENDS SiteSecrets, TLAPS

\* The invariant holds initially: no file, no volume, no job.
LEMMA InvInit == Init => Inv
BY SiteSecretsAssumption
   DEF Init, Inv, TypeOK, JobInv, FilesInv, VolumeInv, Files, Kinds, JobSteps, Merged

\* The steps up to the merge leave the files alone, but for Stage, which forgets them.
LEMMA SourceSteps ==
  ASSUME Inv, StartJob \/ Stage \/ Clone \/ Validate
  PROVE  Inv'
<1> USE SiteSecretsAssumption DEF Inv, TypeOK, Files, Kinds, JobSteps, Merged, Step, EndJob,
      dirVars, dockerVars, jobVars
<1>1. CASE StartJob
  BY <1>1 DEF StartJob, JobInv, FilesInv, VolumeInv, Primary, Known, Content
<1>2. CASE Stage
  BY <1>2 DEF Stage, Loses, JobInv, FilesInv, VolumeInv, Primary, Known, Content
<1>3. CASE Clone
  BY <1>3 DEF Clone, JobInv, FilesInv, VolumeInv, Primary, Known, Content
<1>4. CASE Validate
  BY <1>4 DEF Validate, JobInv, FilesInv, VolumeInv, Primary, Known, Content
<1> QED BY <1>1, <1>2, <1>3, <1>4

\* A job merges the password of the volume, if there is one, and writes it back.
LEMMA GenerateSteps ==
  ASSUME Inv, Merge \/ OpenCompose \/ WriteCompose \/ OpenSecrets \/ WriteSecrets
  PROVE  Inv'
<1> USE SiteSecretsAssumption DEF Inv, TypeOK, Files, Kinds, JobSteps, Merged, Step, EndJob,
      dirVars, dockerVars, jobVars
<1>1. CASE Merge
  BY <1>1 DEF Merge, JobInv, FilesInv, VolumeInv, Primary, Known, Content
<1>2. CASE OpenCompose
  BY <1>2 DEF OpenCompose, JobInv, FilesInv, VolumeInv, Primary, Known, Content
<1>3. CASE WriteCompose
  BY <1>3 DEF WriteCompose, Written, JobInv, FilesInv, VolumeInv, Primary, Known, Content, Missing, Torn
<1>4. CASE OpenSecrets
  BY <1>4 DEF OpenSecrets, JobInv, FilesInv, VolumeInv, Primary, Known, Content
<1>5. CASE WriteSecrets
  BY <1>5 DEF WriteSecrets, Written, JobInv, FilesInv, VolumeInv, Primary, Known, Content
<1> QED BY <1>1, <1>2, <1>3, <1>4, <1>5

\* Starting the containers initialises an empty volume with what both files say.
LEMMA UpStep ==
  ASSUME Inv, ComposeUp
  PROVE  Inv'
BY SiteSecretsAssumption
   DEF ComposeUp, Inv, TypeOK, Files, Kinds, JobSteps, Merged, EndJob, dirVars, dockerVars,
       JobInv, FilesInv, VolumeInv, Primary, Known, Content, Missing, Torn

\* A job that dies leaves the password in a file, or is known to have lost it.
LEMMA KilledStep ==
  ASSUME Inv, Killed
  PROVE  Inv'
BY SiteSecretsAssumption
   DEF Killed, Loses, Inv, TypeOK, Files, Kinds, JobSteps, Merged, EndJob, dirVars, dockerVars,
       JobInv, FilesInv, VolumeInv, Primary, Known, Content

\* An import is known to lose the password; the rest of the panel leaves the files alone.
LEMMA PanelSteps ==
  ASSUME Inv, ImportRemove \/ ImportClone \/ DeleteSources
  PROVE  Inv'
<1> USE SiteSecretsAssumption DEF Inv, TypeOK, Files, Kinds, JobSteps, Merged,
      dirVars, dockerVars, jobVars
<1>1. CASE ImportRemove
  <2>1. TypeOK' /\ JobInv'
    BY <1>1 DEF ImportRemove, Loses, JobInv
  <2>2. FilesInv'
    BY <1>1 DEF ImportRemove, FilesInv, Missing, Torn
  <2>3. VolumeInv'
    BY <1>1 DEF ImportRemove, Loses, VolumeInv
  <2> QED BY <2>1, <2>2, <2>3
<1>2. CASE ImportClone
  BY <1>2 DEF ImportClone, JobInv, FilesInv, VolumeInv, Primary, Known, Content
<1>3. CASE DeleteSources
  BY <1>3 DEF DeleteSources, JobInv, FilesInv, VolumeInv, Primary, Known, Content
<1> QED BY <1>1, <1>2, <1>3

\* Every step preserves the invariant.
LEMMA InvStep == Inv /\ [Next]_vars => Inv'
<1> SUFFICES ASSUME Inv, [Next]_vars PROVE Inv'
  OBVIOUS
<1>1. CASE StartJob \/ Stage \/ Clone \/ Validate
  BY <1>1, SourceSteps
<1>2. CASE Merge \/ OpenCompose \/ WriteCompose \/ OpenSecrets \/ WriteSecrets
  BY <1>2, GenerateSteps
<1>3. CASE ComposeUp
  BY <1>3, UpStep
<1>4. CASE Crash \/ DiskFull
  BY <1>4, KilledStep DEF Crash, DiskFull
<1>5. CASE ImportRemove \/ ImportClone \/ DeleteSources
  BY <1>5, PanelSteps
<1>6. CASE UNCHANGED vars
  BY <1>6 DEF vars, dirVars, dockerVars, jobVars, Inv, TypeOK, JobInv, FilesInv, VolumeInv,
              Primary, Known, Content
<1> QED BY <1>1, <1>2, <1>3, <1>4, <1>5, <1>6 DEF Next, JobStep

\* The invariant holds in every reachable state.
THEOREM Invariant == Spec => []Inv
BY InvInit, InvStep, PTL DEF Spec

\* Every reachable state is well formed.
THEOREM TypeCorrect == Spec => []TypeOK
<1>1. Inv => TypeOK
  BY DEF Inv
<1> QED BY <1>1, Invariant, PTL

\* Unless the password was lost in one of the four ways SecretsOpenVolume names, the
\* containers have the password of the database and the next job will find it.
THEOREM SecretsCorrect == Spec => []SecretsOpenVolume
<1>1. Inv => SecretsOpenVolume
  BY DEF Inv, VolumeInv, SecretsOpenVolume
<1> QED BY <1>1, Invariant, PTL
=============================================================================
