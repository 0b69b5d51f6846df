------------------------------ MODULE FlashProofs ------------------------------
(***************************************************************************)
(* Proofs about Flash, for any hosts, sizes and lists of blobs: no job     *)
(* leaves anything half done behind, success means that everything is      *)
(* written, the split into parts included, and a bad image changes nothing *)
(* on the stick.                                                           *)
(***************************************************************************)
EXTENDS Flash, Integers, SequenceTheorems, WellFoundedInduction, TLAPS

LastStep == IF setup.plan = "windows" THEN 6 ELSE 4
TypeOK ==
    /\ setup \in Setups /\ at \in 1 .. LastStep /\ sub \in Nat
    /\ phase \in {"run", "cleanup", "returned"}
    /\ result \in {"none", "succeeded", "failed"}
    /\ ctxDone \in BOOLEAN /\ session \in BOOLEAN /\ held \in BOOLEAN
    /\ stick \in {"old", "wiped", "fat32", "image"} /\ mount \in {"none", "user", "root"}
    /\ source \in BOOLEAN /\ mountPath \in BOOLEAN /\ needsSplit \in BOOLEAN
    /\ files \subseteq {"files", "install.wim"} /\ partFiles \in Nat

Windows == setup.plan = "windows"
(* How far the steps have come, or had come when the cleanups began.       *)
Ran == phase = "run" \/ result = "succeeded"

(* A result says how far the job has come: to its last step, or back.      *)
Ends ==
    /\ phase = "returned" <=> result # "none"
    /\ result = "succeeded" => at = LastStep
    /\ result = "failed" => at = 1
    /\ phase = "cleanup" /\ Windows => at < LastStep
    /\ phase = "run" /\ sub # 0 => Windows /\ at \in {2, 5, 6}
    /\ phase = "run" /\ Windows /\ at = 2 => sub \in {0, 1}
    /\ phase = "run" /\ Windows /\ at = 6 => sub \in {0, 1}

(* An image that is checked first and found bad ends the job there.        *)
Stopped == ~setup.goodImage /\ Checked => at = 1

(* The source is open from its step to the last one, or to its cleanup.    *)
Source ==
    source => /\ Windows /\ phase # "returned"
              /\ phase = "run" => at > 1 /\ (at = LastStep => sub = 0)

(* The volume is mounted from formatting to ejecting; what the helper      *)
(* mounted stays so past its cleanup only if it could not be unmounted.    *)
Volume ==
    /\ ~Windows => mount # "root"
    /\ Windows /\ Ran /\ (at < 2 \/ (at = 2 /\ sub = 0)) => mount # "root"
    /\ Windows /\ phase = "run" /\ (at > 2 \/ (at = 2 /\ sub = 1)) => mount = MountedBy
    /\ Windows /\ phase = "cleanup" /\ at > 2 => mount = MountedBy
    /\ mount = "root" => HelperMounts
    /\ Windows /\ phase # "run" /\ at < 2 /\ mount = "root" => ~session \/ held

(* What is on it, step by step.                                            *)
Content ==
    /\ Windows /\ Ran /\ (at > 2 \/ (at = 2 /\ sub = 1)) => stick = "fat32"
    /\ Windows /\ at > 2 => mountPath
    /\ Windows /\ Ran /\ at < 4 => files = {}
    /\ Windows /\ Ran /\ at = 4 => files \subseteq Wanted
    /\ Windows /\ Ran /\ at > 4 => files = Wanted
    /\ Windows /\ at > 3 => needsSplit = TooLarge(setup.wimSize)
    /\ ~Windows => files = {}
    /\ ~Windows /\ Ran /\ at > 3 => stick = "image"

(* The parts: none before their step, one at a time in it, none after its  *)
(* cleanup.                                                                *)
PartFiles ==
    /\ ~Windows \/ at < 5 => partFiles = 0
    /\ Windows /\ at > 4 /\ ~needsSplit => partFiles = 0
    /\ Windows /\ phase = "run" /\ at = 5 => partFiles \in {sub, sub + 1}

(* The parts are as many as the split makes.                               *)
Dealt ==
    /\ Windows /\ phase = "run" /\ at = 5 => partFiles <= Len(Parts)
    /\ Windows /\ Ran /\ at = 6 => partFiles = IF needsSplit THEN Len(Parts) ELSE 0

-----------------------------------------------------------------------------
(* Where the job is when a step runs.                                      *)
LEMMA Where ==
    ASSUME TypeOK
    PROVE  /\ Len(Steps) = LastStep
           /\ Steps[at] = "opening-iso" <=> Windows /\ at = 1
           /\ Steps[at] = "formatting" <=> Windows /\ at = 2
           /\ Steps[at] = "analyzing-wim" <=> Windows /\ at = 3
           /\ Steps[at] = "copying-files" <=> Windows /\ at = 4
           /\ Steps[at] = "splitting-wim" <=> Windows /\ at = 5
           /\ Steps[at] = "finalizing" <=> Windows /\ at = 6
           /\ Steps[at] = "preparing" <=> ~Windows /\ at = 1
           /\ Steps[at] = "unmounting" <=> ~Windows /\ at = 2
           /\ Steps[at] = "writing-iso" <=> ~Windows /\ at = 3
           /\ Steps[at] = "ejecting" <=> ~Windows /\ at = 4
<1>1. CASE Windows
    BY <1>1 DEF TypeOK, LastStep, Steps, WindowsSteps, Windows
<1>2. CASE ~Windows
    BY <1>2 DEF TypeOK, LastStep, Steps, LinuxSteps, Windows
<1> QED
    BY <1>1, <1>2

(* The plan does not change.                                               *)
LEMMA Same == UNCHANGED setup => LastStep' = LastStep /\ Windows' = Windows
BY DEF LastStep, Windows

(* A step that ends is followed by the next one, or by the job's end.      *)
LEMMA Onward ==
    ASSUME TypeOK, UNCHANGED setup, StepEnds
    PROVE  /\ sub' = 0 /\ at' \in 1 .. LastStep' /\ LastStep' = LastStep
           /\ \/ at < LastStep /\ at' = at + 1 /\ UNCHANGED <<phase, result>>
              \/ at = LastStep /\ at' = at /\ phase' = "returned" /\ result' = "succeeded"
<1>1. LastStep' = LastStep /\ LastStep \in Nat /\ at \in 1 .. LastStep /\
           Len(Steps) = LastStep
    BY Where DEF TypeOK, LastStep
<1>2. sub' = 0
    BY DEF StepEnds
<1>3. CASE at < LastStep
    BY <1>1, <1>2, <1>3 DEF StepEnds
<1>4. CASE at = LastStep
    BY <1>1, <1>2, <1>4 DEF StepEnds
<1> QED
    BY <1>1, <1>3, <1>4

(* A cleanup is followed by the one of the step before, or by the end.      *)
LEMMA Back ==
    ASSUME TypeOK, UNCHANGED setup, StepCleaned
    PROVE  /\ UNCHANGED sub /\ at' \in 1 .. LastStep' /\ LastStep' = LastStep
           /\ \/ at > 1 /\ at' = at - 1 /\ UNCHANGED <<phase, result>>
              \/ at = 1 /\ at' = at /\ phase' = "returned" /\ result' = "failed"
<1>1. LastStep' = LastStep /\ LastStep \in Nat /\ at \in 1 .. LastStep
    BY DEF TypeOK, LastStep
<1>2. UNCHANGED sub
    BY DEF StepCleaned
<1>3. CASE at > 1
    BY <1>1, <1>2, <1>3 DEF StepCleaned
<1>4. CASE at = 1
    BY <1>1, <1>2, <1>4 DEF StepCleaned
<1> QED
    BY <1>1, <1>3, <1>4

(* A step keeps the types.                                                 *)
LEMMA StepType ==
    TypeOK /\ [Next]_vars => TypeOK'
<1> SUFFICES ASSUME TypeOK, [Next]_vars PROVE TypeOK'
    OBVIOUS
<1> USE DEF TypeOK, worldVars, stickVars, stateVars
<1>1. CASE UNCHANGED setup /\ World
  <2>1. CASE Cancel
    <3>1. ctxDone' \in BOOLEAN /\ UNCHANGED <<at, phase, sub, result, stickVars, stateVars>>
          /\ UNCHANGED <<session, held>>
        BY Same, <1>1, <2>1 DEF Cancel
    <3> QED
        BY Same, <1>1, <2>1, <3>1
  <2>2. CASE SessionLost
    <3>1. session' \in BOOLEAN /\ UNCHANGED <<at, phase, sub, result, stickVars, stateVars>>
          /\ UNCHANGED <<ctxDone, held>>
        BY Same, <1>1, <2>2 DEF SessionLost
    <3> QED
        BY Same, <1>1, <2>2, <3>1
  <2>3. CASE VolumeTaken
    <3>1. held' \in BOOLEAN /\ UNCHANGED <<at, phase, sub, result, stickVars, stateVars>>
          /\ UNCHANGED <<ctxDone, session>>
        BY Same, <1>1, <2>3 DEF VolumeTaken
    <3> QED
        BY Same, <1>1, <2>3, <3>1
  <2> QED
      BY <1>1, <2>1, <2>2, <2>3 DEF World
<1>2. CASE UNCHANGED setup /\ WindowsStep
  <2>1. CASE OpenSource
    <3>1. /\ StepEnds /\ source' = TRUE
          /\ UNCHANGED <<worldVars, stickVars, mountPath, needsSplit>>
        BY Same, <1>2, <2>1 DEF OpenSource
    <3>2. /\ sub' = 0 /\ at' \in 1 .. LastStep' /\ phase' \in {phase, "returned"}
          /\ result' \in {result, "succeeded"}
        BY Same, <1>2, <2>1, <3>1, Onward
    <3> QED
        BY Same, <1>2, <2>1, <3>1, <3>2
  <2>2. CASE OpenSourceFails
      BY Where, Same, <1>2, <2>2 DEF OpenSourceFails, Fails, Running, StepFails
  <2>3. CASE FormatDisk
    <3>1. /\ at' = at /\ sub' \in {sub, sub + 1} /\ phase' \in {phase, "cleanup"}
          /\ UNCHANGED result
        BY Same, <1>2, <2>3 DEF FormatDisk, StepGoesOn, StepFails
    <3>2. /\ stick' \in {stick, "wiped", "fat32"} /\ mount' \in {mount, "none", MountedBy}
          /\ session' \in BOOLEAN /\ UNCHANGED <<files, partFiles, ctxDone, held, stateVars>>
        BY Same, <1>2, <2>3 DEF FormatDisk, Formatted
    <3>3. MountedBy \in {"user", "root"}
        BY DEF MountedBy
    <3> QED
        BY Same, <1>2, <2>3, <3>1, <3>2, <3>3
  <2>4. CASE FormatWithoutSession
      BY Where, Same, <1>2, <2>4 DEF FormatWithoutSession, Fails, Running, StepFails
  <2>5. CASE WaitForMount
    <3>1. /\ StepEnds /\ mountPath' = TRUE
          /\ UNCHANGED <<worldVars, stickVars, source, needsSplit>>
        BY Same, <1>2, <2>5 DEF WaitForMount
    <3>2. /\ sub' = 0 /\ at' \in 1 .. LastStep' /\ phase' \in {phase, "returned"}
          /\ result' \in {result, "succeeded"}
        BY Same, <1>2, <2>5, <3>1, Onward
    <3> QED
        BY Same, <1>2, <2>5, <3>1, <3>2
  <2>6. CASE WaitForMountFails
      BY Where, Same, <1>2, <2>6 DEF WaitForMountFails, Fails, Running, StepFails
  <2>7. CASE AnalyzeWim
    <3>1. /\ StepEnds /\ needsSplit' \in BOOLEAN
          /\ UNCHANGED <<worldVars, stickVars, source, mountPath>>
        BY Same, <1>2, <2>7 DEF AnalyzeWim, TooLarge
    <3>2. /\ sub' = 0 /\ at' \in 1 .. LastStep' /\ phase' \in {phase, "returned"}
          /\ result' \in {result, "succeeded"}
        BY Same, <1>2, <2>7, <3>1, Onward
    <3> QED
        BY Same, <1>2, <2>7, <3>1, <3>2
  <2>8. CASE AnalyzeWimFails
      BY Where, Same, <1>2, <2>8 DEF AnalyzeWimFails, Fails, Running, StepFails
  <2>9. CASE CopyFile
    <3>1. PICK f \in Wanted : files' = files \cup {f}
        BY Same, <1>2, <2>9 DEF CopyFile
    <3>2. files' \subseteq {"files", "install.wim"}
        BY <3>1 DEF Wanted
    <3> QED
        BY Same, <1>2, <2>9, <3>2 DEF CopyFile
  <2>10. CASE CopyEnds
    <3>1. /\ StepEnds /\ UNCHANGED <<worldVars, stickVars, stateVars>>
        BY Same, <1>2, <2>10 DEF CopyEnds
    <3>2. /\ sub' = 0 /\ at' \in 1 .. LastStep' /\ phase' \in {phase, "returned"}
          /\ result' \in {result, "succeeded"}
        BY Same, <1>2, <2>10, <3>1, Onward
    <3> QED
        BY Same, <1>2, <2>10, <3>1, <3>2
  <2>11. CASE CopyFails
      BY Where, Same, <1>2, <2>11 DEF CopyFails, Fails, Running, StepFails
  <2>12. CASE SkipSplit
    <3>1. /\ StepEnds /\ UNCHANGED <<worldVars, stickVars, stateVars>>
        BY Same, <1>2, <2>12 DEF SkipSplit
    <3>2. /\ sub' = 0 /\ at' \in 1 .. LastStep' /\ phase' \in {phase, "returned"}
          /\ result' \in {result, "succeeded"}
        BY Same, <1>2, <2>12, <3>1, Onward
    <3> QED
        BY Same, <1>2, <2>12, <3>1, <3>2
  <2>13. CASE CreatePart
      BY Where, Same, <1>2, <2>13 DEF CreatePart, Running
  <2>14. CASE FinishPart
      BY Where, Same, <1>2, <2>14 DEF FinishPart, Running, StepGoesOn, StepEnds
  <2>15. CASE SplitFails
      BY Where, Same, <1>2, <2>15 DEF SplitFails, Fails, Running, StepFails
  <2>16. CASE ReleaseSource
    <3>1. /\ source' \in BOOLEAN /\ sub' = sub + 1
          /\ UNCHANGED <<at, phase, result, worldVars, stickVars, mountPath, needsSplit>>
        BY Same, <1>2, <2>16 DEF ReleaseSource, StepGoesOn
    <3>2. sub' \in Nat /\ at' \in 1 .. LastStep'
        BY Same, <1>2, <2>16, <3>1
    <3> QED
        BY Same, <1>2, <2>16, <3>1, <3>2
  <2>17. CASE EjectUSB
    <3>1. /\ StepEnds /\ mount' \in {"none", mount}
          /\ UNCHANGED <<worldVars, stick, files, partFiles, stateVars>>
        BY Same, <1>2, <2>17 DEF EjectUSB, EjectBy
    <3>2. /\ sub' = 0 /\ at' \in 1 .. LastStep' /\ phase' \in {phase, "returned"}
          /\ result' \in {result, "succeeded"}
        BY Same, <1>2, <2>17, <3>1, Onward
    <3> QED
        BY Same, <1>2, <2>17, <3>1, <3>2
  <2> QED
      BY <1>2, <2>1, <2>2, <2>3, <2>4, <2>5, <2>6, <2>7, <2>8, <2>9, <2>10, <2>11, <2>12,
        <2>13, <2>14, <2>15, <2>16, <2>17 DEF WindowsStep
<1>3. CASE UNCHANGED setup /\ LinuxStep
  <2>1. CASE Prepare
    <3>1. /\ StepEnds /\ UNCHANGED <<worldVars, stickVars, stateVars>>
        BY Same, <1>3, <2>1 DEF Prepare
    <3>2. /\ sub' = 0 /\ at' \in 1 .. LastStep' /\ phase' \in {phase, "returned"}
          /\ result' \in {result, "succeeded"}
        BY Same, <1>3, <2>1, <3>1, Onward
    <3> QED
        BY Same, <1>3, <2>1, <3>1, <3>2
  <2>2. CASE PrepareFails
      BY Where, Same, <1>3, <2>2 DEF PrepareFails, Fails, Running, StepFails
  <2>3. CASE Unmount
      BY Where, Same, <1>3, <2>3 DEF Unmount, Running, StepEnds
  <2>4. CASE UnmountFails
      BY Where, Same, <1>3, <2>4 DEF UnmountFails, Fails, Running, StepFails
  <2>5. CASE WriteISO
    <3>1. /\ mount' = "none" /\ stick' \in {"image", "old", "wiped"} /\ session' \in BOOLEAN
          /\ UNCHANGED <<ctxDone, held, files, partFiles, stateVars>>
        BY Same, <1>3, <2>5 DEF WriteISO
    <3>2. /\ sub' \in {0, sub} /\ at' \in 1 .. LastStep'
          /\ phase' \in {phase, "returned", "cleanup"}
          /\ result' \in {result, "succeeded"}
      <4>1. StepEnds \/ StepFails
          BY Same, <1>3, <2>5 DEF WriteISO
      <4>2. CASE StepFails
          BY Same, <1>3, <2>5, <4>2 DEF StepFails
      <4> QED
          BY Same, <1>3, <2>5, <4>1, <4>2, Onward
    <3> QED
        BY Same, <1>3, <2>5, <3>1, <3>2
  <2>6. CASE WriteFails
      BY Where, Same, <1>3, <2>6 DEF WriteFails, Fails, Running, StepFails
  <2>7. CASE EjectStick
    <3>1. /\ StepEnds /\ mount' \in {"none", mount}
          /\ UNCHANGED <<worldVars, stick, files, partFiles, stateVars>>
        BY Same, <1>3, <2>7 DEF EjectStick, EjectBy
    <3>2. /\ sub' = 0 /\ at' \in 1 .. LastStep' /\ phase' \in {phase, "returned"}
          /\ result' \in {result, "succeeded"}
        BY Same, <1>3, <2>7, <3>1, Onward
    <3> QED
        BY Same, <1>3, <2>7, <3>1, <3>2
  <2> QED
      BY <1>3, <2>1, <2>2, <2>3, <2>4, <2>5, <2>6, <2>7 DEF LinuxStep
<1>4. CASE UNCHANGED setup /\ Cleanup
  <2>1. CASE CleanupSource
    <3>1. /\ StepCleaned /\ source' \in BOOLEAN
          /\ UNCHANGED <<sub, worldVars, stickVars, mountPath, needsSplit>>
        BY Same, <1>4, <2>1 DEF CleanupSource, StepCleaned
    <3>2. /\ at' \in 1 .. LastStep' /\ phase' \in {phase, "returned"}
          /\ result' \in {result, "failed"}
        BY Same, <1>4, <2>1, <3>1, Back
    <3> QED
        BY Same, <1>4, <2>1, <3>1, <3>2
  <2>2. CASE CleanupFormat
      BY Where, Same, <1>4, <2>2 DEF CleanupFormat, Released, Cleaning, StepCleaned
  <2>3. CASE RemoveParts
      BY Where, Same, <1>4, <2>3 DEF RemoveParts, Cleaning, StepCleaned
  <2>4. CASE NoCleanup
      BY Where, Same, <1>4, <2>4 DEF NoCleanup, StepCleaned
  <2> QED
      BY <1>4, <2>1, <2>2, <2>3, <2>4 DEF Cleanup
<1>5. CASE UNCHANGED vars
    BY Same, <1>5 DEF vars
<1> QED
    BY <1>1, <1>2, <1>3, <1>4, <1>5 DEF Next

(* The steps run forth, the cleanups back.                                 *)
LEMMA StepResult ==
    TypeOK /\ Ends /\ [Next]_vars => Ends'
<1> SUFFICES ASSUME TypeOK, Ends, [Next]_vars PROVE Ends'
    OBVIOUS
<1> USE DEF TypeOK, LastStep, Windows, Ends, worldVars, stickVars, stateVars
<1>1. CASE UNCHANGED setup /\ World
  <2>1. CASE Cancel
      BY Where, <1>1, <2>1 DEF Cancel
  <2>2. CASE SessionLost
      BY Where, <1>1, <2>2 DEF SessionLost
  <2>3. CASE VolumeTaken
      BY Where, <1>1, <2>3 DEF VolumeTaken
  <2> QED
      BY <1>1, <2>1, <2>2, <2>3 DEF World
<1>2. CASE UNCHANGED setup /\ WindowsStep
  <2>1. CASE OpenSource
    <3>1. /\ Windows /\ at = 1 /\ phase = "run" /\ StepEnds
          /\ UNCHANGED <<setup>>
        BY Where, <1>2, <2>1 DEF OpenSource, Running
    <3>2. at' = 2 /\ phase' = phase /\ result' = result /\ sub' = 0
        BY <1>2, <2>1, <3>1, Onward
    <3> QED
        BY <1>2, <2>1, <3>1, <3>2
  <2>2. CASE OpenSourceFails
      BY Where, <1>2, <2>2 DEF OpenSourceFails, Fails, Running, StepFails
  <2>3. CASE FormatDisk
      BY Where, <1>2, <2>3 DEF FormatDisk, Running, Formatted, StepGoesOn, StepFails
  <2>4. CASE FormatWithoutSession
      BY Where, <1>2, <2>4 DEF FormatWithoutSession, Fails, Running, StepFails
  <2>5. CASE WaitForMount
    <3>1. /\ Windows /\ at = 2 /\ phase = "run" /\ StepEnds
          /\ UNCHANGED <<setup>>
        BY Where, <1>2, <2>5 DEF WaitForMount, Running
    <3>2. at' = 3 /\ phase' = phase /\ result' = result /\ sub' = 0
        BY <1>2, <2>5, <3>1, Onward
    <3> QED
        BY <1>2, <2>5, <3>1, <3>2
  <2>6. CASE WaitForMountFails
      BY Where, <1>2, <2>6 DEF WaitForMountFails, Fails, Running, StepFails
  <2>7. CASE AnalyzeWim
    <3>1. /\ Windows /\ at = 3 /\ phase = "run" /\ StepEnds
          /\ UNCHANGED <<setup>>
        BY Where, <1>2, <2>7 DEF AnalyzeWim, Running
    <3>2. at' = 4 /\ phase' = phase /\ result' = result /\ sub' = 0
        BY <1>2, <2>7, <3>1, Onward
    <3> QED
        BY <1>2, <2>7, <3>1, <3>2
  <2>8. CASE AnalyzeWimFails
      BY Where, <1>2, <2>8 DEF AnalyzeWimFails, Fails, Running, StepFails
  <2>9. CASE CopyFile
      BY Where, <1>2, <2>9 DEF CopyFile, Running
  <2>10. CASE CopyEnds
    <3>1. /\ Windows /\ at = 4 /\ phase = "run" /\ StepEnds
          /\ UNCHANGED <<setup>>
        BY Where, <1>2, <2>10 DEF CopyEnds, Running
    <3>2. at' = 5 /\ phase' = phase /\ result' = result /\ sub' = 0
        BY <1>2, <2>10, <3>1, Onward
    <3> QED
        BY <1>2, <2>10, <3>1, <3>2
  <2>11. CASE CopyFails
      BY Where, <1>2, <2>11 DEF CopyFails, Fails, Running, StepFails
  <2>12. CASE SkipSplit
    <3>1. /\ Windows /\ at = 5 /\ phase = "run" /\ StepEnds
          /\ UNCHANGED <<setup>>
        BY Where, <1>2, <2>12 DEF SkipSplit, Running
    <3>2. at' = 6 /\ phase' = phase /\ result' = result /\ sub' = 0
        BY <1>2, <2>12, <3>1, Onward
    <3> QED
        BY <1>2, <2>12, <3>1, <3>2
  <2>13. CASE CreatePart
      BY Where, <1>2, <2>13 DEF CreatePart, Running
  <2>14. CASE FinishPart
      BY Where, <1>2, <2>14 DEF FinishPart, Running, StepGoesOn, StepEnds
  <2>15. CASE SplitFails
      BY Where, <1>2, <2>15 DEF SplitFails, Fails, Running, StepFails
  <2>16. CASE ReleaseSource
      BY Where, <1>2, <2>16 DEF ReleaseSource, Running, StepGoesOn
  <2>17. CASE EjectUSB
      BY Where, <1>2, <2>17 DEF EjectUSB, Running, EjectBy, StepEnds
  <2> QED
      BY <1>2, <2>1, <2>2, <2>3, <2>4, <2>5, <2>6, <2>7, <2>8, <2>9, <2>10, <2>11, <2>12,
        <2>13, <2>14, <2>15, <2>16, <2>17 DEF WindowsStep
<1>3. CASE UNCHANGED setup /\ LinuxStep
  <2>1. CASE Prepare
      BY Where, <1>3, <2>1 DEF Prepare, Running, StepEnds
  <2>2. CASE PrepareFails
      BY Where, <1>3, <2>2 DEF PrepareFails, Fails, Running, StepFails
  <2>3. CASE Unmount
      BY Where, <1>3, <2>3 DEF Unmount, Running, StepEnds
  <2>4. CASE UnmountFails
      BY Where, <1>3, <2>4 DEF UnmountFails, Fails, Running, StepFails
  <2>5. CASE WriteISO
      BY Where, <1>3, <2>5 DEF WriteISO, Running, StepEnds, StepFails
  <2>6. CASE WriteFails
      BY Where, <1>3, <2>6 DEF WriteFails, Fails, Running, StepFails
  <2>7. CASE EjectStick
      BY Where, <1>3, <2>7 DEF EjectStick, Running, EjectBy, StepEnds
  <2> QED
      BY <1>3, <2>1, <2>2, <2>3, <2>4, <2>5, <2>6, <2>7 DEF LinuxStep
<1>4. CASE UNCHANGED setup /\ Cleanup
  <2>1. CASE CleanupSource
      BY Where, <1>4, <2>1 DEF CleanupSource, Cleaning, StepCleaned
  <2>2. CASE CleanupFormat
      BY Where, <1>4, <2>2 DEF CleanupFormat, Released, Cleaning, StepCleaned
  <2>3. CASE RemoveParts
      BY Where, <1>4, <2>3 DEF RemoveParts, Cleaning, StepCleaned
  <2>4. CASE NoCleanup
      BY Where, <1>4, <2>4 DEF NoCleanup, StepCleaned
  <2> QED
      BY <1>4, <2>1, <2>2, <2>3, <2>4 DEF Cleanup
<1>5. CASE UNCHANGED vars
    BY <1>5 DEF vars
<1> QED
    BY <1>1, <1>2, <1>3, <1>4, <1>5 DEF Next

(* A bad image is refused by the first step.                               *)
LEMMA StepStopped ==
    TypeOK /\ Stopped /\ [Next]_vars => Stopped'
<1> SUFFICES ASSUME TypeOK, Stopped, [Next]_vars PROVE Stopped'
    OBVIOUS
<1> USE DEF TypeOK, LastStep, Windows, Stopped, Checked, worldVars, stickVars, stateVars
<1>1. CASE UNCHANGED setup /\ World
  <2>1. CASE Cancel
      BY Where, <1>1, <2>1 DEF Cancel
  <2>2. CASE SessionLost
      BY Where, <1>1, <2>2 DEF SessionLost
  <2>3. CASE VolumeTaken
      BY Where, <1>1, <2>3 DEF VolumeTaken
  <2> QED
      BY <1>1, <2>1, <2>2, <2>3 DEF World
<1>2. CASE UNCHANGED setup /\ WindowsStep
  <2>1. CASE OpenSource
      BY Where, <1>2, <2>1 DEF OpenSource, Running, StepEnds
  <2>2. CASE OpenSourceFails
      BY Where, <1>2, <2>2 DEF OpenSourceFails, Fails, Running, StepFails
  <2>3. CASE FormatDisk
      BY Where, <1>2, <2>3 DEF FormatDisk, Running, Formatted, StepGoesOn, StepFails
  <2>4. CASE FormatWithoutSession
      BY Where, <1>2, <2>4 DEF FormatWithoutSession, Fails, Running, StepFails
  <2>5. CASE WaitForMount
      BY Where, <1>2, <2>5 DEF WaitForMount, Running, StepEnds
  <2>6. CASE WaitForMountFails
      BY Where, <1>2, <2>6 DEF WaitForMountFails, Fails, Running, StepFails
  <2>7. CASE AnalyzeWim
      BY Where, <1>2, <2>7 DEF AnalyzeWim, Running, StepEnds
  <2>8. CASE AnalyzeWimFails
      BY Where, <1>2, <2>8 DEF AnalyzeWimFails, Fails, Running, StepFails
  <2>9. CASE CopyFile
      BY Where, <1>2, <2>9 DEF CopyFile, Running
  <2>10. CASE CopyEnds
      BY Where, <1>2, <2>10 DEF CopyEnds, Running, StepEnds
  <2>11. CASE CopyFails
      BY Where, <1>2, <2>11 DEF CopyFails, Fails, Running, StepFails
  <2>12. CASE SkipSplit
      BY Where, <1>2, <2>12 DEF SkipSplit, Running, StepEnds
  <2>13. CASE CreatePart
      BY Where, <1>2, <2>13 DEF CreatePart, Running
  <2>14. CASE FinishPart
      BY Where, <1>2, <2>14 DEF FinishPart, Running, StepGoesOn, StepEnds
  <2>15. CASE SplitFails
      BY Where, <1>2, <2>15 DEF SplitFails, Fails, Running, StepFails
  <2>16. CASE ReleaseSource
      BY Where, <1>2, <2>16 DEF ReleaseSource, Running, StepGoesOn
  <2>17. CASE EjectUSB
      BY Where, <1>2, <2>17 DEF EjectUSB, Running, EjectBy, StepEnds
  <2> QED
      BY <1>2, <2>1, <2>2, <2>3, <2>4, <2>5, <2>6, <2>7, <2>8, <2>9, <2>10, <2>11, <2>12,
        <2>13, <2>14, <2>15, <2>16, <2>17 DEF WindowsStep
<1>3. CASE UNCHANGED setup /\ LinuxStep
  <2>1. CASE Prepare
      BY Where, <1>3, <2>1 DEF Prepare, Running, StepEnds
  <2>2. CASE PrepareFails
      BY Where, <1>3, <2>2 DEF PrepareFails, Fails, Running, StepFails
  <2>3. CASE Unmount
      BY Where, <1>3, <2>3 DEF Unmount, Running, StepEnds
  <2>4. CASE UnmountFails
      BY Where, <1>3, <2>4 DEF UnmountFails, Fails, Running, StepFails
  <2>5. CASE WriteISO
      BY Where, <1>3, <2>5 DEF WriteISO, Running, StepEnds, StepFails
  <2>6. CASE WriteFails
      BY Where, <1>3, <2>6 DEF WriteFails, Fails, Running, StepFails
  <2>7. CASE EjectStick
      BY Where, <1>3, <2>7 DEF EjectStick, Running, EjectBy, StepEnds
  <2> QED
      BY <1>3, <2>1, <2>2, <2>3, <2>4, <2>5, <2>6, <2>7 DEF LinuxStep
<1>4. CASE UNCHANGED setup /\ Cleanup
  <2>1. CASE CleanupSource
      BY Where, <1>4, <2>1 DEF CleanupSource, Cleaning, StepCleaned
  <2>2. CASE CleanupFormat
      BY Where, <1>4, <2>2 DEF CleanupFormat, Released, Cleaning, StepCleaned
  <2>3. CASE RemoveParts
      BY Where, <1>4, <2>3 DEF RemoveParts, Cleaning, StepCleaned
  <2>4. CASE NoCleanup
      BY Where, <1>4, <2>4 DEF NoCleanup, StepCleaned
  <2> QED
      BY <1>4, <2>1, <2>2, <2>3, <2>4 DEF Cleanup
<1>5. CASE UNCHANGED vars
    BY <1>5 DEF vars
<1> QED
    BY <1>1, <1>2, <1>3, <1>4, <1>5 DEF Next

(* The source is released by the last step, or by its cleanup.             *)
LEMMA StepSource ==
    TypeOK /\ Ends /\ Source /\ [Next]_vars => Source'
<1> SUFFICES ASSUME TypeOK, Ends, Source, [Next]_vars PROVE Source'
    OBVIOUS
<1> USE DEF TypeOK, LastStep, Windows, Ends, Source, worldVars, stickVars, stateVars
<1>1. CASE UNCHANGED setup /\ World
  <2>1. CASE Cancel
      BY Where, <1>1, <2>1 DEF Cancel
  <2>2. CASE SessionLost
      BY Where, <1>1, <2>2 DEF SessionLost
  <2>3. CASE VolumeTaken
      BY Where, <1>1, <2>3 DEF VolumeTaken
  <2> QED
      BY <1>1, <2>1, <2>2, <2>3 DEF World
<1>2. CASE UNCHANGED setup /\ WindowsStep
  <2>1. CASE OpenSource
      BY Where, <1>2, <2>1 DEF OpenSource, Running, StepEnds
  <2>2. CASE OpenSourceFails
      BY Where, <1>2, <2>2 DEF OpenSourceFails, Fails, Running, StepFails
  <2>3. CASE FormatDisk
      BY Where, <1>2, <2>3 DEF FormatDisk, Running, Formatted, StepGoesOn, StepFails
  <2>4. CASE FormatWithoutSession
      BY Where, <1>2, <2>4 DEF FormatWithoutSession, Fails, Running, StepFails
  <2>5. CASE WaitForMount
    <3>1. /\ Windows /\ at = 2 /\ phase = "run" /\ StepEnds
          /\ UNCHANGED <<source>>
        BY Where, <1>2, <2>5 DEF WaitForMount, Running
    <3>2. at' = 3 /\ phase' = phase /\ result' = result /\ sub' = 0
        BY <1>2, <2>5, <3>1, Onward
    <3> QED
        BY <1>2, <2>5, <3>1, <3>2
  <2>6. CASE WaitForMountFails
      BY Where, <1>2, <2>6 DEF WaitForMountFails, Fails, Running, StepFails
  <2>7. CASE AnalyzeWim
    <3>1. /\ Windows /\ at = 3 /\ phase = "run" /\ StepEnds
          /\ UNCHANGED <<source>>
        BY Where, <1>2, <2>7 DEF AnalyzeWim, Running
    <3>2. at' = 4 /\ phase' = phase /\ result' = result /\ sub' = 0
        BY <1>2, <2>7, <3>1, Onward
    <3> QED
        BY <1>2, <2>7, <3>1, <3>2
  <2>8. CASE AnalyzeWimFails
      BY Where, <1>2, <2>8 DEF AnalyzeWimFails, Fails, Running, StepFails
  <2>9. CASE CopyFile
      BY Where, <1>2, <2>9 DEF CopyFile, Running
  <2>10. CASE CopyEnds
    <3>1. /\ Windows /\ at = 4 /\ phase = "run" /\ StepEnds
          /\ UNCHANGED <<source>>
        BY Where, <1>2, <2>10 DEF CopyEnds, Running
    <3>2. at' = 5 /\ phase' = phase /\ result' = result /\ sub' = 0
        BY <1>2, <2>10, <3>1, Onward
    <3> QED
        BY <1>2, <2>10, <3>1, <3>2
  <2>11. CASE CopyFails
      BY Where, <1>2, <2>11 DEF CopyFails, Fails, Running, StepFails
  <2>12. CASE SkipSplit
    <3>1. /\ Windows /\ at = 5 /\ phase = "run" /\ StepEnds
          /\ UNCHANGED <<source>>
        BY Where, <1>2, <2>12 DEF SkipSplit, Running
    <3>2. at' = 6 /\ phase' = phase /\ result' = result /\ sub' = 0
        BY <1>2, <2>12, <3>1, Onward
    <3> QED
        BY <1>2, <2>12, <3>1, <3>2
  <2>13. CASE CreatePart
      BY Where, <1>2, <2>13 DEF CreatePart, Running
  <2>14. CASE FinishPart
    <3>1. /\ Windows /\ at = 5 /\ phase = "run" /\ UNCHANGED <<source>>
          /\ StepGoesOn \/ StepEnds
        BY Where, <1>2, <2>14 DEF FinishPart, Running
    <3>2. CASE StepGoesOn
        BY <1>2, <2>14, <3>1, <3>2 DEF StepGoesOn
    <3>3. CASE StepEnds
      <4>1. at' = 6 /\ phase' = phase /\ result' = result /\ sub' = 0
          BY <1>2, <2>14, <3>1, <3>3, Onward
      <4> QED
          BY <1>2, <2>14, <3>1, <4>1
    <3> QED
        BY <3>1, <3>2, <3>3
  <2>15. CASE SplitFails
      BY Where, <1>2, <2>15 DEF SplitFails, Fails, Running, StepFails
  <2>16. CASE ReleaseSource
      BY Where, <1>2, <2>16 DEF ReleaseSource, Running, StepGoesOn
  <2>17. CASE EjectUSB
      BY Where, <1>2, <2>17 DEF EjectUSB, Running, EjectBy, StepEnds
  <2> QED
      BY <1>2, <2>1, <2>2, <2>3, <2>4, <2>5, <2>6, <2>7, <2>8, <2>9, <2>10, <2>11, <2>12,
        <2>13, <2>14, <2>15, <2>16, <2>17 DEF WindowsStep
<1>3. CASE UNCHANGED setup /\ LinuxStep
  <2>1. CASE Prepare
      BY Where, <1>3, <2>1 DEF Prepare, Running, StepEnds
  <2>2. CASE PrepareFails
      BY Where, <1>3, <2>2 DEF PrepareFails, Fails, Running, StepFails
  <2>3. CASE Unmount
      BY Where, <1>3, <2>3 DEF Unmount, Running, StepEnds
  <2>4. CASE UnmountFails
      BY Where, <1>3, <2>4 DEF UnmountFails, Fails, Running, StepFails
  <2>5. CASE WriteISO
      BY Where, <1>3, <2>5 DEF WriteISO, Running, StepEnds, StepFails
  <2>6. CASE WriteFails
      BY Where, <1>3, <2>6 DEF WriteFails, Fails, Running, StepFails
  <2>7. CASE EjectStick
      BY Where, <1>3, <2>7 DEF EjectStick, Running, EjectBy, StepEnds
  <2> QED
      BY <1>3, <2>1, <2>2, <2>3, <2>4, <2>5, <2>6, <2>7 DEF LinuxStep
<1>4. CASE UNCHANGED setup /\ Cleanup
  <2>1. CASE CleanupSource
      BY Where, <1>4, <2>1 DEF CleanupSource, Cleaning, StepCleaned
  <2>2. CASE CleanupFormat
      BY Where, <1>4, <2>2 DEF CleanupFormat, Released, Cleaning, StepCleaned
  <2>3. CASE RemoveParts
      BY Where, <1>4, <2>3 DEF RemoveParts, Cleaning, StepCleaned
  <2>4. CASE NoCleanup
      BY Where, <1>4, <2>4 DEF NoCleanup, StepCleaned
  <2> QED
      BY <1>4, <2>1, <2>2, <2>3, <2>4 DEF Cleanup
<1>5. CASE UNCHANGED vars
    BY <1>5 DEF vars
<1> QED
    BY <1>1, <1>2, <1>3, <1>4, <1>5 DEF Next

(* What is mounted as root is unmounted, if it can be.                     *)
LEMMA StepVolume ==
    TypeOK /\ Ends /\ Volume /\ [Next]_vars => Volume'
<1> SUFFICES ASSUME TypeOK, Ends, Volume, [Next]_vars PROVE Volume'
    OBVIOUS
<1> USE DEF TypeOK, LastStep, Windows, Ends, Ran, Volume, MountedBy, HelperMounts,
        Unmountable, worldVars, stickVars, stateVars
<1>1. CASE UNCHANGED setup /\ World
  <2>1. CASE Cancel
      BY Where, <1>1, <2>1 DEF Cancel
  <2>2. CASE SessionLost
      BY Where, <1>1, <2>2 DEF SessionLost
  <2>3. CASE VolumeTaken
      BY Where, <1>1, <2>3 DEF VolumeTaken
  <2> QED
      BY <1>1, <2>1, <2>2, <2>3 DEF World
<1>2. CASE UNCHANGED setup /\ WindowsStep
  <2>1. CASE OpenSource
      BY Where, <1>2, <2>1 DEF OpenSource, Running, StepEnds
  <2>2. CASE OpenSourceFails
      BY Where, <1>2, <2>2 DEF OpenSourceFails, Fails, Running, StepFails
  <2>3. CASE FormatDisk
      BY Where, <1>2, <2>3 DEF FormatDisk, Running, Formatted, StepGoesOn, StepFails
  <2>4. CASE FormatWithoutSession
      BY Where, <1>2, <2>4 DEF FormatWithoutSession, Fails, Running, StepFails
  <2>5. CASE WaitForMount
      BY Where, <1>2, <2>5 DEF WaitForMount, Running, StepEnds
  <2>6. CASE WaitForMountFails
      BY Where, <1>2, <2>6 DEF WaitForMountFails, Fails, Running, StepFails
  <2>7. CASE AnalyzeWim
      BY Where, <1>2, <2>7 DEF AnalyzeWim, Running, StepEnds
  <2>8. CASE AnalyzeWimFails
      BY Where, <1>2, <2>8 DEF AnalyzeWimFails, Fails, Running, StepFails
  <2>9. CASE CopyFile
      BY Where, <1>2, <2>9 DEF CopyFile, Running
  <2>10. CASE CopyEnds
      BY Where, <1>2, <2>10 DEF CopyEnds, Running, StepEnds
  <2>11. CASE CopyFails
      BY Where, <1>2, <2>11 DEF CopyFails, Fails, Running, StepFails
  <2>12. CASE SkipSplit
      BY Where, <1>2, <2>12 DEF SkipSplit, Running, StepEnds
  <2>13. CASE CreatePart
      BY Where, <1>2, <2>13 DEF CreatePart, Running
  <2>14. CASE FinishPart
      BY Where, <1>2, <2>14 DEF FinishPart, Running, StepGoesOn, StepEnds
  <2>15. CASE SplitFails
      BY Where, <1>2, <2>15 DEF SplitFails, Fails, Running, StepFails
  <2>16. CASE ReleaseSource
      BY Where, <1>2, <2>16 DEF ReleaseSource, Running, StepGoesOn
  <2>17. CASE EjectUSB
    <3>1. /\ mount' \in {"none", mount} /\ UNCHANGED <<worldVars, mountPath>>
          /\ StepEnds /\ Windows /\ at = 6
        BY Where, <1>2, <2>17 DEF EjectUSB, EjectBy, Running
    <3>2. at' = 6 /\ phase' = "returned" /\ result' = "succeeded"
        BY <1>2, <2>17, <3>1, Onward
    <3> QED
        BY <1>2, <2>17, <3>1, <3>2
  <2> QED
      BY <1>2, <2>1, <2>2, <2>3, <2>4, <2>5, <2>6, <2>7, <2>8, <2>9, <2>10, <2>11, <2>12,
        <2>13, <2>14, <2>15, <2>16, <2>17 DEF WindowsStep
<1>3. CASE UNCHANGED setup /\ LinuxStep
  <2>1. CASE Prepare
      BY Where, <1>3, <2>1 DEF Prepare, Running, StepEnds
  <2>2. CASE PrepareFails
      BY Where, <1>3, <2>2 DEF PrepareFails, Fails, Running, StepFails
  <2>3. CASE Unmount
      BY Where, <1>3, <2>3 DEF Unmount, Running, StepEnds
  <2>4. CASE UnmountFails
      BY Where, <1>3, <2>4 DEF UnmountFails, Fails, Running, StepFails
  <2>5. CASE WriteISO
      BY Where, <1>3, <2>5 DEF WriteISO, Running, StepEnds, StepFails
  <2>6. CASE WriteFails
      BY Where, <1>3, <2>6 DEF WriteFails, Fails, Running, StepFails
  <2>7. CASE EjectStick
      BY Where, <1>3, <2>7 DEF EjectStick, Running, EjectBy, StepEnds
  <2> QED
      BY <1>3, <2>1, <2>2, <2>3, <2>4, <2>5, <2>6, <2>7 DEF LinuxStep
<1>4. CASE UNCHANGED setup /\ Cleanup
  <2>1. CASE CleanupSource
      BY Where, <1>4, <2>1 DEF CleanupSource, Cleaning, StepCleaned
  <2>2. CASE CleanupFormat
      BY Where, <1>4, <2>2 DEF CleanupFormat, Released, Cleaning, StepCleaned
  <2>3. CASE RemoveParts
      BY Where, <1>4, <2>3 DEF RemoveParts, Cleaning, StepCleaned
  <2>4. CASE NoCleanup
      BY Where, <1>4, <2>4 DEF NoCleanup, StepCleaned
  <2> QED
      BY <1>4, <2>1, <2>2, <2>3, <2>4 DEF Cleanup
<1>5. CASE UNCHANGED vars
    BY <1>5 DEF vars
<1> QED
    BY <1>1, <1>2, <1>3, <1>4, <1>5 DEF Next

(* Each step adds its share.                                               *)
LEMMA StepContent ==
    TypeOK /\ Ends /\ Content /\ [Next]_vars => Content'
<1> SUFFICES ASSUME TypeOK, Ends, Content, [Next]_vars PROVE Content'
    OBVIOUS
<1> USE DEF TypeOK, LastStep, Windows, Ends, Ran, Content, Wanted, worldVars, stickVars,
        stateVars
<1>1. CASE UNCHANGED setup /\ World
  <2>1. CASE Cancel
      BY Where, <1>1, <2>1 DEF Cancel
  <2>2. CASE SessionLost
      BY Where, <1>1, <2>2 DEF SessionLost
  <2>3. CASE VolumeTaken
      BY Where, <1>1, <2>3 DEF VolumeTaken
  <2> QED
      BY <1>1, <2>1, <2>2, <2>3 DEF World
<1>2. CASE UNCHANGED setup /\ WindowsStep
  <2>1. CASE OpenSource
      BY Where, <1>2, <2>1 DEF OpenSource, Running, StepEnds
  <2>2. CASE OpenSourceFails
      BY Where, <1>2, <2>2 DEF OpenSourceFails, Fails, Running, StepFails
  <2>3. CASE FormatDisk
    <3>1. Windows /\ at = 2 /\ phase = "run" /\ sub = 0
        BY Where, <1>2, <2>3 DEF FormatDisk, Running
    <3>2. /\ at' = at /\ result' = result /\ UNCHANGED <<files, stateVars>>
          /\ \/ stick' = "fat32" /\ phase' = phase /\ sub' = sub + 1
             \/ phase' = "cleanup"
        BY <1>2, <2>3 DEF FormatDisk, Formatted, StepGoesOn, StepFails
    <3> QED
        BY <1>2, <2>3, <3>1, <3>2
  <2>4. CASE FormatWithoutSession
      BY Where, <1>2, <2>4 DEF FormatWithoutSession, Fails, Running, StepFails
  <2>5. CASE WaitForMount
      BY Where, <1>2, <2>5 DEF WaitForMount, Running, StepEnds
  <2>6. CASE WaitForMountFails
      BY Where, <1>2, <2>6 DEF WaitForMountFails, Fails, Running, StepFails
  <2>7. CASE AnalyzeWim
      BY Where, <1>2, <2>7 DEF AnalyzeWim, Running, StepEnds
  <2>8. CASE AnalyzeWimFails
      BY Where, <1>2, <2>8 DEF AnalyzeWimFails, Fails, Running, StepFails
  <2>9. CASE CopyFile
      BY Where, <1>2, <2>9 DEF CopyFile, Running
  <2>10. CASE CopyEnds
    <3>1. /\ Windows /\ at = 4 /\ StepEnds /\ phase = "run" /\ files = Wanted
          /\ UNCHANGED <<stickVars, stateVars>>
        BY Where, <1>2, <2>10 DEF CopyEnds, Running
    <3>2. at' = 5 /\ phase' = phase /\ result' = result /\ sub' = 0
        BY <1>2, <2>10, <3>1, Onward
    <3> QED
        BY <1>2, <2>10, <3>1, <3>2
  <2>11. CASE CopyFails
      BY Where, <1>2, <2>11 DEF CopyFails, Fails, Running, StepFails
  <2>12. CASE SkipSplit
    <3>1. /\ Windows /\ at = 5 /\ phase = "run" /\ StepEnds
          /\ UNCHANGED <<stickVars, stateVars>>
        BY Where, <1>2, <2>12 DEF SkipSplit, Running
    <3>2. at' = 6 /\ phase' = phase /\ result' = result /\ sub' = 0
        BY <1>2, <2>12, <3>1, Onward
    <3> QED
        BY <1>2, <2>12, <3>1, <3>2
  <2>13. CASE CreatePart
      BY Where, <1>2, <2>13 DEF CreatePart, Running
  <2>14. CASE FinishPart
    <3>1. /\ Windows /\ at = 5 /\ phase = "run" /\ UNCHANGED <<stickVars, stateVars>>
          /\ StepGoesOn \/ StepEnds
        BY Where, <1>2, <2>14 DEF FinishPart, Running
    <3>2. CASE StepGoesOn
        BY <1>2, <2>14, <3>1, <3>2 DEF StepGoesOn
    <3>3. CASE StepEnds
      <4>1. at' = 6 /\ phase' = phase /\ result' = result /\ sub' = 0
          BY <1>2, <2>14, <3>1, <3>3, Onward
      <4> QED
          BY <1>2, <2>14, <3>1, <4>1
    <3> QED
        BY <3>1, <3>2, <3>3
  <2>15. CASE SplitFails
      BY Where, <1>2, <2>15 DEF SplitFails, Fails, Running, StepFails
  <2>16. CASE ReleaseSource
      BY Where, <1>2, <2>16 DEF ReleaseSource, Running, StepGoesOn
  <2>17. CASE EjectUSB
      BY Where, <1>2, <2>17 DEF EjectUSB, Running, EjectBy, StepEnds
  <2> QED
      BY <1>2, <2>1, <2>2, <2>3, <2>4, <2>5, <2>6, <2>7, <2>8, <2>9, <2>10, <2>11, <2>12,
        <2>13, <2>14, <2>15, <2>16, <2>17 DEF WindowsStep
<1>3. CASE UNCHANGED setup /\ LinuxStep
  <2>1. CASE Prepare
      BY Where, <1>3, <2>1 DEF Prepare, Running, StepEnds
  <2>2. CASE PrepareFails
      BY Where, <1>3, <2>2 DEF PrepareFails, Fails, Running, StepFails
  <2>3. CASE Unmount
      BY Where, <1>3, <2>3 DEF Unmount, Running, StepEnds
  <2>4. CASE UnmountFails
      BY Where, <1>3, <2>4 DEF UnmountFails, Fails, Running, StepFails
  <2>5. CASE WriteISO
      BY Where, <1>3, <2>5 DEF WriteISO, Running, StepEnds, StepFails
  <2>6. CASE WriteFails
      BY Where, <1>3, <2>6 DEF WriteFails, Fails, Running, StepFails
  <2>7. CASE EjectStick
      BY Where, <1>3, <2>7 DEF EjectStick, Running, EjectBy, StepEnds
  <2> QED
      BY <1>3, <2>1, <2>2, <2>3, <2>4, <2>5, <2>6, <2>7 DEF LinuxStep
<1>4. CASE UNCHANGED setup /\ Cleanup
  <2>1. CASE CleanupSource
      BY Where, <1>4, <2>1 DEF CleanupSource, Cleaning, StepCleaned
  <2>2. CASE CleanupFormat
      BY Where, <1>4, <2>2 DEF CleanupFormat, Released, Cleaning, StepCleaned
  <2>3. CASE RemoveParts
      BY Where, <1>4, <2>3 DEF RemoveParts, Cleaning, StepCleaned
  <2>4. CASE NoCleanup
      BY Where, <1>4, <2>4 DEF NoCleanup, StepCleaned
  <2> QED
      BY <1>4, <2>1, <2>2, <2>3, <2>4 DEF Cleanup
<1>5. CASE UNCHANGED vars
    BY <1>5 DEF vars
<1> QED
    BY <1>1, <1>2, <1>3, <1>4, <1>5 DEF Next

(* Parts are removed while the volume they are on is still mounted.        *)
LEMMA StepPartFiles ==
    TypeOK /\ Ends /\ Volume /\ Content /\ PartFiles /\ [Next]_vars => PartFiles'
<1> SUFFICES ASSUME TypeOK, Ends, Volume, Content, PartFiles, [Next]_vars PROVE PartFiles'
    OBVIOUS
<1> USE DEF TypeOK, LastStep, Windows, Ends, Ran, Volume, Content, PartFiles, MountedBy,
        worldVars, stickVars, stateVars
<1>1. CASE UNCHANGED setup /\ World
  <2>1. CASE Cancel
      BY Where, <1>1, <2>1 DEF Cancel
  <2>2. CASE SessionLost
      BY Where, <1>1, <2>2 DEF SessionLost
  <2>3. CASE VolumeTaken
      BY Where, <1>1, <2>3 DEF VolumeTaken
  <2> QED
      BY <1>1, <2>1, <2>2, <2>3 DEF World
<1>2. CASE UNCHANGED setup /\ WindowsStep
  <2>1. CASE OpenSource
      BY Where, <1>2, <2>1 DEF OpenSource, Running, StepEnds
  <2>2. CASE OpenSourceFails
      BY Where, <1>2, <2>2 DEF OpenSourceFails, Fails, Running, StepFails
  <2>3. CASE FormatDisk
      BY Where, <1>2, <2>3 DEF FormatDisk, Running, Formatted, StepGoesOn, StepFails
  <2>4. CASE FormatWithoutSession
      BY Where, <1>2, <2>4 DEF FormatWithoutSession, Fails, Running, StepFails
  <2>5. CASE WaitForMount
      BY Where, <1>2, <2>5 DEF WaitForMount, Running, StepEnds
  <2>6. CASE WaitForMountFails
      BY Where, <1>2, <2>6 DEF WaitForMountFails, Fails, Running, StepFails
  <2>7. CASE AnalyzeWim
      BY Where, <1>2, <2>7 DEF AnalyzeWim, Running, StepEnds
  <2>8. CASE AnalyzeWimFails
      BY Where, <1>2, <2>8 DEF AnalyzeWimFails, Fails, Running, StepFails
  <2>9. CASE CopyFile
      BY Where, <1>2, <2>9 DEF CopyFile, Running
  <2>10. CASE CopyEnds
      BY Where, <1>2, <2>10 DEF CopyEnds, Running, StepEnds
  <2>11. CASE CopyFails
      BY Where, <1>2, <2>11 DEF CopyFails, Fails, Running, StepFails
  <2>12. CASE SkipSplit
      BY Where, <1>2, <2>12 DEF SkipSplit, Running, StepEnds
  <2>13. CASE CreatePart
      BY Where, <1>2, <2>13 DEF CreatePart, Running
  <2>14. CASE FinishPart
    <3>1. /\ Windows /\ at = 5 /\ phase = "run" /\ needsSplit /\ partFiles = sub + 1
          /\ UNCHANGED <<partFiles, needsSplit>> /\ (StepGoesOn \/ StepEnds)
        BY Where, <1>2, <2>14 DEF FinishPart, Running
    <3>2. CASE StepGoesOn
        BY <1>2, <2>14, <3>1, <3>2 DEF StepGoesOn
    <3>3. CASE StepEnds
      <4>1. at' = 6 /\ phase' = phase /\ result' = result /\ sub' = 0
          BY <1>2, <2>14, <3>1, <3>3, Onward
      <4> QED
          BY <1>2, <2>14, <3>1, <4>1
    <3> QED
        BY <3>1, <3>2, <3>3
  <2>15. CASE SplitFails
      BY Where, <1>2, <2>15 DEF SplitFails, Fails, Running, StepFails
  <2>16. CASE ReleaseSource
      BY Where, <1>2, <2>16 DEF ReleaseSource, Running, StepGoesOn
  <2>17. CASE EjectUSB
      BY Where, <1>2, <2>17 DEF EjectUSB, Running, EjectBy, StepEnds
  <2> QED
      BY <1>2, <2>1, <2>2, <2>3, <2>4, <2>5, <2>6, <2>7, <2>8, <2>9, <2>10, <2>11, <2>12,
        <2>13, <2>14, <2>15, <2>16, <2>17 DEF WindowsStep
<1>3. CASE UNCHANGED setup /\ LinuxStep
  <2>1. CASE Prepare
      BY Where, <1>3, <2>1 DEF Prepare, Running, StepEnds
  <2>2. CASE PrepareFails
      BY Where, <1>3, <2>2 DEF PrepareFails, Fails, Running, StepFails
  <2>3. CASE Unmount
      BY Where, <1>3, <2>3 DEF Unmount, Running, StepEnds
  <2>4. CASE UnmountFails
      BY Where, <1>3, <2>4 DEF UnmountFails, Fails, Running, StepFails
  <2>5. CASE WriteISO
      BY Where, <1>3, <2>5 DEF WriteISO, Running, StepEnds, StepFails
  <2>6. CASE WriteFails
      BY Where, <1>3, <2>6 DEF WriteFails, Fails, Running, StepFails
  <2>7. CASE EjectStick
      BY Where, <1>3, <2>7 DEF EjectStick, Running, EjectBy, StepEnds
  <2> QED
      BY <1>3, <2>1, <2>2, <2>3, <2>4, <2>5, <2>6, <2>7 DEF LinuxStep
<1>4. CASE UNCHANGED setup /\ Cleanup
  <2>1. CASE CleanupSource
      BY Where, <1>4, <2>1 DEF CleanupSource, Cleaning, StepCleaned
  <2>2. CASE CleanupFormat
      BY Where, <1>4, <2>2 DEF CleanupFormat, Released, Cleaning, StepCleaned
  <2>3. CASE RemoveParts
      BY Where, <1>4, <2>3 DEF RemoveParts, Cleaning, StepCleaned
  <2>4. CASE NoCleanup
      BY Where, <1>4, <2>4 DEF NoCleanup, StepCleaned
  <2> QED
      BY <1>4, <2>1, <2>2, <2>3, <2>4 DEF Cleanup
<1>5. CASE UNCHANGED vars
    BY <1>5 DEF vars
<1> QED
    BY <1>1, <1>2, <1>3, <1>4, <1>5 DEF Next

-----------------------------------------------------------------------------
(* The split.                                                              *)

(* A set of numbers with 0, and with each number up to n that comes after  *)
(* one of its own, has them all.                                           *)
LEMMA AllUpTo ==
    ASSUME NEW n \in Nat, NEW S, 0 \in S, \A k \in 1 .. n : k - 1 \in S => k \in S
    PROVE  \A k \in 0 .. n : k \in S
<1> DEFINE R == {ss \in Nat \X Nat : ss[1] < ss[2]}
           T == {k \in 0 .. n : k \notin S}
<1>1. IsWellFoundedOn(R, Nat)
    BY NatLessThanWellFounded, Zenon DEF OpToRel
<1> SUFFICES ASSUME T # {} PROVE FALSE
    OBVIOUS
<1>2. T \subseteq Nat
    OBVIOUS
<1>3. PICK x \in T : \A y \in T : ~ (<<y, x>> \in R)
    BY <1>1, <1>2, WFMin
<1>4. x \in 1 .. n /\ x \notin S
    OBVIOUS
<1>5. x - 1 \in Nat /\ x - 1 \in 0 .. n /\ x - 1 < x
    BY <1>4
<1>6. x - 1 \in T
    BY <1>4, <1>5
<1>7. <<x - 1, x>> \in R
  <2>1. <<x - 1, x>> \in Nat \X Nat /\ <<x - 1, x>>[1] < <<x - 1, x>>[2]
      BY <1>4, <1>5
  <2> QED
      BY <2>1
<1> QED
    BY <1>3, <1>6, <1>7

(* Functions built by recursion up to n: the steps, and what they give.    *)
StepsTo(n, A) == [1 .. n -> [A -> A]]
FollowsTo(n, f, A, a, g) ==
    f \in [0 .. n -> A] /\ f[0] = a /\ \A k \in 1 .. n : f[k] = g[k][f[k - 1]]

(* There is a function with a given first value in A and given steps from  *)
(* each value to the next.                                                 *)
LEMMA RecursionTo ==
    ASSUME NEW n \in Nat, NEW A, NEW a \in A, NEW g \in StepsTo(n, A)
    PROVE  \E f : FollowsTo(n, f, A, a, g)
<1> DEFINE S == {m \in 0 .. n : \E f : FollowsTo(m, f, A, a, g)}
<1>1. 0 \in S
  <2>1. FollowsTo(0, [i \in 0 .. 0 |-> a], A, a, g)
      BY DEF FollowsTo
  <2> QED
      BY <2>1
<1>2. ASSUME NEW k \in 1 .. n, k - 1 \in S PROVE k \in S
  <2>1. PICK f : FollowsTo(k - 1, f, A, a, g)
      BY <1>2
  <2>2. f \in [0 .. k - 1 -> A] /\ f[0] = a /\ \A i \in 1 .. k - 1 : f[i] = g[i][f[i - 1]]
      BY <2>1 DEF FollowsTo
  <2> DEFINE h == [i \in 0 .. k |-> IF i = k THEN g[k][f[k - 1]] ELSE f[i]]
  <2>3. f[k - 1] \in A /\ g[k][f[k - 1]] \in A
      BY <2>2 DEF StepsTo
  <2>4. h \in [0 .. k -> A] /\ h[0] = a
      BY <2>2, <2>3
  <2>5. ASSUME NEW i \in 1 .. k PROVE h[i] = g[i][h[i - 1]]
    <3>1. i - 1 \in 0 .. k - 1 /\ i - 1 # k /\ h[i - 1] = f[i - 1]
        OBVIOUS
    <3>2. CASE i = k
        BY <3>1, <3>2
    <3>3. CASE i # k
        BY <2>2, <3>1, <3>3
    <3> QED
        BY <3>2, <3>3
  <2>6. FollowsTo(k, h, A, a, g)
    <3> HIDE DEF h
    <3> QED
        BY <2>4, <2>5 DEF FollowsTo
  <2> QED
      BY <2>6
<1>3. n \in S
  <2> HIDE DEF S
  <2> QED
      BY <1>1, <1>2, AllUpTo
<1> QED
    BY <1>3

(* The table that Those reads.                                             *)
ThoseTable(upTo, blobs, metadata) ==
    upTo = [k \in 0 .. Len(blobs) |->
               IF k = 0 THEN <<>>
               ELSE IF blobs[k].isMetadata = metadata THEN Append(upTo[k - 1], blobs[k])
               ELSE upTo[k - 1]]

(* What one kind of blob leaves of a list is a list of blobs.              *)
LEMMA ThoseAreBlobs ==
    ASSUME NEW blobs \in Seq(BlobRecords), NEW metadata
    PROVE  Those(blobs, metadata) \in Seq(BlobRecords)
<1> DEFINE A == Seq(BlobRecords)
           n == Len(blobs)
           next(k, x) == IF blobs[k].isMetadata = metadata THEN Append(x, blobs[k]) ELSE x
           g == [k \in 1 .. n |-> [x \in A |-> next(k, x)]]
           T == CHOOSE upTo : ThoseTable(upTo, blobs, metadata)
<1>1. n \in Nat /\ <<>> \in A /\ \A k \in 1 .. n : blobs[k] \in BlobRecords
    OBVIOUS
<1>2. \A k \in 1 .. n, x \in A : next(k, x) \in A
    BY <1>1
<1> HIDE DEF A, n
<1>3. g \in StepsTo(n, A)
  <2> HIDE DEF next
  <2> QED
      BY <1>2 DEF StepsTo
<1>4. PICK f : FollowsTo(n, f, A, <<>>, g)
  <2> HIDE DEF g
  <2> QED
      BY <1>1, <1>3, RecursionTo
<1> HIDE DEF next
<1>5. /\ f \in [0 .. n -> A] /\ f[0] = <<>>
      /\ \A k \in 1 .. n : k - 1 \in 0 .. n /\ f[k] = next(k, f[k - 1])
  <2>1. \A k \in 1 .. n : k - 1 \in 0 .. n
      BY <1>1
  <2> QED
      BY <1>4, <2>1 DEF FollowsTo
<1>6. f = [k \in 0 .. n |-> IF k = 0 THEN <<>> ELSE next(k, f[k - 1])]
  <2>1. \A k \in 0 .. n : k = 0 \/ k \in 1 .. n
      BY <1>1
  <2> QED
      BY <1>5, <2>1
<1>7. ThoseTable(T, blobs, metadata)
    BY <1>6 DEF ThoseTable, next, n
<1>8. Those(blobs, metadata) = T[n]
    BY Zenon DEF Those, ThoseTable, n
<1> HIDE DEF T
<1>9. T = [k \in 0 .. n |-> IF k = 0 THEN <<>> ELSE next(k, T[k - 1])]
    BY <1>7 DEF ThoseTable, next, n
<1> DEFINE S == {k \in 0 .. n : T[k] \in A}
<1>10. 0 \in S
    BY <1>1, <1>9
<1>11. ASSUME NEW k \in 1 .. n, k - 1 \in S PROVE k \in S
  <2>1. T[k] = next(k, T[k - 1]) /\ k \in 0 .. n
      BY <1>1, <1>9
  <2> QED
      BY <1>2, <1>11, <2>1
<1>12. n \in S
  <2> HIDE DEF S
  <2>1. \A k \in 0 .. n : k \in S
      BY <1>1, <1>10, <1>11, AllUpTo
  <2> QED
      BY <1>1, <2>1
<1> QED
    BY <1>8, <1>12 DEF A

(* The parts joined so far.                                                *)
Joined(f, parts, A) ==
    /\ f \in [0 .. Len(parts) -> Seq(A)] /\ f[0] = <<>>
    /\ \A k \in 1 .. Len(parts) : f[k] = f[k - 1] \o parts[k]
JoinTable(f, parts) ==
    f = [k \in 1 .. Len(parts) |-> IF k = 1 THEN parts[k] ELSE f[k - 1] \o parts[k]]

(* FlattenSeq reads the last of such a table.                              *)
LEMMA FlattenJoins ==
    ASSUME NEW A, NEW parts \in Seq(Seq(A)), Len(parts) > 0
    PROVE  \E f : Joined(f, parts, A) /\ FlattenSeq(parts) = f[Len(parts)]
<1> DEFINE n == Len(parts)
           B == Seq(A)
           g == [k \in 1 .. n |-> [x \in B |-> x \o parts[k]]]
           T == CHOOSE f : JoinTable(f, parts)
<1>1. n \in Nat \ {0} /\ \A k \in 1 .. n : parts[k] \in B
    OBVIOUS
<1>2. <<>> \in B /\ \A x, y \in B : x \o y \in B
    BY ConcatProperties
<1>3. \A x \in B : <<>> \o x = x
    BY ConcatEmptySeq
<1> HIDE DEF n, B
<1>4. g \in StepsTo(n, B)
    BY <1>1, <1>2 DEF StepsTo
<1>5. PICK f : FollowsTo(n, f, B, <<>>, g)
  <2> HIDE DEF g
  <2> QED
      BY <1>1, <1>2, <1>4, RecursionTo
<1>6. /\ f \in [0 .. n -> B] /\ f[0] = <<>>
      /\ \A k \in 1 .. n : k - 1 \in 0 .. n /\ f[k] = f[k - 1] \o parts[k]
  <2>1. \A k \in 1 .. n : k - 1 \in 0 .. n
      BY <1>1
  <2> QED
      BY <1>5, <2>1 DEF FollowsTo
<1>15. f[1] = <<>> \o parts[1]
  <2>1. 1 \in 1 .. n /\ 1 - 1 = 0
      BY <1>1
  <2>2. f[1] = f[1 - 1] \o parts[1]
      BY <1>6, <2>1
  <2> QED
      BY <1>6, <2>1, <2>2
<1>7. Joined(f, parts, A)
    BY <1>6 DEF Joined, n, B
<1> DEFINE h == [k \in 1 .. n |-> f[k]]
<1>8. JoinTable(h, parts)
  <2>1. ASSUME NEW k \in 1 .. n
        PROVE  h[k] = IF k = 1 THEN parts[k] ELSE h[k - 1] \o parts[k]
    <3>1. CASE k = 1
      <4>1. h[k] = <<>> \o parts[k]
          BY <1>15, <3>1
      <4> QED
          BY <1>1, <1>3, <3>1, <4>1
    <3>2. CASE k # 1
      <4>1. k - 1 \in 1 .. n
          BY <1>1, <3>2
      <4> QED
          BY <1>6, <3>2, <4>1
    <3> QED
        BY <3>1, <3>2
  <2>2. h = [k \in 1 .. n |-> h[k]]
      OBVIOUS
  <2> HIDE DEF h
  <2>3. h = [k \in 1 .. n |-> IF k = 1 THEN parts[k] ELSE h[k - 1] \o parts[k]]
      BY <2>1, <2>2
  <2> QED
      BY <2>3 DEF JoinTable, n
<1>9. JoinTable(T, parts)
    BY <1>8
<1>10. FlattenSeq(parts) = T[n]
  <2>1. Len(parts) # 0
      BY <1>1 DEF n
  <2> QED
      BY <2>1, Zenon DEF FlattenSeq, JoinTable, n
<1> HIDE DEF T
<1>11. \A k \in 1 .. n : T[k] = IF k = 1 THEN parts[k] ELSE T[k - 1] \o parts[k]
  <2>1. T = [k \in 1 .. n |-> IF k = 1 THEN parts[k] ELSE T[k - 1] \o parts[k]]
      BY <1>9 DEF JoinTable, n
  <2> QED
      BY <2>1
<1> DEFINE S == {k \in 0 .. n : k = 0 \/ T[k] = f[k]}
<1>12. 0 \in S
    BY <1>1
<1>13. ASSUME NEW k \in 1 .. n, k - 1 \in S PROVE k \in S
  <2>1. T[k] = f[k]
    <3>1. CASE k = 1
      <4>1. f[k] = <<>> \o parts[k]
          BY <1>15, <3>1
      <4> QED
          BY <1>1, <1>3, <1>11, <3>1, <4>1
    <3>2. CASE k # 1
      <4>1. T[k - 1] = f[k - 1]
          BY <1>13, <3>2
      <4> QED
          BY <1>6, <1>11, <3>2, <4>1
    <3> QED
        BY <3>1, <3>2
  <2> QED
      BY <1>1, <2>1
<1>14. n \in S
  <2> HIDE DEF S
  <2>1. \A k \in 0 .. n : k \in S
      BY <1>1, <1>12, <1>13, AllUpTo
  <2> QED
      BY <1>1, <2>1
<1> QED
    BY <1>1, <1>7, <1>10, <1>14 DEF n

(* Parts alike are joined alike.                                           *)
LEMMA JoinedAlike ==
    ASSUME NEW A, NEW p \in Seq(Seq(A)), NEW q \in Seq(Seq(A)),
           NEW f, NEW h, Joined(f, p, A), Joined(h, q, A),
           NEW m \in Nat, m <= Len(p), m <= Len(q), \A k \in 1 .. m : p[k] = q[k]
    PROVE  f[m] = h[m]
<1> DEFINE S == {k \in 0 .. m : f[k] = h[k]}
<1>1. 0 \in S
    BY DEF Joined
<1>2. ASSUME NEW k \in 1 .. m, k - 1 \in S PROVE k \in S
  <2>1. k \in 1 .. Len(p) /\ k \in 1 .. Len(q) /\ k \in 0 .. m
      OBVIOUS
  <2>2. f[k] = f[k - 1] \o p[k] /\ h[k] = h[k - 1] \o q[k]
      BY <2>1 DEF Joined
  <2>3. f[k - 1] = h[k - 1] /\ p[k] = q[k]
      BY <1>2
  <2> QED
      BY <2>1, <2>2, <2>3
<1>3. \A k \in 0 .. m : k \in S
  <2> HIDE DEF S
  <2> QED
      BY <1>1, <1>2, AllUpTo
<1> QED
    BY <1>3

(* One part more.                                                          *)
LEMMA FlattenAppend ==
    ASSUME NEW A, NEW parts \in Seq(Seq(A)), Len(parts) > 0, NEW s \in Seq(A)
    PROVE  /\ Append(parts, s) \in Seq(Seq(A)) /\ Len(Append(parts, s)) = Len(parts) + 1
           /\ FlattenSeq(Append(parts, s)) = FlattenSeq(parts) \o s
<1> DEFINE q == Append(parts, s)
           n == Len(parts)
<1>1. /\ n \in Nat \ {0} /\ q \in Seq(Seq(A)) /\ Len(q) = n + 1 /\ q[n + 1] = s
      /\ \A k \in 1 .. n : q[k] = parts[k]
    OBVIOUS
<1> HIDE DEF q
<1>2. PICK f : Joined(f, parts, A) /\ FlattenSeq(parts) = f[n]
    BY <1>1, FlattenJoins
<1>3. PICK h : Joined(h, q, A) /\ FlattenSeq(q) = h[n + 1]
  <2>1. Len(q) > 0
      BY <1>1
  <2> QED
      BY <1>1, <2>1, FlattenJoins
<1>4. h[n] = f[n]
  <2>1. n \in Nat /\ n <= Len(parts) /\ n <= Len(q) /\ \A k \in 1 .. n : parts[k] = q[k]
      BY <1>1
  <2> HIDE DEF n
  <2> QED
      BY <1>1, <1>2, <1>3, <2>1, JoinedAlike
<1>5. h[n + 1] = h[n] \o q[n + 1]
  <2>1. n + 1 \in 1 .. Len(q) /\ (n + 1) - 1 = n
      BY <1>1
  <2> HIDE DEF n
  <2>2. h[n + 1] = h[(n + 1) - 1] \o q[n + 1]
      BY <1>3, <2>1 DEF Joined
  <2> QED
      BY <2>1, <2>2
<1>6. FlattenSeq(q) = FlattenSeq(parts) \o s
  <2> HIDE DEF n
  <2> QED
      BY <1>1, <1>2, <1>3, <1>4, <1>5
<1> QED
    BY <1>1, <1>6 DEF q

(* One blob more in the last part.                                         *)
LEMMA FlattenGrow ==
    ASSUME NEW A, NEW parts \in Seq(Seq(A)), Len(parts) > 0, NEW b \in A
    PROVE  LET grown == [parts EXCEPT ![Len(parts)] = Append(@, b)] IN
           /\ grown \in Seq(Seq(A)) /\ Len(grown) = Len(parts)
           /\ FlattenSeq(grown) = FlattenSeq(parts) \o <<b>>
<1> DEFINE n == Len(parts)
           q == [parts EXCEPT ![n] = Append(@, b)]
<1>1. n \in Nat \ {0} /\ n \in 1 .. n /\ parts[n] \in Seq(A)
    OBVIOUS
<1>2. Append(parts[n], b) \in Seq(A) /\ Append(parts[n], b) = parts[n] \o <<b>>
  <2>1. PICK x \in Seq(A) : x = parts[n]
      BY <1>1
  <2>2. Append(x, b) = x \o <<b>>
    <3>1. x \o <<b>> \in Seq(A) /\ Len(x \o <<b>>) = Len(x) + 1
        OBVIOUS
    <3>2. \A i \in 1 .. Len(x) + 1 : Append(x, b)[i] = (x \o <<b>>)[i]
        OBVIOUS
    <3>3. Append(x, b) \in Seq(A) /\ Len(Append(x, b)) = Len(x) + 1
        OBVIOUS
    <3> QED
        BY <3>1, <3>2, <3>3, SeqEqual
  <2> QED
      BY <2>1, <2>2
<1>3. /\ q \in Seq(Seq(A)) /\ Len(q) = n /\ q[n] = parts[n] \o <<b>>
      /\ \A k \in 1 .. n - 1 : q[k] = parts[k]
  <2>1. q = [parts EXCEPT ![n] = Append(parts[n], b)]
      BY <1>1
  <2>2. PICK e \in Seq(A) : e = Append(parts[n], b)
      BY <1>2
  <2>3. PICK r : r = [parts EXCEPT ![n] = e]
      OBVIOUS
  <2>4. q = r
      BY <2>1, <2>2, <2>3
  <2>5. /\ r \in Seq(Seq(A)) /\ Len(r) = n
        /\ \A j \in 1 .. n : r[j] = IF j = n THEN e ELSE parts[j]
      BY <1>1, <2>3, ExceptSeq
  <2>6. \A k \in 1 .. n - 1 : k \in 1 .. n /\ k # n
      BY <1>1
  <2> HIDE DEF q, n
  <2> QED
      BY <1>1, <1>2, <2>2, <2>4, <2>5, <2>6
<1> HIDE DEF q
<1>4. PICK f : Joined(f, parts, A) /\ FlattenSeq(parts) = f[n]
    BY <1>1, FlattenJoins
<1>5. PICK h : Joined(h, q, A) /\ FlattenSeq(q) = h[n]
  <2>1. Len(q) > 0
      BY <1>1, <1>3
  <2> HIDE DEF n
  <2> QED
      BY <1>3, <2>1, FlattenJoins
<1>6. h[n - 1] = f[n - 1]
  <2> DEFINE m == n - 1
  <2>1. m \in Nat /\ m <= Len(parts) /\ m <= Len(q) /\ \A k \in 1 .. m : parts[k] = q[k]
      BY <1>1, <1>3
  <2>2. Joined(f, parts, A) /\ Joined(h, q, A) /\ q \in Seq(Seq(A))
      BY <1>3, <1>4, <1>5
  <2> HIDE DEF m, n
  <2>3. f[m] = h[m]
      BY <2>1, <2>2, JoinedAlike
  <2> QED
      BY <2>3 DEF m
<1>7. h[n] = h[n - 1] \o q[n] /\ f[n] = f[n - 1] \o parts[n] /\ f[n - 1] \in Seq(A)
  <2>1. n \in 1 .. Len(q) /\ n \in 1 .. Len(parts) /\ n - 1 \in 0 .. Len(parts)
      BY <1>1, <1>3
  <2> HIDE DEF n
  <2> QED
      BY <1>4, <1>5, <2>1 DEF Joined
<1>8. f[n - 1] \o (parts[n] \o <<b>>) = (f[n - 1] \o parts[n]) \o <<b>>
  <2>1. <<b>> \in Seq(A)
      OBVIOUS
  <2>2. ASSUME NEW x \in Seq(A), NEW y \in Seq(A), NEW z \in Seq(A)
        PROVE  (x \o y) \o z = x \o (y \o z)
      BY ConcatAssociative
  <2> HIDE DEF n
  <2> QED
      BY <1>1, <1>7, <2>1, <2>2
<1>9. FlattenSeq(q) = FlattenSeq(parts) \o <<b>>
  <2> HIDE DEF n
  <2> QED
      BY <1>3, <1>4, <1>5, <1>6, <1>7, <1>8
<1> QED
    BY <1>3, <1>9 DEF q

(* Lists of parts on the way: there is a first.                            *)
PartLists == {p \in Seq(Seq(BlobRecords)) : Len(p) > 0}

(* Each blob comes after all those dealt before it.                        *)
LEMMA NextPartsIs ==
    ASSUME NEW parts \in PartLists, NEW b \in BlobRecords, NEW metadata, NEW maxPartSize
    PROVE  LET next == NextParts(parts, b, metadata, maxPartSize) IN
           next \in PartLists /\ FlattenSeq(next) = FlattenSeq(parts) \o <<b>>
<1>1. parts \in Seq(Seq(BlobRecords)) /\ Len(parts) > 0 /\ <<b>> \in Seq(BlobRecords)
    BY DEF PartLists
<1> DEFINE next == NextParts(parts, b, metadata, maxPartSize)
<1>2. CASE Full(parts[Len(parts)], b, metadata, maxPartSize)
  <2>1. next = Append(parts, <<b>>)
      BY <1>2 DEF NextParts, AddBlob
  <2>2. /\ Append(parts, <<b>>) \in Seq(Seq(BlobRecords))
        /\ Len(Append(parts, <<b>>)) = Len(parts) + 1
        /\ FlattenSeq(Append(parts, <<b>>)) = FlattenSeq(parts) \o <<b>>
      BY <1>1, FlattenAppend
  <2>3. Len(parts) + 1 > 0
      BY <1>1
  <2> HIDE DEF next
  <2> QED
      BY <2>1, <2>2, <2>3 DEF PartLists, next
<1>3. CASE ~Full(parts[Len(parts)], b, metadata, maxPartSize)
  <2> DEFINE grown == [parts EXCEPT ![Len(parts)] = Append(@, b)]
  <2>1. next = grown
      BY <1>3 DEF NextParts, AddBlob
  <2>2. /\ grown \in Seq(Seq(BlobRecords)) /\ Len(grown) = Len(parts)
        /\ FlattenSeq(grown) = FlattenSeq(parts) \o <<b>>
      BY <1>1, FlattenGrow
  <2> HIDE DEF next, grown
  <2> QED
      BY <1>1, <2>1, <2>2 DEF PartLists, next
<1> QED
    BY <1>2, <1>3

(* The parts after each blob.                                              *)
Dealing(after, metadata, regular, maxPartSize) ==
    /\ after \in [0 .. Len(regular) -> PartLists] /\ after[0] = <<metadata>>
    /\ \A k \in 1 .. Len(regular) :
          after[k] = NextParts(after[k - 1], regular[k], metadata, maxPartSize)
DealTable(after, metadata, regular, maxPartSize) ==
    after = [k \in 0 .. Len(regular) |->
                IF k = 0 THEN <<metadata>>
                ELSE NextParts(after[k - 1], regular[k], metadata, maxPartSize)]

(* AssignBlobsToParts reads the last of such a table.                      *)
LEMMA BlobsAreDealt ==
    ASSUME NEW blobs \in Seq(BlobRecords), NEW maxPartSize
    PROVE  \E after : /\ Dealing(after, Metadata(blobs), Regular(blobs), maxPartSize)
                      /\ AssignBlobsToParts(blobs, maxPartSize) = after[Len(Regular(blobs))]
<1> DEFINE m == Metadata(blobs)
           r == Regular(blobs)
           n == Len(r)
           A == PartLists
           next(k, x) == NextParts(x, r[k], m, maxPartSize)
           g == [k \in 1 .. n |-> [x \in A |-> next(k, x)]]
           T == CHOOSE after : DealTable(after, m, r, maxPartSize)
<1>1. m \in Seq(BlobRecords) /\ r \in Seq(BlobRecords)
    BY ThoseAreBlobs DEF Metadata, Regular
<1> HIDE DEF m, r
<1>2. n \in Nat /\ \A k \in 1 .. n : r[k] \in BlobRecords
    BY <1>1
<1>3. <<m>> \in A
    BY <1>1 DEF PartLists
<1>4. \A k \in 1 .. n, x \in A : next(k, x) \in A
    BY <1>2, NextPartsIs
<1> HIDE DEF n, A, next
<1>5. g \in StepsTo(n, A)
    BY <1>4 DEF StepsTo
<1>6. PICK f : FollowsTo(n, f, A, <<m>>, g)
  <2> HIDE DEF g
  <2> QED
      BY <1>2, <1>3, <1>5, RecursionTo
<1>7. /\ f \in [0 .. n -> A] /\ f[0] = <<m>>
      /\ \A k \in 1 .. n : k - 1 \in 0 .. n /\ f[k] = next(k, f[k - 1])
  <2>1. \A k \in 1 .. n : k - 1 \in 0 .. n
      BY <1>2
  <2> QED
      BY <1>6, <2>1 DEF FollowsTo
<1>8. f = [k \in 0 .. n |-> IF k = 0 THEN <<m>> ELSE next(k, f[k - 1])]
  <2>1. \A k \in 0 .. n : k = 0 \/ k \in 1 .. n
      BY <1>2
  <2> QED
      BY <1>7, <2>1
<1>9. DealTable(T, m, r, maxPartSize)
    BY <1>8 DEF DealTable, next, n
<1>10. AssignBlobsToParts(blobs, maxPartSize) = T[n]
    BY Zenon DEF AssignBlobsToParts, DealTable, n, m, r
<1> HIDE DEF T
<1>11. T = [k \in 0 .. n |-> IF k = 0 THEN <<m>> ELSE next(k, T[k - 1])]
    BY <1>9 DEF DealTable, next, n
<1> DEFINE S == {k \in 0 .. n : T[k] \in A}
<1>12. 0 \in S
    BY <1>2, <1>3, <1>11
<1>13. ASSUME NEW k \in 1 .. n, k - 1 \in S PROVE k \in S
  <2>1. T[k] = next(k, T[k - 1]) /\ k \in 0 .. n
      BY <1>2, <1>11
  <2> QED
      BY <1>4, <1>13, <2>1
<1>14. \A k \in 0 .. n : T[k] \in A
  <2>1. \A k \in 0 .. n : k \in S
    <3> HIDE DEF S
    <3> QED
        BY <1>2, <1>12, <1>13, AllUpTo
  <2> QED
      BY <2>1
<1>15. T \in [0 .. n -> A]
  <2>1. T = [k \in 0 .. n |-> T[k]]
      BY <1>11
  <2> QED
      BY <1>14, <2>1
<1>16. T[0] = <<m>> /\ \A k \in 1 .. n : T[k] = next(k, T[k - 1])
  <2>1. 0 \in 0 .. n /\ \A k \in 1 .. n : k \in 0 .. n /\ k # 0
      BY <1>2
  <2> QED
      BY <1>11, <2>1
<1>17. Dealing(T, m, r, maxPartSize)
    BY <1>15, <1>16 DEF Dealing, next, n, A
<1> QED
    BY <1>10, <1>17 DEF m, r, n

(* Every blob is dealt once: the metadata first, the others in their order *)
(* behind it (split.go:255).                                               *)
LEMMA EveryBlobIsDealt ==
    ASSUME NEW blobs \in Seq(BlobRecords), NEW maxPartSize
    PROVE  LET parts == AssignBlobsToParts(blobs, maxPartSize) IN
           /\ parts \in PartLists
           /\ FlattenSeq(parts) = Metadata(blobs) \o Regular(blobs)
<1> DEFINE m == Metadata(blobs)
           r == Regular(blobs)
           n == Len(r)
<1>1. PICK after : /\ Dealing(after, m, r, maxPartSize)
                   /\ AssignBlobsToParts(blobs, maxPartSize) = after[n]
    BY BlobsAreDealt
<1>2. m \in Seq(BlobRecords) /\ r \in Seq(BlobRecords)
    BY ThoseAreBlobs DEF Metadata, Regular
<1> HIDE DEF m, r
<1>3. n \in Nat /\ \A k \in 1 .. n : r[k] \in BlobRecords
    BY <1>2
<1> DEFINE S == {k \in 0 .. n : FlattenSeq(after[k]) = m \o SubSeq(r, 1, k)}
<1>4. 0 \in S
  <2>1. PICK p \in Seq(Seq(BlobRecords)) : p = <<m>> /\ Len(p) = 1 /\ p[1] = m
    <3>1. <<m>> \in Seq(Seq(BlobRecords)) /\ Len(<<m>>) = 1 /\ <<m>>[1] = m
        BY <1>2
    <3> QED
        BY <3>1, Zenon
  <2>2. PICK f : Joined(f, p, BlobRecords) /\ FlattenSeq(p) = f[1]
    <3>1. Len(p) > 0
        BY <2>1
    <3> QED
        BY <2>1, <3>1, FlattenJoins
  <2>3. f[1] = <<>> \o m
    <3>1. 1 \in 1 .. Len(p) /\ 1 - 1 = 0
        BY <2>1
    <3>2. f[1] = f[1 - 1] \o p[1] /\ f[0] = <<>>
        BY <2>2, <3>1 DEF Joined
    <3> QED
        BY <2>1, <3>1, <3>2
  <2>4. SubSeq(r, 1, 0) = <<>>
      BY SubSeqEmpty
  <2>5. <<>> \o m = m /\ m \o <<>> = m
      BY <1>2, ConcatEmptySeq
  <2>6. after[0] = <<m>> /\ 0 \in 0 .. n
      BY <1>1, <1>3 DEF Dealing
  <2> QED
      BY <2>1, <2>2, <2>3, <2>4, <2>5, <2>6
<1>5. ASSUME NEW k \in 1 .. n, k - 1 \in S PROVE k \in S
  <2>1. /\ after[k - 1] \in PartLists
        /\ after[k] = NextParts(after[k - 1], r[k], m, maxPartSize)
    <3>1. k - 1 \in 0 .. n
        BY <1>3
    <3> QED
        BY <1>1, <3>1 DEF Dealing
  <2>2. FlattenSeq(after[k]) = FlattenSeq(after[k - 1]) \o <<r[k]>>
      BY <1>3, <2>1, NextPartsIs
  <2>3. SubSeq(r, 1, k) = SubSeq(r, 1, k - 1) \o <<r[k]>>
    <3>1. 1 \in 1 .. Len(r) /\ k \in 1 .. Len(r)
        BY <1>3
    <3> HIDE DEF n
    <3> QED
        BY <1>2, <3>1, SubSeqRecursiveSecond
  <2>4. SubSeq(r, 1, k - 1) \in Seq(BlobRecords) /\ <<r[k]>> \in Seq(BlobRecords)
    <3> DEFINE j == k - 1
    <3>1. j \in Int /\ 1 \in Int /\ \A i \in 1 .. j : r[i] \in BlobRecords
        BY <1>3
    <3> HIDE DEF j
    <3>2. SubSeq(r, 1, j) \in Seq(BlobRecords)
        BY <3>1, SubSeqProperties
    <3> QED
        BY <1>3, <3>2 DEF j
  <2>5. ASSUME NEW x \in Seq(BlobRecords), NEW y \in Seq(BlobRecords),
               NEW z \in Seq(BlobRecords)
        PROVE  (x \o y) \o z = x \o (y \o z)
      BY ConcatAssociative
  <2>6. FlattenSeq(after[k - 1]) = m \o SubSeq(r, 1, k - 1)
      BY <1>5
  <2>7. FlattenSeq(after[k]) = m \o SubSeq(r, 1, k)
    <3>1. PICK s \in Seq(BlobRecords) : s = SubSeq(r, 1, k - 1)
        BY <2>4
    <3>2. PICK z \in Seq(BlobRecords) : z = <<r[k]>>
        BY <2>4
    <3> HIDE DEF S, n
    <3>3. (m \o s) \o z = m \o (s \o z)
        BY <1>2, <2>5
    <3> QED
        BY <2>2, <2>3, <2>6, <3>1, <3>2, <3>3
  <2> QED
      BY <1>3, <2>7
<1>6. n \in S
  <2> HIDE DEF S, n
  <2>1. \A k \in 0 .. n : k \in S
      BY <1>3, <1>4, <1>5, AllUpTo
  <2> QED
      BY <1>3, <2>1
<1>7. SubSeq(r, 1, n) = r
    BY <1>2, SubSeqFull
<1>8. after[n] \in PartLists
  <2>1. n \in 0 .. Len(r)
      BY <1>3
  <2> HIDE DEF n
  <2> QED
      BY <1>1, <2>1 DEF Dealing
<1> QED
    BY <1>1, <1>6, <1>7, <1>8 DEF m, r

(* The sizes of a part's blobs, summed up so far.                          *)
Sized(f, part) ==
    /\ f \in [0 .. Len(part) -> Nat] /\ f[0] = 0
    /\ \A k \in 1 .. Len(part) : f[k] = f[k - 1] + part[k].size
SizeTable(f, part) ==
    f = [k \in 0 .. Len(part) |-> IF k = 0 THEN 0 ELSE f[k - 1] + part[k].size]

(* DataSize reads the last of such a table.                                *)
LEMMA SizesAreSummed ==
    ASSUME NEW part \in Seq(BlobRecords)
    PROVE  \E f : Sized(f, part) /\ DataSize(part) = f[Len(part)]
<1> DEFINE n == Len(part)
           next(k, x) == x + part[k].size
           g == [k \in 1 .. n |-> [x \in Nat |-> next(k, x)]]
           T == CHOOSE f : SizeTable(f, part)
<1>1. n \in Nat /\ \A k \in 1 .. n : part[k].size \in Nat
  <2>1. n \in Nat /\ \A k \in 1 .. n : part[k] \in BlobRecords
      OBVIOUS
  <2>2. \A b \in BlobRecords : b.size \in Nat
      BY DEF BlobRecords
  <2> QED
      BY <2>1, <2>2
<1>2. \A k \in 1 .. n, x \in Nat : next(k, x) \in Nat
    BY <1>1
<1> HIDE DEF n, next
<1>3. g \in StepsTo(n, Nat)
    BY <1>2 DEF StepsTo
<1>4. PICK f : FollowsTo(n, f, Nat, 0, g)
  <2>1. 0 \in Nat
      OBVIOUS
  <2> HIDE DEF g
  <2> QED
      BY <1>1, <1>3, <2>1, RecursionTo
<1>5. /\ f \in [0 .. n -> Nat] /\ f[0] = 0
      /\ \A k \in 1 .. n : k - 1 \in 0 .. n /\ f[k] = next(k, f[k - 1])
  <2>1. \A k \in 1 .. n : k - 1 \in 0 .. n
      BY <1>1
  <2> QED
      BY <1>4, <2>1 DEF FollowsTo
<1>6. f = [k \in 0 .. n |-> IF k = 0 THEN 0 ELSE next(k, f[k - 1])]
  <2>1. \A k \in 0 .. n : k = 0 \/ k \in 1 .. n
      BY <1>1
  <2> QED
      BY <1>5, <2>1
<1>7. SizeTable(T, part)
    BY <1>6 DEF SizeTable, next, n
<1>8. DataSize(part) = T[n]
    BY Zenon DEF DataSize, SizeTable, n
<1> HIDE DEF T
<1>9. T = [k \in 0 .. n |-> IF k = 0 THEN 0 ELSE next(k, T[k - 1])]
    BY <1>7 DEF SizeTable, next, n
<1> DEFINE S == {k \in 0 .. n : T[k] \in Nat}
<1>10. 0 \in S
    BY <1>1, <1>9
<1>11. ASSUME NEW k \in 1 .. n, k - 1 \in S PROVE k \in S
  <2>1. T[k] = next(k, T[k - 1]) /\ k \in 0 .. n
      BY <1>1, <1>9
  <2> QED
      BY <1>2, <1>11, <2>1
<1>12. T \in [0 .. n -> Nat]
  <2>1. \A k \in 0 .. n : k \in S
    <3> HIDE DEF S
    <3> QED
        BY <1>1, <1>10, <1>11, AllUpTo
  <2>2. T = [k \in 0 .. n |-> T[k]]
      BY <1>9
  <2> QED
      BY <2>1, <2>2
<1>13. T[0] = 0 /\ \A k \in 1 .. n : T[k] = next(k, T[k - 1])
  <2>1. 0 \in 0 .. n /\ \A k \in 1 .. n : k \in 0 .. n /\ k # 0
      BY <1>1
  <2> QED
      BY <1>9, <2>1
<1>14. Sized(T, part)
    BY <1>12, <1>13 DEF Sized, next, n
<1> QED
    BY <1>8, <1>14 DEF n

(* A blob more adds its size.                                              *)
LEMMA SizeGrows ==
    ASSUME NEW part \in Seq(BlobRecords), NEW b \in BlobRecords
    PROVE  DataSize(part) \in Nat /\ DataSize(Append(part, b)) = DataSize(part) + b.size
<1> DEFINE n == Len(part)
           q == Append(part, b)
<1>1. /\ n \in Nat /\ q \in Seq(BlobRecords) /\ Len(q) = n + 1 /\ q[n + 1] = b
      /\ \A k \in 1 .. n : q[k] = part[k]
    OBVIOUS
<1> HIDE DEF n, q
<1>2. PICK f : Sized(f, part) /\ DataSize(part) = f[n]
    BY SizesAreSummed DEF n
<1>3. PICK h : Sized(h, q) /\ DataSize(q) = h[n + 1]
    BY <1>1, SizesAreSummed
<1> DEFINE S == {k \in 0 .. n : h[k] = f[k]}
<1>4. 0 \in S
    BY <1>1, <1>2, <1>3 DEF Sized
<1>5. ASSUME NEW k \in 1 .. n, k - 1 \in S PROVE k \in S
  <2>1. k \in 1 .. Len(part) /\ k \in 1 .. Len(q) /\ k \in 0 .. n
      BY <1>1 DEF n
  <2>2. f[k] = f[k - 1] + part[k].size /\ h[k] = h[k - 1] + q[k].size
      BY <1>2, <1>3, <2>1 DEF Sized
  <2>3. h[k - 1] = f[k - 1] /\ q[k] = part[k]
      BY <1>1, <1>5
  <2> QED
      BY <2>1, <2>2, <2>3
<1>6. h[n] = f[n]
  <2>1. \A k \in 0 .. n : k \in S
    <3> HIDE DEF S
    <3> QED
        BY <1>1, <1>4, <1>5, AllUpTo
  <2> QED
      BY <1>1, <2>1
<1>7. h[n + 1] = h[n] + b.size
  <2>1. n + 1 \in 1 .. Len(q) /\ (n + 1) - 1 = n
      BY <1>1
  <2>2. h[n + 1] = h[(n + 1) - 1] + q[n + 1].size
      BY <1>3, <2>1 DEF Sized
  <2> QED
      BY <1>1, <2>1, <2>2
<1>8. f[n] \in Nat
    BY <1>1, <1>2 DEF Sized, n
<1> QED
    BY <1>2, <1>3, <1>6, <1>7, <1>8 DEF q

(* A part within the limit, or no longer than the metadata and one blob.   *)
Bounded(part, metadata, maxPartSize) ==
    DataSize(part) <= maxPartSize \/ Len(part) <= Len(metadata) + 1

(* The next blob keeps all parts so.                                       *)
LEMMA NextPartsBounded ==
    ASSUME NEW parts \in PartLists, NEW b \in BlobRecords, NEW metadata \in Seq(BlobRecords),
           NEW maxPartSize \in Nat,
           \A i \in 1 .. Len(parts) : Bounded(parts[i], metadata, maxPartSize)
    PROVE  LET next == NextParts(parts, b, metadata, maxPartSize) IN
           \A i \in 1 .. Len(next) : Bounded(next[i], metadata, maxPartSize)
<1> DEFINE n == Len(parts)
           next == NextParts(parts, b, metadata, maxPartSize)
<1>1. /\ parts \in Seq(Seq(BlobRecords)) /\ n \in Nat \ {0} /\ n \in 1 .. n
      /\ Len(metadata) \in Nat
    BY DEF PartLists
<1>2. PICK last \in Seq(BlobRecords) : last = parts[n]
    BY <1>1
<1>3. CASE Full(last, b, metadata, maxPartSize)
  <2>1. next = Append(parts, <<b>>)
      BY <1>2, <1>3 DEF NextParts, AddBlob
  <2>2. PICK one \in Seq(BlobRecords) : one = <<b>> /\ Len(one) = 1
    <3>1. <<b>> \in Seq(BlobRecords) /\ Len(<<b>>) = 1
        OBVIOUS
    <3> QED
        BY <3>1, Zenon
  <2>3. /\ Len(next) = n + 1 /\ next[n + 1] = one
        /\ \A i \in 1 .. n : next[i] = parts[i]
      BY <1>1, <2>1, <2>2
  <2>4. Bounded(one, metadata, maxPartSize)
      BY <1>1, <2>2 DEF Bounded
  <2>5. \A i \in 1 .. n + 1 : i \in 1 .. n \/ i = n + 1
      BY <1>1
  <2> HIDE DEF next
  <2> QED
      BY <2>3, <2>4, <2>5 DEF next
<1>4. CASE ~Full(last, b, metadata, maxPartSize)
  <2>1. PICK more \in Seq(BlobRecords) : more = Append(last, b) /\ Len(more) = Len(last) + 1
    <3>1. Append(last, b) \in Seq(BlobRecords) /\ Len(Append(last, b)) = Len(last) + 1
        OBVIOUS
    <3> QED
        BY <3>1, Zenon
  <2>2. next = [parts EXCEPT ![n] = more]
      BY <1>2, <1>4, <2>1 DEF NextParts, AddBlob
  <2>3. Len(next) = n /\ \A i \in 1 .. n : next[i] = IF i = n THEN more ELSE parts[i]
    <3> HIDE DEF next, n
    <3> QED
        BY <1>1, <2>2, ExceptSeq DEF n
  <2>4. Bounded(more, metadata, maxPartSize)
    <3>1. /\ DataSize(last) \in Nat /\ DataSize(more) = DataSize(last) + b.size
          /\ b.size \in Nat /\ Len(last) \in Nat
        BY <2>1, SizeGrows DEF BlobRecords
    <3>2. ~(DataSize(last) + b.size > maxPartSize) \/ ~(Len(last) > Len(metadata))
        BY <1>4 DEF Full
    <3> QED
        BY <1>1, <2>1, <3>1, <3>2 DEF Bounded
  <2> HIDE DEF next
  <2> QED
      BY <2>3, <2>4 DEF next
<1> QED
    BY <1>2, <1>3, <1>4

(* A part larger than the limit has no more blobs than the WIM has of      *)
(* metadata, and one (split.go:283-285).                                   *)
LEMMA PartsAreBounded ==
    ASSUME NEW blobs \in Seq(BlobRecords), NEW maxPartSize \in Nat
    PROVE  LET parts == AssignBlobsToParts(blobs, maxPartSize) IN
           \A i \in 1 .. Len(parts) : Bounded(parts[i], Metadata(blobs), maxPartSize)
<1> DEFINE m == Metadata(blobs)
           r == Regular(blobs)
           n == Len(r)
<1>1. PICK after : /\ Dealing(after, m, r, maxPartSize)
                   /\ AssignBlobsToParts(blobs, maxPartSize) = after[n]
    BY BlobsAreDealt
<1>2. m \in Seq(BlobRecords) /\ r \in Seq(BlobRecords)
    BY ThoseAreBlobs DEF Metadata, Regular
<1> HIDE DEF m, r
<1>3. n \in Nat /\ \A k \in 1 .. n : r[k] \in BlobRecords
    BY <1>2
<1> DEFINE Good(k) == \A i \in 1 .. Len(after[k]) : Bounded(after[k][i], m, maxPartSize)
           S == {k \in 0 .. n : Good(k)}
<1>4. 0 \in S
  <2>1. after[0] = <<m>> /\ 0 \in 0 .. n
      BY <1>1, <1>3 DEF Dealing
  <2>2. Len(<<m>>) = 1 /\ <<m>>[1] = m
      OBVIOUS
  <2>3. Bounded(m, m, maxPartSize)
      BY <1>2 DEF Bounded
  <2>4. \A i \in 1 .. 1 : i = 1
      OBVIOUS
  <2> QED
      BY <2>1, <2>2, <2>3, <2>4
<1>5. ASSUME NEW k \in 1 .. n, k - 1 \in S PROVE k \in S
  <2>1. /\ after[k - 1] \in PartLists
        /\ after[k] = NextParts(after[k - 1], r[k], m, maxPartSize)
    <3>1. k - 1 \in 0 .. n
        BY <1>3
    <3> QED
        BY <1>1, <3>1 DEF Dealing
  <2>2. PICK p \in PartLists : p = after[k - 1]
      BY <2>1
  <2>3. \A i \in 1 .. Len(p) : Bounded(p[i], m, maxPartSize)
      BY <1>5, <2>2
  <2>4. r[k] \in BlobRecords
      BY <1>3
  <2>5. Good(k)
      BY <1>2, <2>1, <2>2, <2>3, <2>4, NextPartsBounded
  <2> QED
      BY <1>3, <2>5
<1>6. n \in S
  <2> HIDE DEF S, n
  <2>1. \A k \in 0 .. n : k \in S
      BY <1>3, <1>4, <1>5, AllUpTo
  <2> QED
      BY <1>3, <2>1
<1> QED
    BY <1>1, <1>6 DEF m, r

(* However many blobs a WIM has, of whatever sizes and limit: every blob   *)
(* is dealt out once, in order behind the metadata, and a part larger than *)
(* the limit holds at most one blob more than there is metadata            *)
(* (split.go:255, :285).                                                   *)
THEOREM SplitDealsAllOut == SplitIsRight
<1> SUFFICES ASSUME NEW blobs \in WimBlobs
             PROVE  LET parts == AssignBlobsToParts(blobs, PartMax) IN
                    /\ Len(parts) \in Nat \ {0}
                    /\ FlattenSeq(parts) = Metadata(blobs) \o Regular(blobs)
                    /\ \A i \in 1 .. Len(parts) :
                          \/ DataSize(parts[i]) <= PartMax
                          \/ Len(parts[i]) <= Len(Metadata(blobs)) + 1
    BY DEF SplitIsRight
<1> DEFINE parts == AssignBlobsToParts(blobs, PartMax)
<1>1. blobs \in Seq(BlobRecords) /\ PartMax \in Nat
    BY SizesAssumption
<1>2. parts \in PartLists /\ FlattenSeq(parts) = Metadata(blobs) \o Regular(blobs)
    BY <1>1, EveryBlobIsDealt
<1>3. \A i \in 1 .. Len(parts) : Bounded(parts[i], Metadata(blobs), PartMax)
    BY <1>1, PartsAreBounded
<1> HIDE DEF parts
<1>4. Len(parts) \in Nat \ {0}
    BY <1>2 DEF PartLists
<1> QED
    BY <1>2, <1>3, <1>4 DEF Bounded, parts

(* So there is a part at least.                                            *)
LEMMA IsPart ==
    TypeOK =>
        /\ Len(Parts) \in Nat \ {0}
        /\ FlattenSeq(Parts) = Metadata(setup.blobs) \o Regular(setup.blobs)
BY SplitDealsAllOut DEF SplitIsRight, TypeOK, Setups, Parts

(* A part is created only if there are more to come.                       *)
LEMMA StepDealt ==
    TypeOK /\ Ends /\ Content /\ PartFiles /\ Dealt /\ [Next]_vars => Dealt'
<1> SUFFICES ASSUME TypeOK, Ends, Content, PartFiles, Dealt, [Next]_vars
             PROVE  Dealt'
    OBVIOUS
<1> USE DEF TypeOK, LastStep, Windows, Ends, Ran, Content, PartFiles, Dealt, Parts,
        worldVars, stickVars, stateVars
<1>1. CASE UNCHANGED setup /\ World
  <2>1. CASE Cancel
      BY Where, <1>1, <2>1 DEF Cancel
  <2>2. CASE SessionLost
      BY Where, <1>1, <2>2 DEF SessionLost
  <2>3. CASE VolumeTaken
      BY Where, <1>1, <2>3 DEF VolumeTaken
  <2> QED
      BY <1>1, <2>1, <2>2, <2>3 DEF World
<1>2. CASE UNCHANGED setup /\ WindowsStep
  <2>1. CASE OpenSource
      BY Where, <1>2, <2>1 DEF OpenSource, Running, StepEnds
  <2>2. CASE OpenSourceFails
      BY Where, <1>2, <2>2 DEF OpenSourceFails, Fails, Running, StepFails
  <2>3. CASE FormatDisk
      BY Where, <1>2, <2>3 DEF FormatDisk, Running, Formatted, StepGoesOn, StepFails
  <2>4. CASE FormatWithoutSession
      BY Where, <1>2, <2>4 DEF FormatWithoutSession, Fails, Running, StepFails
  <2>5. CASE WaitForMount
      BY Where, <1>2, <2>5 DEF WaitForMount, Running, StepEnds
  <2>6. CASE WaitForMountFails
      BY Where, <1>2, <2>6 DEF WaitForMountFails, Fails, Running, StepFails
  <2>7. CASE AnalyzeWim
      BY Where, <1>2, <2>7 DEF AnalyzeWim, Running, StepEnds
  <2>8. CASE AnalyzeWimFails
      BY Where, <1>2, <2>8 DEF AnalyzeWimFails, Fails, Running, StepFails
  <2>9. CASE CopyFile
      BY Where, <1>2, <2>9 DEF CopyFile, Running
  <2>10. CASE CopyEnds
    <3>1. /\ Windows /\ at = 4 /\ phase = "run" /\ StepEnds /\ partFiles = 0
          /\ UNCHANGED <<partFiles, needsSplit, setup>>
        BY Where, <1>2, <2>10 DEF CopyEnds, Running
    <3>2. at' = 5 /\ phase' = phase /\ result' = result
        BY <1>2, <2>10, <3>1, Onward
    <3> QED
        BY IsPart, <1>2, <2>10, <3>1, <3>2
  <2>11. CASE CopyFails
      BY Where, <1>2, <2>11 DEF CopyFails, Fails, Running, StepFails
  <2>12. CASE SkipSplit
    <3>1. /\ Windows /\ at = 5 /\ phase = "run" /\ StepEnds /\ partFiles = 0 /\ ~needsSplit
          /\ UNCHANGED <<partFiles, needsSplit, setup>>
        BY Where, <1>2, <2>12 DEF SkipSplit, Running
    <3>2. at' = 6 /\ phase' = phase /\ result' = result
        BY <1>2, <2>12, <3>1, Onward
    <3> QED
        BY <1>2, <2>12, <3>1, <3>2
  <2>13. CASE CreatePart
    <3>1. /\ Windows /\ at = 5 /\ phase = "run" /\ partFiles = sub /\ sub < Len(Parts)
          /\ partFiles' = partFiles + 1 /\ UNCHANGED <<at, phase, result, setup>>
        BY Where, <1>2, <2>13 DEF CreatePart, Running
    <3>2. partFiles' <= Len(Parts)
        BY IsPart, <3>1
    <3> QED
        BY <1>2, <2>13, <3>1, <3>2
  <2>14. CASE FinishPart
    <3>1. /\ Windows /\ at = 5 /\ phase = "run" /\ needsSplit /\ partFiles = sub + 1
          /\ UNCHANGED <<partFiles, needsSplit, setup>>
          /\ \/ StepGoesOn
             \/ partFiles = Len(Parts) /\ StepEnds
        BY Where, IsPart, <1>2, <2>14 DEF FinishPart, Running
    <3>2. CASE StepGoesOn
        BY <1>2, <2>14, <3>1, <3>2 DEF StepGoesOn
    <3>3. CASE StepEnds /\ partFiles = Len(Parts)
      <4>1. at' = 6 /\ phase' = phase /\ result' = result
          BY <1>2, <2>14, <3>1, <3>3, Onward
      <4> QED
          BY <1>2, <2>14, <3>1, <3>3, <4>1
    <3> QED
        BY <3>1, <3>2, <3>3
  <2>15. CASE SplitFails
      BY Where, <1>2, <2>15 DEF SplitFails, Fails, Running, StepFails
  <2>16. CASE ReleaseSource
      BY Where, <1>2, <2>16 DEF ReleaseSource, Running, StepGoesOn
  <2>17. CASE EjectUSB
    <3>1. /\ Windows /\ at = 6 /\ phase = "run" /\ StepEnds
          /\ UNCHANGED <<partFiles, needsSplit, setup>>
        BY Where, <1>2, <2>17 DEF EjectUSB, EjectBy, Running
    <3>2. at' = 6 /\ phase' = "returned" /\ result' = "succeeded"
        BY <1>2, <2>17, <3>1, Onward
    <3> QED
        BY <1>2, <2>17, <3>1, <3>2
  <2> QED
      BY <1>2, <2>1, <2>2, <2>3, <2>4, <2>5, <2>6, <2>7, <2>8, <2>9, <2>10, <2>11, <2>12,
        <2>13, <2>14, <2>15, <2>16, <2>17 DEF WindowsStep
<1>3. CASE UNCHANGED setup /\ LinuxStep
  <2>1. CASE Prepare
      BY Where, <1>3, <2>1 DEF Prepare, Running, StepEnds
  <2>2. CASE PrepareFails
      BY Where, <1>3, <2>2 DEF PrepareFails, Fails, Running, StepFails
  <2>3. CASE Unmount
      BY Where, <1>3, <2>3 DEF Unmount, Running, StepEnds
  <2>4. CASE UnmountFails
      BY Where, <1>3, <2>4 DEF UnmountFails, Fails, Running, StepFails
  <2>5. CASE WriteISO
      BY Where, <1>3, <2>5 DEF WriteISO, Running, StepEnds, StepFails
  <2>6. CASE WriteFails
      BY Where, <1>3, <2>6 DEF WriteFails, Fails, Running, StepFails
  <2>7. CASE EjectStick
      BY Where, <1>3, <2>7 DEF EjectStick, Running, EjectBy, StepEnds
  <2> QED
      BY <1>3, <2>1, <2>2, <2>3, <2>4, <2>5, <2>6, <2>7 DEF LinuxStep
<1>4. CASE UNCHANGED setup /\ Cleanup
  <2>1. CASE CleanupSource
      BY Where, <1>4, <2>1 DEF CleanupSource, Cleaning, StepCleaned
  <2>2. CASE CleanupFormat
      BY Where, <1>4, <2>2 DEF CleanupFormat, Released, Cleaning, StepCleaned
  <2>3. CASE RemoveParts
      BY Where, <1>4, <2>3 DEF RemoveParts, Cleaning, StepCleaned
  <2>4. CASE NoCleanup
      BY Where, <1>4, <2>4 DEF NoCleanup, StepCleaned
  <2> QED
      BY <1>4, <2>1, <2>2, <2>3, <2>4 DEF Cleanup
<1>5. CASE UNCHANGED vars
    BY <1>5 DEF vars
<1> QED
    BY <1>1, <1>2, <1>3, <1>4, <1>5 DEF Next

-----------------------------------------------------------------------------
(* The inductive invariant.                                                *)
IInv == TypeOK /\ Ends /\ Stopped /\ Source /\ Volume /\ Content /\ PartFiles

(* It holds throughout.                                                    *)
LEMMA Invariance == Spec => []IInv
<1>1. Init => IInv
  <2> SUFFICES ASSUME Init PROVE IInv
      OBVIOUS
  <2>1. TypeOK
    <3>1. at \in 1 .. LastStep /\ sub \in Nat /\ partFiles \in Nat
        BY DEF Init, LastStep
    <3>2. /\ ctxDone \in BOOLEAN /\ session \in BOOLEAN /\ held \in BOOLEAN
          /\ source \in BOOLEAN /\ mountPath \in BOOLEAN /\ needsSplit \in BOOLEAN
        BY DEF Init
    <3> QED
        BY <3>1, <3>2 DEF Init, TypeOK
  <2>2. Ends /\ Stopped /\ Source
      BY DEF Init, Ends, Stopped, Source, LastStep
  <2>3. Volume /\ Content /\ PartFiles
      BY DEF Init, Volume, Content, PartFiles, Ran
  <2> QED
      BY <2>1, <2>2, <2>3 DEF IInv
<1>2. IInv /\ [Next]_vars => IInv'
    BY StepType, StepResult, StepStopped, StepSource, StepVolume, StepContent,
       StepPartFiles DEF IInv
<1> QED
    BY <1>1, <1>2, PTL DEF Spec

(* Types are kept.                                                         *)
THEOREM TypeCorrect == Spec => []TypeOK
<1>1. IInv => TypeOK
    BY DEF IInv
<1> QED
    BY <1>1, Invariance, PTL

(* However and whenever a job ends, its source is released, no half        *)
(* written set of parts stays, and what the helper mounted as root is      *)
(* unmounted unless its session is lost or the volume in use               *)
(* (pipeline.go:84-96).                                                    *)
THEOREM NothingIsLeft == Spec => []NothingLeftBehind
<1>1. IInv => NothingLeftBehind
  <2> SUFFICES ASSUME IInv PROVE NothingLeftBehind
      OBVIOUS
  <2>1. SourceReleased
      BY DEF IInv, Source, SourceReleased
  <2>2. RootMountExplained
    <3> SUFFICES ASSUME result = "failed", mount = "root" PROVE ~session \/ held
        BY DEF RootMountExplained
    <3>1. phase = "returned" /\ at = 1
        BY DEF IInv, Ends
    <3> QED
        BY <3>1 DEF IInv, Volume
  <2>3. PartsRemoved
      BY DEF IInv, Ends, PartFiles, PartsRemoved
  <2> QED
      BY <2>1, <2>2, <2>3 DEF NothingLeftBehind
<1> QED
    BY <1>1, Invariance, PTL

(* A job succeeds only with everything written: the image, or each file    *)
(* that fits and install.wim whole or in parts that hold every blob        *)
(* (analyze_wim.go, copy_files.go, split_wim.go).                          *)
THEOREM SuccessMeansComplete == Spec => []SuccessIsComplete
<1>1. Init => Dealt
    BY DEF Init, Dealt, Ran
<1>2. IInv /\ Dealt /\ [Next]_vars => Dealt'
    BY StepDealt DEF IInv
<1>3. IInv /\ Dealt => SuccessIsComplete
  <2> SUFFICES ASSUME IInv, Dealt, result = "succeeded"
               PROVE  IF setup.plan = "windows" THEN Copied /\ PartsHoldTheWim ELSE Whole
      BY DEF SuccessIsComplete
  <2>1. at = LastStep /\ Ran /\ TypeOK
      BY DEF IInv, Ends, Ran
  <2>2. CASE Windows
    <3>1. at = 6 /\ stick = "fat32" /\ files = Wanted /\ needsSplit = TooLarge(setup.wimSize)
        BY <2>1, <2>2 DEF LastStep, Windows, IInv, Content
    <3>2. partFiles = IF needsSplit THEN Len(Parts) ELSE 0
        BY <2>1, <2>2, <3>1 DEF Dealt
    <3>3. setup.wimSize \in Nat
        BY <2>1, SizesAssumption DEF TypeOK, Setups
    <3>4. needsSplit <=> setup.wimSize > FileMax
        BY <3>1 DEF TooLarge
    <3>5. "install.wim" \in files <=> setup.wimSize <= FileMax
        BY <3>1, <3>3, SizesAssumption DEF Wanted
    <3>6. Copied
        BY <3>1, <3>2, <3>4, <3>5 DEF Copied, Wanted
    <3> QED
        BY <2>1, <2>2, <3>6, IsPart DEF PartsHoldTheWim, Windows
  <2>3. CASE ~Windows
      BY <2>1, <2>3 DEF LastStep, Windows, IInv, Content, PartFiles, Whole
  <2> QED
      BY <2>2, <2>3 DEF Windows
<1> QED
    BY <1>1, <1>2, <1>3, Invariance, PTL DEF Spec

(* No step changes the stick or its mount in a job whose image is checked  *)
(* first and is bad (open_source.go:15-18, prepare.go:13-16).              *)
THEOREM BadImageIsHarmless == Spec => BadImageCostsNothing
<1>1. IInv /\ [Next]_vars
        => [~setup.goodImage /\ Checked => UNCHANGED <<stick, mount>>]_vars
  <2> SUFFICES ASSUME IInv, [Next]_vars, ~setup.goodImage, Checked
               PROVE  UNCHANGED <<stick, mount>>
      OBVIOUS
  <2>1. TypeOK /\ at = 1
      BY DEF IInv, Stopped
  <2> USE DEF worldVars, stickVars, stateVars
  <2>2. CASE World
      BY <2>2 DEF World, Cancel, SessionLost, VolumeTaken
  <2>3. CASE WindowsStep
      BY Where, <2>1, <2>3 DEF WindowsStep, OpenSource, OpenSourceFails, FormatDisk,
         FormatWithoutSession, WaitForMount, WaitForMountFails, AnalyzeWim, AnalyzeWimFails,
         CopyFile, CopyEnds, CopyFails, SkipSplit, CreatePart, FinishPart, SplitFails,
         ReleaseSource, EjectUSB, Fails, Running
  <2>4. CASE LinuxStep
      BY Where, <2>1, <2>4 DEF LinuxStep, Prepare, PrepareFails, Unmount, UnmountFails,
         WriteISO, WriteFails, EjectStick, Fails, Running
  <2>5. CASE Cleanup
      BY Where, <2>1, <2>5 DEF Cleanup, CleanupSource, CleanupFormat, Released, RemoveParts,
         NoCleanup, Cleaning
  <2>6. CASE UNCHANGED vars
      BY <2>6 DEF vars
  <2> QED
      BY <2>2, <2>3, <2>4, <2>5, <2>6 DEF Next
<1> QED
    BY <1>1, Invariance, PTL DEF Spec, BadImageCostsNothing

=============================================================================
