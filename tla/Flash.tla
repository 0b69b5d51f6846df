--------------------------------- MODULE Flash ---------------------------------
(***************************************************************************)
(* One flash job from the app's side: pipeline.Run and its cleanups over   *)
(* the steps of the Windows and the Linux installer                        *)
(* (internal/installers), with what each step does to the source, the      *)
(* stick and the mount, and what the helper's ops do to them               *)
(* (helper/ops.go).  The user may cancel, the helper's session may be      *)
(* lost, and someone may hold the volume, between any two actions.         *)
(*                                                                         *)
(* An operator that stands just before a definition and takes its name     *)
(* with a suffix is a faulty variant, used only to try the properties.     *)
(***************************************************************************)
EXTENDS WimSplit, FiniteSets

CONSTANTS
    Hosts,     \* of "linux", "windows", "darwin"
    FileMax,   \* fat32MaxFileSize
    PartMax,   \* SplitOptions.PartSizeMiB, in the same unit
    WimSizes,  \* sizes install.wim may have
    WimBlobs   \* sequences of blobs it may consist of

ASSUME SizesAssumption ==
    /\ Hosts \subseteq {"linux", "windows", "darwin"}
    /\ FileMax \in Nat /\ PartMax \in Nat /\ WimSizes \subseteq Nat
    /\ WimBlobs \subseteq Seq(BlobRecords)

VARIABLES
    setup,      \* what the job is about; it never changes
    at,         \* index of the step
    phase,      \* "run", "cleanup" or "returned"
    sub,        \* how far the step has come
    ctxDone,    \* the job's context has been cancelled
    session,    \* whether the helper's session is up
    held,       \* whether someone else has come to use the volume
    stick,      \* content of the stick
    mount,      \* who mounted its volume: "none", "user" or "root"
    source,     \* FlashContext.closeSource is set
    mountPath,  \* FlashContext.USBMountPath is set
    needsSplit, \* FlashContext.NeedsSplit
    files,      \* files copied onto the volume
    partFiles,  \* .swm files on the volume
    result      \* of Pipeline.Run

worldVars == <<ctxDone, session, held>>
stickVars == <<stick, mount, files, partFiles>>
stateVars == <<source, mountPath, needsSplit>>
vars == <<setup, at, phase, sub, result, worldVars, stickVars, stateVars>>

Setups == [plan : {"windows", "linux"}, host : Hosts, goodImage : BOOLEAN,
           wimSize : WimSizes, blobs : WimBlobs]

(* The steps, by key. *)
LinuxSteps == <<"preparing", "unmounting", "writing-iso", "ejecting">>
WindowsStepsFormatFirst ==
    <<"formatting", "opening-iso", "analyzing-wim", "copying-files", "splitting-wim", "finalizing">>
WindowsSteps ==
    <<"opening-iso", "formatting", "analyzing-wim", "copying-files", "splitting-wim", "finalizing">>
Steps == IF setup.plan = "windows" THEN WindowsSteps ELSE LinuxSteps

HelperMounts == setup.host = "linux"
(* The helper unmounts a volume in use by force on macOS only.             *)
Unmountable == held => setup.host = "darwin"
HelperEjects == setup.host \in {"linux", "windows"}

Init ==
    /\ setup \in Setups
    /\ at = 1 /\ phase = "run" /\ sub = 0
    /\ ctxDone = FALSE /\ session = TRUE /\ held = FALSE
    /\ stick = "old" /\ mount \in {"none", "user"}
    /\ source = FALSE /\ mountPath = FALSE /\ needsSplit = FALSE
    /\ files = {} /\ partFiles = 0
    /\ result = "none"

-----------------------------------------------------------------------------
(* The world.                                                              *)

Cancel ==
    /\ phase = "run" /\ ~ctxDone
    /\ ctxDone' = TRUE
    /\ UNCHANGED <<at, phase, sub, result, session, held, stickVars, stateVars>>
SessionLost ==
    /\ phase # "returned" /\ session
    /\ session' = FALSE
    /\ UNCHANGED <<at, phase, sub, result, ctxDone, held, stickVars, stateVars>>
VolumeTaken ==
    /\ phase # "returned" /\ mount # "none" /\ ~held
    /\ held' = TRUE
    /\ UNCHANGED <<at, phase, sub, result, ctxDone, session, stickVars, stateVars>>

-----------------------------------------------------------------------------
(* pipeline.Run.                                                           *)

Running(key) == phase = "run" /\ Steps[at] = key

StepEnds ==
    /\ sub' = 0
    /\ IF at < Len(Steps) THEN at' = at + 1 /\ UNCHANGED <<phase, result>>
       ELSE phase' = "returned" /\ result' = "succeeded" /\ UNCHANGED at
StepFails == phase' = "cleanup" /\ UNCHANGED <<at, sub, result>>
StepGoesOn == sub' = sub + 1 /\ UNCHANGED <<at, phase, result>>

(* A step that fails before it has changed anything.                       *)
Fails(key) ==
    /\ Running(key)
    /\ StepFails
    /\ UNCHANGED <<worldVars, stickVars, stateVars>>

-----------------------------------------------------------------------------
(* The Windows steps.                                                      *)

(* Where the image is read in process its whole tree is checked.           *)
OpenSource ==
    /\ Running("opening-iso")
    /\ setup.goodImage \/ setup.host = "darwin"
    /\ source' = TRUE
    /\ StepEnds
    /\ UNCHANGED <<worldVars, stickVars, mountPath, needsSplit>>
OpenSourceFails == Fails("opening-iso")

(* The helper's format_disk: refused with the volume perhaps unmounted, or *)
(* given up once the disk is wiped or formatted, or done.  The app learns  *)
(* of success unless the session is lost with the answer.                  *)
MountedBy == IF HelperMounts THEN "root" ELSE "user"
Formatted(content, mounted, answered) ==
    /\ stick' = content /\ mount' = mounted
    /\ session' = answered
    /\ UNCHANGED <<files, partFiles, ctxDone, held, stateVars>>
FormatDisk ==
    /\ Running("formatting") /\ sub = 0 /\ session
    /\ \/ Unmountable /\ Formatted("fat32", MountedBy, TRUE) /\ StepGoesOn
       \/ /\ StepFails
          /\ \/ \E answered \in BOOLEAN : Formatted(stick, mount, answered)
             \/ /\ Unmountable
                /\ \E answered \in BOOLEAN, content \in {stick, "wiped", "fat32"} :
                       Formatted(content, "none", answered)
             \/ Unmountable /\ Formatted("fat32", MountedBy, FALSE)
FormatWithoutSession == ~session /\ sub = 0 /\ Fails("formatting")

WaitForMount ==
    /\ Running("formatting") /\ sub = 1
    /\ mountPath' = TRUE
    /\ StepEnds
    /\ UNCHANGED <<worldVars, stickVars, source, needsSplit>>
WaitForMountFails == sub = 1 /\ Fails("formatting")

TooLargeInclusive(size) == size >= FileMax
TooLarge(size) == size > FileMax
AnalyzeWim ==
    /\ Running("analyzing-wim")
    /\ needsSplit' = TooLarge(setup.wimSize)
    /\ StepEnds
    /\ UNCHANGED <<worldVars, stickVars, source, mountPath>>
AnalyzeWimFails == Fails("analyzing-wim")

(* fs.CopyDir, file by file, past those that the filter skips.             *)
Wanted == {"files"} \cup (IF setup.wimSize > FileMax THEN {} ELSE {"install.wim"})
CopyFile ==
    /\ Running("copying-files") /\ ~ctxDone
    /\ \E f \in Wanted \ files : files' = files \cup {f}
    /\ UNCHANGED <<at, phase, sub, result, worldVars, stick, mount, partFiles, stateVars>>
CopyEnds ==
    /\ Running("copying-files") /\ Wanted \subseteq files
    /\ StepEnds
    /\ UNCHANGED <<worldVars, stickVars, stateVars>>
CopyFails == Fails("copying-files")

Parts == AssignBlobsToParts(setup.blobs, PartMax)
SkipSplit ==
    /\ Running("splitting-wim") /\ ~needsSplit
    /\ StepEnds
    /\ UNCHANGED <<worldVars, stickVars, stateVars>>
CreatePart ==
    /\ Running("splitting-wim") /\ needsSplit /\ ~ctxDone
    /\ partFiles = sub /\ sub < Len(Parts)
    /\ partFiles' = partFiles + 1
    /\ UNCHANGED <<at, phase, sub, result, worldVars, stick, mount, files, stateVars>>
FinishPart ==
    /\ Running("splitting-wim") /\ needsSplit /\ partFiles = sub + 1
    /\ IF partFiles < Len(Parts) THEN StepGoesOn ELSE StepEnds
    /\ UNCHANGED <<worldVars, stickVars, stateVars>>
SplitFails == needsSplit /\ Fails("splitting-wim")

ReleaseSource ==
    /\ Running("finalizing") /\ sub = 0
    /\ source' = FALSE
    /\ StepGoesOn
    /\ UNCHANGED <<worldVars, stickVars, mountPath, needsSplit>>

(* An eject that fails is a warning or a log line, never an error.         *)
EjectBy(helper) ==
    /\ \/ mount' = "none" /\ Unmountable /\ (helper => session)
       \/ UNCHANGED mount
    /\ StepEnds
    /\ UNCHANGED <<worldVars, stick, files, partFiles, stateVars>>
EjectUSB == Running("finalizing") /\ sub = 1 /\ EjectBy(HelperEjects)

-----------------------------------------------------------------------------
(* The Linux steps.                                                        *)

Prepare ==
    /\ Running("preparing") /\ setup.goodImage
    /\ StepEnds
    /\ UNCHANGED <<worldVars, stickVars, stateVars>>
PrepareFails == Fails("preparing")

Unmount ==
    /\ Running("unmounting") /\ (held => setup.host # "linux")
    /\ mount' = "none"
    /\ StepEnds
    /\ UNCHANGED <<worldVars, stick, files, partFiles, stateVars>>
UnmountFails == Fails("unmounting")

(* write_image, whose device a desktop may have mounted again meanwhile.   *)
WriteISO ==
    /\ Running("writing-iso") /\ session
    /\ mount' = "none"
    /\ \/ stick' = "image" /\ session' = TRUE /\ StepEnds
       \/ stick' \in {"old", "wiped"} /\ session' \in BOOLEAN /\ StepFails
       \/ stick' = "image" /\ session' = FALSE /\ StepFails
    /\ UNCHANGED <<ctxDone, held, files, partFiles, stateVars>>
WriteFails == Fails("writing-iso")

EjectStick == Running("ejecting") /\ EjectBy(TRUE)

-----------------------------------------------------------------------------
(* runCleanup, from the step that failed down to the first.                *)

StepCleaned ==
    /\ IF at > 1 THEN at' = at - 1 /\ UNCHANGED <<phase, result>>
       ELSE phase' = "returned" /\ result' = "failed" /\ UNCHANGED at
    /\ UNCHANGED <<sub, worldVars>>
Cleaning(key) == phase = "cleanup" /\ Steps[at] = key

CleanupSource ==
    /\ Cleaning("opening-iso")
    /\ source' = FALSE
    /\ StepCleaned
    /\ UNCHANGED <<stickVars, mountPath, needsSplit>>

(* FormatUSB's: the helper unmounts what it mounted, if it still can.      *)
Released(applies) ==
    /\ Cleaning("formatting")
    /\ mount' = IF applies /\ session /\ Unmountable THEN "none" ELSE mount
    /\ StepCleaned
    /\ UNCHANGED <<stick, files, partFiles, stateVars>>
CleanupFormatNeedsPath == Released(HelperMounts /\ mountPath)
CleanupFormat == Released(HelperMounts)

RemoveParts ==
    /\ Cleaning("splitting-wim")
    /\ partFiles' = IF needsSplit /\ mountPath /\ mount # "none" THEN 0 ELSE partFiles
    /\ StepCleaned
    /\ UNCHANGED <<stick, mount, files, stateVars>>

NoCleanup ==
    /\ phase = "cleanup" /\ Steps[at] \notin {"opening-iso", "formatting", "splitting-wim"}
    /\ StepCleaned
    /\ UNCHANGED <<stickVars, stateVars>>

-----------------------------------------------------------------------------
WindowsStep == \/ OpenSource \/ OpenSourceFails
               \/ FormatDisk \/ FormatWithoutSession \/ WaitForMount \/ WaitForMountFails
               \/ AnalyzeWim \/ AnalyzeWimFails
               \/ CopyFile \/ CopyEnds \/ CopyFails
               \/ SkipSplit \/ CreatePart \/ FinishPart \/ SplitFails
               \/ ReleaseSource \/ EjectUSB
LinuxStep == \/ Prepare \/ PrepareFails \/ Unmount \/ UnmountFails
             \/ WriteISO \/ WriteFails \/ EjectStick
Cleanup == CleanupSource \/ CleanupFormat \/ RemoveParts \/ NoCleanup
World == Cancel \/ SessionLost \/ VolumeTaken

Next == UNCHANGED setup /\ (World \/ WindowsStep \/ LinuxStep \/ Cleanup)

Spec == Init /\ [][Next]_vars

-----------------------------------------------------------------------------
(* Properties.                                                             *)

(* Whichever way the job ends, nothing half done stays: the ISO is closed, *)
(* or unmounted; a stick that is mounted as root is so only because the    *)
(* helper was lost or someone holds the volume (format_usb.go:43-45 says   *)
(* never); and no parts of a half-written set are left, although the       *)
(* volume they are on is unmounted by another cleanup.                     *)
SourceReleased == phase = "returned" => ~source
RootMountExplained == result = "failed" /\ mount = "root" => ~session \/ held
PartsRemoved == result = "failed" => partFiles = 0
NothingLeftBehind == SourceReleased /\ RootMountExplained /\ PartsRemoved

(* A job succeeds only with everything written: for Windows all files that *)
(* fit, and install.wim whole or in parts, not both, whatever its size;    *)
(* the parts hold every blob once, the metadata in front, in the order of  *)
(* the WIM.                                                                *)
Whole == stick = "image" /\ files = {} /\ partFiles = 0
Copied ==
    /\ stick = "fat32" /\ "files" \in files
    /\ partFiles = IF setup.wimSize > FileMax THEN Len(Parts) ELSE 0
    /\ "install.wim" \in files <=> setup.wimSize <= FileMax
PartsHoldTheWim ==
    partFiles > 0 => FlattenSeq(Parts) = Metadata(setup.blobs) \o Regular(setup.blobs)
(* What the last of it asks of the split; and a part is larger than        *)
(* PartMax only if it holds at most one blob more than the WIM has         *)
(* metadata (split.go:283-285).                                            *)
SplitIsRight ==
    \A blobs \in WimBlobs :
        LET parts == AssignBlobsToParts(blobs, PartMax) IN
        /\ Len(parts) \in Nat \ {0}
        /\ FlattenSeq(parts) = Metadata(blobs) \o Regular(blobs)
        /\ \A i \in 1 .. Len(parts) :
              DataSize(parts[i]) <= PartMax \/ Len(parts[i]) <= Len(Metadata(blobs)) + 1
SuccessIsComplete ==
    result = "succeeded" =>
        IF setup.plan = "windows" THEN Copied /\ PartsHoldTheWim ELSE Whole

(* A bad image never costs the user their drive, nor its mount             *)
(* (open_source.go:15-18, prepare.go:13-16).                               *)
Checked == setup.plan = "linux" \/ setup.host # "darwin"
BadImageCostsNothing ==
    [][~setup.goodImage /\ Checked => UNCHANGED <<stick, mount>>]_vars
=============================================================================
