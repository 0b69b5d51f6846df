------------------------------ MODULE HelperOps ------------------------------
(***************************************************************************)
(* One privileged operation inside the helper, from the gate to its        *)
(* return: write_image, format_disk, unmount and eject (helper/ops.go)     *)
(* over the three disk back ends (disk_linux.go, disk_darwin.go with       *)
(* authz_darwin.go and authopen_darwin.go, disk_windows.go).  Between any  *)
(* two steps the user may cancel, a program may take or let go of a        *)
(* volume, an automounter may mount one, and until the device is held the  *)
(* path may come to name another device.  Any call to the OS may fail.     *)
(*                                                                         *)
(* HelperSession models the session that runs these operations one at a    *)
(* time and answers for them.                                              *)
(*                                                                         *)
(* An operator that stands just before a definition and takes its name     *)
(* with a suffix is a faulty variant, used only to try the properties.     *)
(***************************************************************************)
EXTENDS Naturals, FiniteSets, Sequences

CONSTANTS
    Jobs,             \* the requests: [host, op, vols of the stick unreadable to Windows]
    Vols,             \* volumes a device may carry
    Chunks,           \* chunks in the image
    FlushAt,          \* chunks cached before the back end flushes by itself
    UnmountAttempts,  \* unmountAttempts of ops.go
    LockAttempts,     \* lockAttempts of disk_windows.go
    Swaps             \* bound on how often the path changes its device

Hosts == {"linux", "darwin", "windows"}
Ops == {"write_image", "format_disk", "unmount", "unmount_dir", "eject"}
JobSet == [host : Hosts, op : Ops, silent : SUBSET Vols]

ASSUME JobsAssumption == Jobs \subseteq JobSet
ASSUME BoundsAssumption ==
    /\ Chunks \in Nat \ {0} /\ FlushAt \in Nat \ {0} /\ Swaps \in Nat
    /\ UnmountAttempts \in Nat \ {0} /\ LockAttempts \in Nat \ {0}
ASSUME VolsAssumption ==
    Vols # {} /\ IsFiniteSet(Vols) /\ Vols \cap {"image", "ref", "claim", "device"} = {}

(* Devices the path may name.  The twin answers every query as the stick   *)
(* does; "large" is removable and another size; "fixed" is not removable;  *)
(* "live" is the removable disk the system runs from.                      *)
Media == {"stick", "twin", "large", "fixed", "live"}
Removable == Media \ {"fixed"}
InfoOf(m) == IF m = "twin" THEN "stick" ELSE m

VARIABLES
    job,       \* the request; it never changes
    names,     \* the device the path names now
    checked,   \* the device that passed the gate
    mounted,   \* volumes of it that are mounted
    kept,      \* those mounted without a break since the operation began
    inUse,     \* those a program holds open
    dirs,      \* volumes whose directory under MountRoot exists
    found,     \* detach's dirs
    ctxDone,   \* the operation's context has been cancelled
    agreed,    \* authorize has returned a grant
    pc,
    why,       \* what the volumes are locked for: "unmount", "open" or "eject"
    todo,      \* targets this pass has yet to visit
    tries,     \* the pass's number, or the step of the format
    holds,     \* "image", "ref" (the grant), "claim", "device" and locked volumes
    written,   \* chunks handed to the device
    cached,    \* those among them not yet flushed
    harmed,    \* devices whose content the operation has changed
    swaps,
    result     \* "none", "ok", "cancelled" or "error"

worldVars == <<names, mounted, kept, inUse, dirs, swaps>>
dataVars == <<written, cached, harmed>>
walkVars == <<why, todo, tries, found>>
gateVars == <<job, checked, ctxDone, agreed>>
vars == <<worldVars, dataVars, walkVars, gateVars, pc, holds, result>>

Is(host) == job.host = host
Op(op) == job.op = op

Init ==
    /\ job \in Jobs
    /\ names \in Media /\ checked = "none"
    /\ mounted \in SUBSET Vols /\ kept = mounted /\ inUse \in SUBSET mounted
    /\ dirs \in (IF Is("linux") THEN {{}, mounted} ELSE {{}})
    /\ found = {} /\ ctxDone = FALSE /\ agreed = FALSE
    /\ pc = "start" /\ why = "unmount" /\ todo = {} /\ tries = 0
    /\ holds = {} /\ written = 0 /\ cached = 0 /\ harmed = {}
    /\ swaps = 0 /\ result = "none"

-----------------------------------------------------------------------------
(* The world.                                                              *)

Running == pc # "done"
(* The device cannot change under an open handle, a Disk Arbitration claim *)
(* or a locked volume: pulling it makes the next call fail.                *)
Pinned == holds \cap ({"claim", "device"} \cup Vols) # {}

Cancel ==
    /\ Running /\ ~ctxDone /\ ctxDone' = TRUE
    /\ UNCHANGED <<worldVars, dataVars, walkVars, job, checked, agreed, pc, holds, result>>
(* The stick is pulled and its name goes to another device.                *)
Swap ==
    /\ Running /\ ~Pinned /\ names # "live" /\ swaps < Swaps
    /\ names' \in Media \ {names, "live"}
    /\ mounted' \in {{}, Vols} /\ kept' = {} /\ inUse' = {}
    /\ swaps' = swaps + 1
    /\ UNCHANGED <<dirs, dataVars, walkVars, gateVars, pc, holds, result>>
(* The kernel mounts nothing from a disk opened O_EXCL, Disk Arbitration   *)
(* nothing from one claimed, Windows no volume that is locked and none     *)
(* from a disk without a layout.                                           *)
Mountable(v) == /\ {v, "claim"} \cap holds = {}
                /\ "device" \in holds => Is("darwin")
Automount(v) ==
    /\ Running /\ v \notin mounted /\ Mountable(v)
    /\ mounted' = mounted \cup {v}
    /\ UNCHANGED <<names, kept, inUse, dirs, swaps, dataVars, walkVars, gateVars, pc, holds, result>>
Use(v) ==
    /\ Running /\ v \in mounted
    /\ inUse' = IF v \in inUse THEN inUse \ {v} ELSE inUse \cup {v}
    /\ UNCHANGED <<names, mounted, kept, dirs, swaps, dataVars, walkVars, gateVars, pc, holds, result>>
World == Cancel \/ Swap \/ (\E v \in Vols : Automount(v) \/ Use(v))

-----------------------------------------------------------------------------
(* How an operation goes on and returns.                                   *)

Goto(next) == pc' = next /\ UNCHANGED result
(* writeImage closes the image it took from the handle when it returns.    *)
Return(r, released) ==
    /\ pc' = "done" /\ result' = r
    /\ holds' = (holds \ released) \ {"image"}
Quiet == UNCHANGED <<worldVars, dataVars, walkVars, gateVars>>
(* openTarget releases the grant whatever happened.                        *)
OpenFails(released) == Return("error", released \cup {"ref"})
CancelledOr(r) == IF ctxDone THEN "cancelled" ELSE r
(* formatDisk calls whatever Format fails with a cancel once there was one. *)
BackEndError == IF Op("format_disk") THEN CancelledOr("error") ELSE "error"

-----------------------------------------------------------------------------
(* The gate.                                                               *)

(* write_image's source: a passed file, which the session closes, or on    *)
(* Windows the handle duplicated out of the app, which must be a file.     *)
Image == IF Is("windows") THEN {"image"} ELSE {}
TakeImage ==
    /\ pc = "start" /\ Op("write_image")
    /\ \/ Goto("resolve") /\ holds' = Image
       \/ Return("error", {})
    /\ Quiet
NeedsNoImage ==
    /\ pc = "start" /\ ~Op("write_image") /\ ~Op("unmount_dir") /\ Goto("resolve")
    /\ Quiet /\ UNCHANGED holds
(* unmount by mountpoint: only a directory of the kind format_disk mounts  *)
(* on is accepted: under MountRoot, on macOS /Volumes, where all volumes   *)
(* are and go by force; on Windows none.  One with nothing mounted is no   *)
(* error.                                                                  *)
UnmountDir ==
    /\ pc = "start" /\ Op("unmount_dir")
    /\ \/ /\ \E v \in IF Is("darwin") THEN mounted ELSE dirs \ inUse :
               mounted' = mounted \ {v} /\ kept' = kept \ {v} /\ inUse' = inUse \ {v}
          /\ Return("ok", {})
       \/ Return("error", {}) /\ UNCHANGED <<mounted, kept, inUse>>
       \/ ~Is("windows") /\ Return("ok", {}) /\ UNCHANGED <<mounted, kept, inUse>>
    /\ UNCHANGED <<names, dirs, swaps, walkVars, dataVars, gateVars>>

(* resolveTarget and, for a write, the size of the source and the          *)
(* capacity of the device.                                                 *)
Passes(m) == m \in Removable \ {"live"}
AfterGate == CASE Op("write_image") \/ Op("format_disk") -> "authorize"
               [] Op("eject") /\ Is("darwin") -> "eject"
               [] OTHER -> "detach"
ResolveTarget ==
    /\ pc = "resolve"
    /\ \/ Passes(names) /\ checked' = names /\ Goto(AfterGate) /\ UNCHANGED holds
       \/ Return("error", {}) /\ UNCHANGED checked
    /\ UNCHANGED <<worldVars, dataVars, walkVars, job, ctxDone, agreed>>

(* authorize.  Where the host has no Authorizer the grant is NopGrant;     *)
(* macOS probes for the privacy refusal and then raises the sheet.         *)
AskUser ==
    /\ pc = "authorize" /\ ~ctxDone /\ Is("darwin")
    /\ \/ Goto("sheet") /\ holds' = holds \cup {"ref"}
       \/ Return("error", {})
    /\ Quiet
Approve ==
    /\ agreed' = TRUE /\ Goto("granted")
    /\ UNCHANGED <<worldVars, dataVars, walkVars, job, checked, ctxDone, holds>>
AskNobody == pc = "authorize" /\ ~ctxDone /\ ~Is("darwin") /\ Approve
CancelledUnasked ==
    /\ pc = "authorize" /\ ctxDone
    /\ Return("cancelled", {}) /\ Quiet
(* The sheet is answered: a refusal, or an error of the ref's external     *)
(* form, destroys the ref; so does a cancel that came meanwhile.           *)
ApprovesAnyway == Approve
Approves == ~ctxDone /\ Approve
SheetAnswered ==
    /\ pc = "sheet"
    /\ \/ Approves
       \/ Return(CancelledOr("error"), {"ref"}) /\ Quiet

(* format_disk needs nothing from the grant and releases it at once.  Both *)
(* then unmount the device once, without retries.                          *)
BeginUnmount ==
    /\ pc = "granted"
    /\ holds' = IF Op("format_disk") THEN holds \ {"ref"} ELSE holds
    /\ Goto(IF Is("windows") THEN "lock" ELSE "visit")
    /\ why' = "unmount" /\ todo' = Vols /\ tries' = 1
    /\ UNCHANGED <<worldVars, dataVars, gateVars, found>>

-----------------------------------------------------------------------------
(* Unmounting.  Linux visits each partition and then the disk, macOS each  *)
(* APFS container and then the disk, by force.  Windows locks and          *)
(* dismounts every volume and lets go again.                               *)

(* detach looks up the directories before it unmounts.                     *)
MountDirs == dirs \cap mounted
BeginDetach ==
    /\ pc = "detach"
    /\ Goto(IF Is("windows") THEN "lock" ELSE "visit")
    /\ why' = "unmount" /\ todo' = Vols /\ tries' = 1
    /\ found' = MountDirs
    /\ UNCHANGED <<worldVars, dataVars, gateVars, holds>>

Unmounts(v) == v \in mounted /\ (v \in inUse => Is("darwin"))
Visit(v) ==
    /\ pc = "visit" /\ v \in todo
    /\ v \in mounted => Unmounts(v)
    /\ todo' = todo \ {v}
    /\ mounted' = mounted \ {v} /\ kept' = kept \ {v} /\ inUse' = inUse \ {v}
    /\ Goto("visit")
    /\ UNCHANGED <<names, dirs, swaps, why, tries, found, dataVars, gateVars, holds>>
Detaching == Op("unmount") \/ Op("eject")
(* What follows once every target has been visited.                        *)
AfterUnmount == IF Detaching THEN "detached"
                ELSE IF Op("format_disk") THEN "format" ELSE "open"
AllVisited ==
    /\ pc = "visit" /\ todo = {}
    /\ Goto(AfterUnmount)
    /\ UNCHANGED <<worldVars, why, todo, found, tries, dataVars, gateVars, holds>>
(* A target that will not unmount: busy, where detach waits and starts the *)
(* pass again, or an error.                                                *)
VisitFails ==
    /\ pc = "visit" /\ todo # {}
    /\ \/ Detaching /\ tries < UnmountAttempts /\ Goto("wait") /\ UNCHANGED holds
       \/ OpenFails({})
    /\ UNCHANGED <<worldVars, walkVars, dataVars, gateVars>>
NextAttemptStuck == tries
NextAttempt == tries + 1
WaitOver ==
    /\ pc = "wait"
    /\ \/ Goto("visit") /\ todo' = Vols /\ tries' = NextAttempt /\ UNCHANGED holds
       \/ ctxDone /\ Return("cancelled", {}) /\ UNCHANGED <<todo, tries>>
    /\ UNCHANGED <<worldVars, why, found, dataVars, gateVars>>

(* RemoveMountDir takes the directories found, those it does not fail for. *)
Detached ==
    /\ pc = "detached"
    /\ \E gone \in SUBSET found : dirs' = dirs \ gone
    /\ IF Op("unmount") THEN Return("ok", {}) ELSE Goto("eject") /\ UNCHANGED holds
    /\ UNCHANGED <<names, mounted, kept, inUse, swaps, walkVars, dataVars, gateVars>>

(* lockVolumes: a volume held open refuses the lock; its extents unread,   *)
(* it is skipped.                                                          *)
LockVolume(v) ==
    /\ pc = "lock" /\ v \in todo
    /\ todo' = todo \ {v} /\ Goto("lock")
    /\ \/ /\ v \notin job.silent \cup inUse
          /\ holds' = holds \cup {v}
          /\ mounted' = mounted \ {v} /\ kept' = kept \ {v}
       \/ v \in job.silent /\ UNCHANGED <<holds, mounted, kept>>
    /\ UNCHANGED <<names, inUse, dirs, swaps, why, tries, found, dataVars, gateVars>>
(* Every lock taken in this pass is let go before the next.  An eject that *)
(* fails after the unmount is only logged.                                 *)
LockError == Return(CASE why = "eject" -> "ok" [] why = "open" -> BackEndError
                      [] why = "unmount" -> "error", Vols)
LockFails ==
    /\ pc = "lock" /\ todo # {}
    /\ \/ tries < LockAttempts /\ Goto("lockWait") /\ holds' = holds \ Vols
       \/ LockError
    /\ UNCHANGED <<worldVars, walkVars, dataVars, gateVars>>
(* Only Format passes its context on.                                      *)
LockWaitOver ==
    /\ pc = "lockWait"
    /\ \/ Goto("lock") /\ todo' = Vols /\ tries' = NextAttempt /\ UNCHANGED holds
       \/ /\ ctxDone /\ Op("format_disk") /\ why = "open"
          /\ Return("cancelled", {}) /\ UNCHANGED <<todo, tries>>
    /\ UNCHANGED <<worldVars, why, found, dataVars, gateVars>>
(* Unmount releases the locks; openForWrite and Eject keep them.           *)
AllLocked ==
    /\ pc = "lock" /\ todo = {}
    /\ CASE why = "unmount" -> Goto(AfterUnmount) /\ holds' = holds \ Vols
         [] why = "open" -> Goto("openDisk") /\ UNCHANGED holds
         [] why = "eject" -> Goto("ejectMedia") /\ UNCHANGED holds
    /\ UNCHANGED <<worldVars, walkVars, dataVars, gateVars>>
LockFor(purpose, at) ==
    /\ pc = at /\ Is("windows")
    /\ Goto("lock") /\ why' = purpose /\ todo' = Vols /\ tries' = 1
    /\ UNCHANGED <<worldVars, found, dataVars, gateVars, holds>>

-----------------------------------------------------------------------------
(* OpenRaw.                                                                *)

OpenLinux ==
    /\ pc = "open" /\ Is("linux")
    /\ \/ mounted = {} /\ Goto("stream") /\ holds' = (holds \cup {"device"}) \ {"ref"}
       \/ OpenFails({})
    /\ Quiet

(* macOS: claim, recheck, authopen, verify.  The kernel refuses a raw open *)
(* of a disk with a mounted volume.                                        *)
Claim ==
    /\ pc = "open" /\ Is("darwin")
    /\ \/ Goto("recheck") /\ holds' = holds \cup {"claim"}
       \/ OpenFails({})
    /\ Quiet
SameDevice == TRUE
Recheck == InfoOf(names) = InfoOf(checked)
RecheckDarwin ==
    /\ pc = "recheck" /\ Is("darwin")
    /\ \/ Recheck /\ Goto("authopen") /\ UNCHANGED holds
       \/ OpenFails({"claim"})
    /\ Quiet
Authopen ==
    /\ pc = "authopen"
    /\ \/ mounted = {} /\ Goto("verify") /\ holds' = holds \cup {"device"}
       \/ OpenFails({"claim"})
    /\ Quiet
OpenedDropsClaim == Goto("stream") /\ holds' = holds \ {"ref", "claim"}
Opened == Goto("stream") /\ holds' = holds \ {"ref"}
VerifyDescriptor ==
    /\ pc = "verify"
    /\ Opened \/ OpenFails({"device", "claim"})
    /\ Quiet

(* Windows, with the locks held: open, recheck the disk's number and bus   *)
(* on this handle, delete the layout.                                      *)
OpenDisk ==
    /\ pc = "openDisk"
    /\ \/ Goto("recheck") /\ holds' = holds \cup {"device"}
       \/ Return(BackEndError, Vols)
    /\ Quiet
BusOK(m) == m \in Removable
RecheckWindows ==
    /\ pc = "recheck" /\ Is("windows")
    /\ \/ /\ BusOK(names)
          /\ Goto(IF Op("format_disk") THEN "fatfmt" ELSE "sector")
          /\ harmed' \in {harmed, harmed \cup {names}}
          /\ UNCHANGED holds
       \/ Return(BackEndError, {"device"} \cup Vols) /\ UNCHANGED harmed
    /\ UNCHANGED <<worldVars, walkVars, written, cached, gateVars>>
SectorFailsOpen == Return("error", {"device"})
SectorFails == Return("error", {"device"} \cup Vols)
SectorSize ==
    /\ pc = "sector"
    /\ \/ Goto("stream") /\ UNCHANGED holds
       \/ SectorFails
    /\ Quiet

-----------------------------------------------------------------------------
(* The write.                                                              *)

(* Linux flushes after rawSyncEvery bytes, Windows when its buffer is      *)
(* full; macOS leaves it to the drive.  Windows refuses to write under a   *)
(* mounted volume.                                                         *)
WriteChunk ==
    /\ pc = "stream" /\ written < Chunks /\ ~ctxDone
    /\ Is("windows") => mounted = {}
    /\ written' = written + 1
    /\ cached' = IF cached + 1 = FlushAt /\ ~Is("darwin") THEN 0 ELSE cached + 1
    /\ harmed' = harmed \cup {names}
    /\ Goto("stream")
    /\ UNCHANGED <<worldVars, walkVars, gateVars, holds>>
CloseRaw(r) == Return(r, {"device", "claim"} \cup Vols)
(* Cancelled, the source too short or unreadable, or a write that fails    *)
(* after part of its bytes.                                                *)
StreamStops ==
    /\ pc = "stream" /\ written < Chunks
    /\ CloseRaw(CancelledOr("error"))
    /\ harmed' \in {harmed, IF ctxDone THEN harmed ELSE harmed \cup {names}}
    /\ UNCHANGED <<worldVars, walkVars, gateVars, written, cached>>
StreamEndsUnsynced == Goto("close")
StreamEnds == Goto("sync")
Streamed ==
    /\ pc = "stream" /\ written = Chunks /\ StreamEnds
    /\ Quiet /\ UNCHANGED holds
Sync ==
    /\ pc = "sync"
    /\ \/ Goto("close") /\ cached' = 0 /\ UNCHANGED holds
       \/ CloseRaw("error") /\ UNCHANGED cached
    /\ UNCHANGED <<worldVars, walkVars, gateVars, written, harmed>>
CloseDevice ==
    /\ pc = "close"
    /\ \E r \in {"ok", "error"} : CloseRaw(r)
    /\ Quiet

-----------------------------------------------------------------------------
(* Format.                                                                 *)

(* Linux runs the tools one by one; the context kills the one that runs.   *)
(* They refuse a device with a mounted volume.  Failures of partprobe and  *)
(* udevadm are ignored.                                                    *)
LinuxFormat == <<"mklabel", "mkpart", "boot", "partprobe", "waitForPath", "mkfs", "mkdir", "mount">>
FormatStep == pc = "format" /\ Is("linux")
Label == CHOOSE v \in Vols : TRUE
FormatGoesOn ==
    /\ FormatStep /\ tries < Len(LinuxFormat)
    /\ LET step == LinuxFormat[tries] IN
       /\ ctxDone => step \in {"partprobe", "waitForPath", "mkdir"}
       /\ step \in {"mklabel", "mkpart", "boot", "mkfs"} => mounted = {}
       /\ harmed' = IF step \in {"mklabel", "mkpart", "boot", "mkfs"}
                    THEN harmed \cup {names} ELSE harmed
       /\ dirs' = IF step = "mkdir" THEN dirs \cup {Label} ELSE dirs
    /\ tries' = tries + 1 /\ Goto("format")
    /\ UNCHANGED <<names, mounted, kept, inUse, swaps, why, todo, found, written, cached,
                   gateVars, holds>>
FormatMounts ==
    /\ FormatStep /\ tries = Len(LinuxFormat)
    /\ mounted' = mounted \cup {Label} /\ Return("ok", {})
    /\ UNCHANGED <<names, kept, inUse, dirs, swaps, walkVars, dataVars, gateVars>>
FormatFails ==
    /\ FormatStep /\ LinuxFormat[tries] # "partprobe"
    /\ Return(CancelledOr("error"), {})
    /\ harmed' \in {harmed, harmed \cup {names}}
    /\ UNCHANGED <<worldVars, walkVars, written, cached, gateVars>>

(* macOS: diskutil erases and mounts; Format polls for the mount.          *)
EraseDisk ==
    /\ pc = "format" /\ Is("darwin")
    /\ \/ ~ctxDone /\ Goto("awaitMount") /\ UNCHANGED holds /\ harmed' = harmed \cup {names}
       \/ Return(CancelledOr("error"), {}) /\ harmed' \in {harmed, harmed \cup {names}}
    /\ UNCHANGED <<worldVars, walkVars, written, cached, gateVars>>
AwaitMount ==
    /\ pc = "awaitMount"
    /\ IF mounted # {} /\ ~ctxDone THEN Return("ok", {}) ELSE Return(CancelledOr("error"), {})
    /\ Quiet

(* Windows: fatfmt and finish on the open disk; both handles and locks are *)
(* released on every path.                                                 *)
FormatReturns(r) == Return(r, {"device"} \cup Vols)
FormatWindows ==
    /\ pc = "fatfmt"
    /\ \/ FormatReturns("ok") /\ harmed' = harmed \cup {names}
       \/ FormatReturns(CancelledOr("error")) /\ harmed' \in {harmed, harmed \cup {names}}
    /\ UNCHANGED <<worldVars, walkVars, written, cached, gateVars>>

-----------------------------------------------------------------------------
(* The OS eject: all there is on macOS, best effort elsewhere.             *)

EjectDarwin ==
    /\ pc = "eject" /\ Is("darwin")
    /\ \/ inUse = {} /\ Return("ok", {}) /\ mounted' = {} /\ kept' = {}
       \/ Return("error", {}) /\ UNCHANGED <<mounted, kept>>
    /\ UNCHANGED <<names, inUse, dirs, swaps, walkVars, dataVars, gateVars>>
EjectLinux == pc = "eject" /\ Is("linux") /\ Return("ok", {}) /\ Quiet
EjectMedia == pc = "ejectMedia" /\ Return("ok", Vols) /\ Quiet

-----------------------------------------------------------------------------
Gate == \/ TakeImage \/ NeedsNoImage \/ UnmountDir \/ ResolveTarget \/ AskUser \/ AskNobody
        \/ CancelledUnasked \/ BeginUnmount \/ BeginDetach
Unmount == \/ \E v \in Vols : Visit(v) \/ LockVolume(v)
           \/ AllVisited \/ VisitFails \/ WaitOver \/ Detached
           \/ LockFails \/ LockWaitOver \/ AllLocked
           \/ LockFor("open", "open") \/ LockFor("open", "format") \/ LockFor("eject", "eject")
OpenRaw == \/ OpenLinux \/ Claim \/ RecheckDarwin \/ Authopen \/ VerifyDescriptor
           \/ OpenDisk \/ RecheckWindows \/ SectorSize
Write == WriteChunk \/ StreamStops \/ Streamed \/ Sync \/ CloseDevice
Format == \/ FormatGoesOn \/ FormatMounts \/ FormatFails \/ EraseDisk \/ AwaitMount
          \/ FormatWindows
Eject == EjectDarwin \/ EjectLinux \/ EjectMedia
Step == Gate \/ Unmount \/ OpenRaw \/ Write \/ Format \/ Eject

Next == Step \/ SheetAnswered \/ World
Spec == Init /\ [][Next]_vars

(* The helper's goroutine runs and every call it makes returns; the user   *)
(* need never answer the sheet.                                            *)
FairSpec == Spec /\ WF_vars(Step)

-----------------------------------------------------------------------------
(* Properties.                                                             *)

(* Whatever failed on the way, an operation that has returned holds        *)
(* nothing: no grant, claim, lock, device or image (disk_windows.go:272,   *)
(* disk_darwin.go:160, ops.go:245).  And the grant, which opens any path,  *)
(* is gone before a byte is written (ops.go:108-112).                      *)
Writing == pc \in {"stream", "sync", "close", "format", "awaitMount"}
HeldOnlyWhileNeeded ==
    /\ pc = "done" => holds = {}
    /\ Writing => "ref" \notin holds

(* What is written to went through the gate: on macOS it is, as far as the *)
(* system can tell, the device the user approved, on Windows it is         *)
(* removable, though the path may have changed its device meanwhile        *)
(* (disk_darwin.go:179, disk_windows.go:275), and the system's disk is     *)
(* never touched.                                                          *)
OnlyWhatPassedTheGate ==
    /\ "live" \notin harmed
    /\ Is("darwin") /\ Op("write_image") => \A m \in harmed : InfoOf(m) = InfoOf(checked)
    /\ Is("windows") => harmed \subseteq Removable

(* No chunk is written under a mounted volume, though an automounter may   *)
(* act at any time (disk_darwin.go:129).                                   *)
NoWriteUnderAMount == [][written' > written => mounted = {}]_vars

(* A cancel that comes before the approval wins over it, even one that     *)
(* comes while the sheet is up, and until the approval nothing of the      *)
(* device is unmounted or changed (ops.go:78).                             *)
ConsentFirst ==
    [][~Detaching => /\ (harmed' # harmed \/ todo' # todo) => agreed
                     /\ ctxDone /\ ~agreed => ~agreed']_vars

(* An operation that reports success has done it: the image is on the      *)
(* device and not in a cache; a detached device has none of the volumes it *)
(* had left mounted, and each directory they were mounted on was found.    *)
SuccessIsReal ==
    result = "ok" =>
        /\ Op("write_image") => written = Chunks /\ cached = 0 /\ harmed # {}
        /\ Op("format_disk") => harmed # {}
        /\ Detaching => kept \subseteq job.silent
        /\ Detaching /\ swaps = 0 => dirs \subseteq found

(* The operation ends, or waits for the user's answer: retries stop, and   *)
(* no volume in use holds it for ever (ops.go:172, disk_windows.go:195).   *)
OpEnds == <>(pc \in {"done", "sheet"})
=============================================================================
