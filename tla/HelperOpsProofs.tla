--------------------------- MODULE HelperOpsProofs ---------------------------
(***************************************************************************)
(* Proofs about HelperOps, for any requests, any set of volumes, any size  *)
(* of image and any number of retries: the five safety properties.         *)
(***************************************************************************)
EXTENDS HelperOps, TLAPS

(* Where an operation may be, by what it is for and where it runs.         *)
Stations ==
    {"start", "resolve", "authorize", "sheet", "granted", "detach", "visit", "wait",
     "detached", "lock", "lockWait", "open", "openDisk", "recheck", "authopen", "verify",
     "sector", "stream", "sync", "close", "format", "awaitMount", "fatfmt", "eject",
     "ejectMedia", "done"}
Unapproved == {"start", "resolve", "authorize", "sheet", "done"}
TypeOK ==
    /\ job \in Jobs /\ pc \in Stations /\ why \in {"unmount", "open", "eject"}
    /\ names \in Media /\ harmed \subseteq Media
    /\ holds \subseteq {"image", "ref", "claim", "device"} \cup Vols
    /\ kept \subseteq mounted /\ mounted \subseteq Vols
    /\ dirs \subseteq Vols /\ todo \subseteq Vols
    /\ written \in Nat /\ cached \in Nat /\ tries \in Nat /\ swaps \in Nat
    /\ result \in {"none", "ok", "cancelled", "error"} /\ (result = "none" <=> pc # "done")

Placed ==
    /\ pc \in {"sheet", "authopen", "verify", "awaitMount"} => Is("darwin")
    /\ pc \in {"lock", "lockWait", "openDisk", "sector", "fatfmt", "ejectMedia"} => Is("windows")
    /\ pc \in {"visit", "wait"} => ~Is("windows")
    /\ pc \in {"detach", "wait", "detached"} => Detaching
    /\ pc \in {"eject", "ejectMedia"} => Op("eject")
    /\ pc \in {"authorize", "sheet", "granted"} => Op("write_image") \/ Op("format_disk")
    /\ pc \in {"open", "authopen", "verify", "sector", "stream", "sync", "close"} =>
         Op("write_image")
    /\ pc \in {"format", "awaitMount", "fatfmt"} => Op("format_disk")
    /\ pc \in {"openDisk", "recheck"} => ~Detaching
    /\ pc = "recheck" /\ Is("darwin") => Op("write_image")
    /\ pc = "recheck" => ~Is("linux")
    /\ pc \in {"lock", "lockWait"} =>
         (why = "eject" => Op("eject")) /\ (why = "open" => ~Detaching)
    /\ Op("unmount_dir") => pc \in {"start", "done"}

(* What may be held where.                                                 *)
Held ==
    /\ "image" \in holds => pc \notin {"start", "done"}
    /\ "ref" \in holds =>
         /\ Is("darwin")
         /\ \/ pc \in {"sheet", "granted"}
            \/ pc \in {"visit", "open", "recheck", "authopen", "verify"} /\ Op("write_image")
    /\ "claim" \in holds =>
         /\ Is("darwin")
         /\ pc \in {"recheck", "authopen", "verify", "stream", "sync", "close"}
    /\ "device" \in holds =>
         \/ pc \in {"verify", "sector", "stream", "sync", "close", "fatfmt"}
         \/ pc = "recheck" /\ Is("windows")
    /\ holds \cap Vols # {} =>
         /\ Is("windows")
         /\ pc \in {"lock", "openDisk", "recheck", "sector", "stream", "sync", "close", "fatfmt",
                    "ejectMedia"}

Consent == ~Detaching /\ pc \notin Unapproved => agreed

(* The device is the one that passed the gate, or is known to be like it.  *)
Gated ==
    /\ pc \in {"start", "resolve"} => harmed = {}
    /\ pc \notin {"start", "resolve", "done"} => names # "live"
    /\ Is("darwin") /\ pc \in {"recheck", "authopen", "verify", "stream"} => "claim" \in holds
    /\ Is("darwin") /\ pc \in {"authopen", "verify", "stream"} => InfoOf(names) = InfoOf(checked)
    /\ Is("windows") /\ pc \in {"recheck", "sector", "stream", "fatfmt"} => "device" \in holds
    /\ Is("windows") /\ pc \in {"sector", "stream", "fatfmt"} => names \in Removable

NothingMounted ==
    /\ Is("linux") /\ pc = "stream" => "device" \in holds
    /\ ~Is("windows") /\ pc \in {"verify", "stream"} => mounted = {}

(* How far the work has got.                                               *)
Written ==
    /\ written > 0 => harmed # {}
    /\ written <= Chunks
    /\ pc \in {"sync", "close"} => written = Chunks
    /\ pc = "close" => cached = 0
Formatted ==
    /\ Is("linux") /\ Op("format_disk") /\ pc = "visit" => tries = 1
    /\ Is("linux") /\ pc = "format" => tries \in 1 .. 8 /\ (tries > 1 => harmed # {})
    /\ pc = "awaitMount" => harmed # {}
Unmounted ==
    /\ pc = "visit" => kept \subseteq todo
    /\ pc = "lock" => kept \subseteq todo \cup job.silent
    /\ pc = "detached" \/ (pc \in {"eject", "ejectMedia"} /\ ~Is("darwin")) =>
         kept \subseteq job.silent
    /\ pc \in {"lock", "lockWait"} /\ why = "eject" => kept \subseteq job.silent
Cleared ==
    /\ ~Is("linux") => dirs = {}
    /\ Detaching /\ swaps = 0 =>
         IF pc \in {"start", "resolve", "detach"} THEN dirs \subseteq mounted
         ELSE pc \in {"visit", "wait", "detached", "lock", "lockWait", "eject", "ejectMedia"}
              => dirs \subseteq found

-----------------------------------------------------------------------------
(* What any request is made of.                                            *)
LEMMA JobFields ==
    TypeOK => job.host \in Hosts /\ job.op \in Ops /\ job.silent \subseteq Vols
BY JobsAssumption DEF TypeOK, JobSet

(* A step keeps the types: in particular every set of locks it takes is    *)
(* one of volumes and every counter stays a number.                        *)
LEMMA StepType == TypeOK /\ Placed /\ [Next]_vars => TypeOK'
<1> SUFFICES ASSUME TypeOK, Placed, [Next]_vars PROVE TypeOK'
    OBVIOUS
<1>0. job.host \in Hosts /\ job.op \in Ops /\ job.silent \subseteq Vols
    BY JobFields
<1> USE <1>0, VolsAssumption DEF TypeOK, Placed, Stations, Media, Removable, Hosts, Ops,
        Is, Op, Detaching, Goto, Return, worldVars, dataVars, walkVars, gateVars
<1>1. CASE Gate
  <2>1. CASE TakeImage
    BY <2>1 DEF TakeImage, Image, Quiet
  <2>2. CASE NeedsNoImage
    BY <2>2 DEF NeedsNoImage, Quiet
  <2>3. CASE UnmountDir
    BY <2>3 DEF UnmountDir
  <2>4. CASE ResolveTarget
    BY <2>4 DEF ResolveTarget, Passes, AfterGate
  <2>5. CASE AskUser \/ AskNobody \/ CancelledUnasked
    BY <2>5 DEF AskUser, AskNobody, Approve, CancelledUnasked, Quiet
  <2>6. CASE BeginUnmount
    BY <2>6 DEF BeginUnmount
  <2>7. CASE BeginDetach
    BY <2>7 DEF BeginDetach, MountDirs
  <2> QED
    BY <1>1, <2>1, <2>2, <2>3, <2>4, <2>5, <2>6, <2>7 DEF Gate
<1>2. CASE Unmount
  <2>1. CASE \E v \in Vols : Visit(v)
    BY <2>1 DEF Visit, Unmounts
  <2>2. CASE \E v \in Vols : LockVolume(v)
    BY <2>2 DEF LockVolume
  <2>3. CASE AllVisited
    BY <2>3 DEF AllVisited, AfterUnmount
  <2>4. CASE VisitFails
    BY <2>4 DEF VisitFails, OpenFails
  <2>5. CASE WaitOver
    <3>1. holds' \subseteq {"image", "ref", "claim", "device"} \cup Vols
      BY <2>5 DEF WaitOver, NextAttempt
    <3>2. todo' \subseteq Vols /\ tries' \in Nat
      BY <2>5 DEF WaitOver, NextAttempt
    <3> QED
      BY <3>1, <3>2, <2>5 DEF WaitOver, NextAttempt
  <2>6. CASE Detached
    BY <2>6 DEF Detached
  <2>7. CASE LockFails
    BY <2>7 DEF LockFails, LockError, BackEndError, CancelledOr
  <2>8. CASE LockWaitOver
    <3>1. holds' \subseteq {"image", "ref", "claim", "device"} \cup Vols
      BY <2>8 DEF LockWaitOver, NextAttempt
    <3>2. todo' \subseteq Vols /\ tries' \in Nat
      BY <2>8 DEF LockWaitOver, NextAttempt
    <3> QED
      BY <3>1, <3>2, <2>8 DEF LockWaitOver, NextAttempt
  <2>9. CASE AllLocked
    BY <2>9 DEF AllLocked, AfterUnmount
  <2>10. CASE LockFor("open", "open")
    <3>1. holds' \subseteq {"image", "ref", "claim", "device"} \cup Vols
      BY <2>10 DEF LockFor
    <3>2. todo' \subseteq Vols /\ tries' \in Nat
      BY <2>10 DEF LockFor
    <3> QED
      BY <3>1, <3>2, <2>10 DEF LockFor
  <2>11. CASE LockFor("open", "format")
    <3>1. holds' \subseteq {"image", "ref", "claim", "device"} \cup Vols
      BY <2>11 DEF LockFor
    <3>2. todo' \subseteq Vols /\ tries' \in Nat
      BY <2>11 DEF LockFor
    <3> QED
      BY <3>1, <3>2, <2>11 DEF LockFor
  <2>12. CASE LockFor("eject", "eject")
    <3>1. holds' \subseteq {"image", "ref", "claim", "device"} \cup Vols
      BY <2>12 DEF LockFor
    <3>2. todo' \subseteq Vols /\ tries' \in Nat
      BY <2>12 DEF LockFor
    <3> QED
      BY <3>1, <3>2, <2>12 DEF LockFor
  <2> QED
    BY <1>2, <2>1, <2>2, <2>3, <2>4, <2>5, <2>6, <2>7, <2>8, <2>9, <2>10, <2>11,
        <2>12 DEF Unmount
<1>3. CASE OpenRaw
  <2>1. CASE OpenLinux
    BY <2>1 DEF OpenLinux, OpenFails, Quiet
  <2>2. CASE Claim
    BY <2>2 DEF Claim, OpenFails, Quiet
  <2>3. CASE RecheckDarwin
    BY <2>3 DEF RecheckDarwin, Recheck, OpenFails, Quiet
  <2>4. CASE Authopen
    BY <2>4 DEF Authopen, OpenFails, Quiet
  <2>5. CASE VerifyDescriptor
    BY <2>5 DEF VerifyDescriptor, Opened, OpenFails, Quiet
  <2>6. CASE OpenDisk
    BY <2>6 DEF OpenDisk, BackEndError, CancelledOr, Quiet
  <2>7. CASE RecheckWindows
    BY <2>7 DEF RecheckWindows, BusOK, BackEndError, CancelledOr
  <2>8. CASE SectorSize
    BY <2>8 DEF SectorSize, SectorFails, Quiet
  <2> QED
    BY <1>3, <2>1, <2>2, <2>3, <2>4, <2>5, <2>6, <2>7, <2>8 DEF OpenRaw
<1>4. CASE Write
  <2>1. CASE WriteChunk
    BY <2>1 DEF WriteChunk
  <2>2. CASE StreamStops
    BY <2>2 DEF StreamStops, CloseRaw, CancelledOr
  <2>3. CASE Streamed
    BY <2>3 DEF Streamed, StreamEnds, Quiet
  <2>4. CASE Sync
    <3>1. holds' \subseteq {"image", "ref", "claim", "device"} \cup Vols
      BY <2>4 DEF Sync, CloseRaw
    <3>2. cached' \in Nat
      BY <2>4 DEF Sync, CloseRaw
    <3> QED
      BY <3>1, <3>2, <2>4 DEF Sync, CloseRaw
  <2>5. CASE CloseDevice
    BY <2>5 DEF CloseDevice, CloseRaw, Quiet
  <2> QED
    BY <1>4, <2>1, <2>2, <2>3, <2>4, <2>5 DEF Write
<1>5. CASE Format
  <2>1. CASE FormatGoesOn
    BY <2>1 DEF FormatGoesOn, FormatStep, LinuxFormat, Label
  <2>2. CASE FormatMounts
    BY <2>2 DEF FormatMounts, FormatStep, LinuxFormat, Label
  <2>3. CASE FormatFails
    BY <2>3 DEF FormatFails, FormatStep, CancelledOr
  <2>4. CASE EraseDisk
    BY <2>4 DEF EraseDisk, CancelledOr
  <2>5. CASE AwaitMount
    BY <2>5 DEF AwaitMount, CancelledOr, Quiet
  <2>6. CASE FormatWindows
    BY <2>6 DEF FormatWindows, FormatReturns, CancelledOr
  <2> QED
    BY <1>5, <2>1, <2>2, <2>3, <2>4, <2>5, <2>6 DEF Format
<1>6. CASE Eject
  <2>1. CASE EjectDarwin
    BY <2>1 DEF EjectDarwin
  <2>2. CASE EjectLinux \/ EjectMedia
    BY <2>2 DEF EjectLinux, EjectMedia, Quiet
  <2> QED
    BY <1>6, <2>1, <2>2 DEF Eject
<1>7. CASE SheetAnswered
    BY <1>7 DEF SheetAnswered, Approves, Approve, CancelledOr, Quiet
<1>8. CASE World
  <2>1. CASE Cancel
    BY <2>1 DEF Cancel
  <2>2. CASE Swap
    BY <2>2 DEF Swap, Pinned, Running
  <2>3. CASE \E v \in Vols : Automount(v)
    BY <2>3 DEF Automount, Mountable, Running
  <2>4. CASE \E v \in Vols : Use(v)
    BY <2>4 DEF Use, Running
  <2> QED
    BY <1>8, <2>1, <2>2, <2>3, <2>4 DEF World
<1>9. CASE UNCHANGED vars
    BY <1>9 DEF vars
<1> QED
    BY <1>1, <1>2, <1>3, <1>4, <1>5, <1>6, <1>7, <1>8, <1>9 DEF Next, Step

(* A step goes only where its host and its operation may be: the three     *)
(* back ends share the labels of one control flow and never mix.           *)
LEMMA StepPlaced == TypeOK /\ Placed /\ [Next]_vars => Placed'
<1> SUFFICES ASSUME TypeOK, Placed, [Next]_vars PROVE Placed'
    OBVIOUS
<1>0. job.host \in Hosts /\ job.op \in Ops /\ job.silent \subseteq Vols
    BY JobFields
<1> USE <1>0 DEF TypeOK, Placed, Stations, Hosts, Ops, Is, Op, Detaching, Goto, Return,
        worldVars, dataVars, walkVars, gateVars
<1>1. CASE Gate
    BY <1>1 DEF Gate, TakeImage, Image, Quiet, NeedsNoImage, UnmountDir, ResolveTarget,
        Passes, Removable, AfterGate, AskUser, AskNobody, Approve, CancelledUnasked,
        BeginUnmount, BeginDetach, MountDirs
<1>2. CASE Unmount
  <2>1. CASE \E v \in Vols : Visit(v)
    BY <2>1 DEF Visit, Unmounts
  <2>2. CASE \E v \in Vols : LockVolume(v)
    BY <2>2 DEF LockVolume
  <2>3. CASE AllVisited
    BY <2>3 DEF AllVisited, AfterUnmount
  <2>4. CASE VisitFails
    BY <2>4 DEF VisitFails, OpenFails
  <2>5. CASE WaitOver
    BY <2>5 DEF WaitOver, NextAttempt
  <2>6. CASE Detached
    BY <2>6 DEF Detached
  <2>7. CASE LockFails
    BY <2>7 DEF LockFails, LockError, BackEndError, CancelledOr
  <2>8. CASE LockWaitOver
    BY <2>8 DEF LockWaitOver, NextAttempt
  <2>9. CASE AllLocked
    <3>1. CASE why = "unmount"
      BY <2>9, <3>1 DEF AllLocked, AfterUnmount
    <3>2. CASE why = "open"
      BY <2>9, <3>2 DEF AllLocked, AfterUnmount
    <3>3. CASE why = "eject"
      BY <2>9, <3>3 DEF AllLocked, AfterUnmount
    <3> QED
      BY <3>1, <3>2, <3>3
  <2>10. CASE LockFor("open", "open")
    BY <2>10 DEF LockFor
  <2>11. CASE LockFor("open", "format")
    BY <2>11 DEF LockFor
  <2>12. CASE LockFor("eject", "eject")
    BY <2>12 DEF LockFor
  <2> QED
    BY <1>2, <2>1, <2>2, <2>3, <2>4, <2>5, <2>6, <2>7, <2>8, <2>9, <2>10, <2>11,
        <2>12 DEF Unmount
<1>3. CASE OpenRaw
    BY <1>3 DEF OpenRaw, OpenLinux, OpenFails, Quiet, Claim, RecheckDarwin, Recheck,
        Authopen, VerifyDescriptor, Opened, OpenDisk, BackEndError, CancelledOr,
        RecheckWindows, BusOK, Removable, SectorSize, SectorFails
<1>4. CASE Write
    BY <1>4 DEF Write, WriteChunk, StreamStops, CloseRaw, CancelledOr, Streamed,
        StreamEnds, Quiet, Sync, CloseDevice
<1>5. CASE Format
    BY <1>5 DEF Format, FormatGoesOn, FormatStep, LinuxFormat, Label, FormatMounts,
        FormatFails, CancelledOr, EraseDisk, AwaitMount, Quiet, FormatWindows, FormatReturns
<1>6. CASE Eject
    BY <1>6 DEF Eject, EjectDarwin, EjectLinux, EjectMedia, Quiet
<1>7. CASE SheetAnswered
    BY <1>7 DEF SheetAnswered, Approves, Approve, CancelledOr, Quiet
<1>8. CASE World
    BY <1>8 DEF World, Cancel, Swap, Pinned, Running, Automount, Mountable, Use
<1>9. CASE UNCHANGED vars
    BY <1>9 DEF vars
<1> QED
    BY <1>1, <1>2, <1>3, <1>4, <1>5, <1>6, <1>7, <1>8, <1>9 DEF Next, Step

(* A step that leaves the part of the work a handle is for lets go of it.  *)
LEMMA StepHeld == TypeOK /\ Placed /\ Held /\ [Next]_vars => Held'
<1> SUFFICES ASSUME TypeOK, Placed, Held, [Next]_vars PROVE Held'
    OBVIOUS
<1>0. job.host \in Hosts /\ job.op \in Ops /\ job.silent \subseteq Vols
    BY JobFields
<1> USE <1>0, VolsAssumption DEF TypeOK, Placed, Held, Hosts, Ops, Is, Op, Detaching, Goto,
        Return, worldVars, dataVars, walkVars, gateVars
<1>1. CASE Gate
    BY <1>1 DEF Gate, TakeImage, Image, Quiet, NeedsNoImage, UnmountDir, ResolveTarget,
        Passes, Removable, AfterGate, AskUser, AskNobody, Approve, CancelledUnasked,
        BeginUnmount, BeginDetach, MountDirs
<1>2. CASE Unmount
  <2>1. CASE \E v \in Vols : Visit(v)
    BY <2>1 DEF Visit, Unmounts
  <2>2. CASE \E v \in Vols : LockVolume(v)
    BY <2>2 DEF LockVolume
  <2>3. CASE AllVisited
    BY <2>3 DEF AllVisited, AfterUnmount
  <2>4. CASE VisitFails
    BY <2>4 DEF VisitFails, OpenFails
  <2>5. CASE WaitOver
    BY <2>5 DEF WaitOver, NextAttempt
  <2>6. CASE Detached
    BY <2>6 DEF Detached
  <2>7. CASE LockFails
    BY <2>7 DEF LockFails, LockError, BackEndError, CancelledOr
  <2>8. CASE LockWaitOver
    BY <2>8 DEF LockWaitOver, NextAttempt
  <2>9. CASE AllLocked
    BY <2>9 DEF AllLocked, AfterUnmount
  <2>10. CASE LockFor("open", "open")
    BY <2>10 DEF LockFor
  <2>11. CASE LockFor("open", "format")
    BY <2>11 DEF LockFor
  <2>12. CASE LockFor("eject", "eject")
    BY <2>12 DEF LockFor
  <2> QED
    BY <1>2, <2>1, <2>2, <2>3, <2>4, <2>5, <2>6, <2>7, <2>8, <2>9, <2>10, <2>11,
        <2>12 DEF Unmount
<1>3. CASE OpenRaw
    BY <1>3 DEF OpenRaw, OpenLinux, OpenFails, Quiet, Claim, RecheckDarwin, Recheck,
        Authopen, VerifyDescriptor, Opened, OpenDisk, BackEndError, CancelledOr,
        RecheckWindows, BusOK, Removable, SectorSize, SectorFails
<1>4. CASE Write
    BY <1>4 DEF Write, WriteChunk, StreamStops, CloseRaw, CancelledOr, Streamed,
        StreamEnds, Quiet, Sync, CloseDevice
<1>5. CASE Format
    BY <1>5 DEF Format, FormatGoesOn, FormatStep, LinuxFormat, Label, FormatMounts,
        FormatFails, CancelledOr, EraseDisk, AwaitMount, Quiet, FormatWindows, FormatReturns
<1>6. CASE Eject
    BY <1>6 DEF Eject, EjectDarwin, EjectLinux, EjectMedia, Quiet
<1>7. CASE SheetAnswered
    BY <1>7 DEF SheetAnswered, Approves, Approve, CancelledOr, Quiet
<1>8. CASE World
    BY <1>8 DEF World, Cancel, Swap, Pinned, Running, Automount, Mountable, Use
<1>9. CASE UNCHANGED vars
    BY <1>9 DEF vars
<1> QED
    BY <1>1, <1>2, <1>3, <1>4, <1>5, <1>6, <1>7, <1>8, <1>9 DEF Next, Step

(* Nobody passes the sheet without an approval.                            *)
LEMMA StepConsent == TypeOK /\ Placed /\ Consent /\ [Next]_vars => Consent'
<1> SUFFICES ASSUME TypeOK, Placed, Consent, [Next]_vars PROVE Consent'
    OBVIOUS
<1>0. job.host \in Hosts /\ job.op \in Ops /\ job.silent \subseteq Vols
    BY JobFields
<1> USE <1>0 DEF TypeOK, Placed, Consent, Unapproved, Stations, Hosts, Ops, Is, Op,
        Detaching, Goto, Return, worldVars, dataVars, walkVars, gateVars
<1>1. CASE Gate
    BY <1>1 DEF Gate, TakeImage, Image, Quiet, NeedsNoImage, UnmountDir, ResolveTarget,
        Passes, Removable, AfterGate, AskUser, AskNobody, Approve, CancelledUnasked,
        BeginUnmount, BeginDetach, MountDirs
<1>2. CASE Unmount
  <2>1. CASE \E v \in Vols : Visit(v)
    BY <2>1 DEF Visit, Unmounts
  <2>2. CASE \E v \in Vols : LockVolume(v)
    BY <2>2 DEF LockVolume
  <2>3. CASE AllVisited
    BY <2>3 DEF AllVisited, AfterUnmount
  <2>4. CASE VisitFails
    BY <2>4 DEF VisitFails, OpenFails
  <2>5. CASE WaitOver
    BY <2>5 DEF WaitOver, NextAttempt
  <2>6. CASE Detached
    BY <2>6 DEF Detached
  <2>7. CASE LockFails
    BY <2>7 DEF LockFails, LockError, BackEndError, CancelledOr
  <2>8. CASE LockWaitOver
    BY <2>8 DEF LockWaitOver, NextAttempt
  <2>9. CASE AllLocked
    BY <2>9 DEF AllLocked, AfterUnmount
  <2>10. CASE LockFor("open", "open")
    BY <2>10 DEF LockFor
  <2>11. CASE LockFor("open", "format")
    BY <2>11 DEF LockFor
  <2>12. CASE LockFor("eject", "eject")
    BY <2>12 DEF LockFor
  <2> QED
    BY <1>2, <2>1, <2>2, <2>3, <2>4, <2>5, <2>6, <2>7, <2>8, <2>9, <2>10, <2>11,
        <2>12 DEF Unmount
<1>3. CASE OpenRaw
    BY <1>3 DEF OpenRaw, OpenLinux, OpenFails, Quiet, Claim, RecheckDarwin, Recheck,
        Authopen, VerifyDescriptor, Opened, OpenDisk, BackEndError, CancelledOr,
        RecheckWindows, BusOK, Removable, SectorSize, SectorFails
<1>4. CASE Write
    BY <1>4 DEF Write, WriteChunk, StreamStops, CloseRaw, CancelledOr, Streamed,
        StreamEnds, Quiet, Sync, CloseDevice
<1>5. CASE Format
    BY <1>5 DEF Format, FormatGoesOn, FormatStep, LinuxFormat, Label, FormatMounts,
        FormatFails, CancelledOr, EraseDisk, AwaitMount, Quiet, FormatWindows, FormatReturns
<1>6. CASE Eject
    BY <1>6 DEF Eject, EjectDarwin, EjectLinux, EjectMedia, Quiet
<1>7. CASE SheetAnswered
    BY <1>7 DEF SheetAnswered, Approves, Approve, CancelledOr, Quiet
<1>8. CASE World
    BY <1>8 DEF World, Cancel, Swap, Pinned, Running, Automount, Mountable, Use
<1>9. CASE UNCHANGED vars
    BY <1>9 DEF vars
<1> QED
    BY <1>1, <1>2, <1>3, <1>4, <1>5, <1>6, <1>7, <1>8, <1>9 DEF Next, Step

(* The device cannot change between the last look at it and the write: it  *)
(* is pinned by a claim or an open handle before the look.                 *)
LEMMA StepGated == TypeOK /\ Placed /\ Held /\ Gated /\ [Next]_vars => Gated'
<1> SUFFICES ASSUME TypeOK, Placed, Held, Gated, [Next]_vars PROVE Gated'
    OBVIOUS
<1>0. job.host \in Hosts /\ job.op \in Ops /\ job.silent \subseteq Vols
    BY JobFields
<1> USE <1>0, VolsAssumption DEF TypeOK, Placed, Held, Gated, InfoOf, Media, Removable,
        Hosts, Ops, Is, Op, Detaching, Goto, Return, worldVars, dataVars, walkVars, gateVars
<1>1. CASE Gate
    BY <1>1 DEF Gate, TakeImage, Image, Quiet, NeedsNoImage, UnmountDir, ResolveTarget,
        Passes, AfterGate, AskUser, AskNobody, Approve, CancelledUnasked, BeginUnmount,
        BeginDetach, MountDirs
<1>2. CASE Unmount
  <2>1. CASE \E v \in Vols : Visit(v)
    BY <2>1 DEF Visit, Unmounts
  <2>2. CASE \E v \in Vols : LockVolume(v)
    BY <2>2 DEF LockVolume
  <2>3. CASE AllVisited
    BY <2>3 DEF AllVisited, AfterUnmount
  <2>4. CASE VisitFails
    BY <2>4 DEF VisitFails, OpenFails
  <2>5. CASE WaitOver
    BY <2>5 DEF WaitOver, NextAttempt
  <2>6. CASE Detached
    BY <2>6 DEF Detached
  <2>7. CASE LockFails
    BY <2>7 DEF LockFails, LockError, BackEndError, CancelledOr
  <2>8. CASE LockWaitOver
    BY <2>8 DEF LockWaitOver, NextAttempt
  <2>9. CASE AllLocked
    BY <2>9 DEF AllLocked, AfterUnmount
  <2>10. CASE LockFor("open", "open")
    BY <2>10 DEF LockFor
  <2>11. CASE LockFor("open", "format")
    BY <2>11 DEF LockFor
  <2>12. CASE LockFor("eject", "eject")
    BY <2>12 DEF LockFor
  <2> QED
    BY <1>2, <2>1, <2>2, <2>3, <2>4, <2>5, <2>6, <2>7, <2>8, <2>9, <2>10, <2>11,
        <2>12 DEF Unmount
<1>3. CASE OpenRaw
    BY <1>3 DEF OpenRaw, OpenLinux, OpenFails, Quiet, Claim, RecheckDarwin, Recheck,
        Authopen, VerifyDescriptor, Opened, OpenDisk, BackEndError, CancelledOr,
        RecheckWindows, BusOK, SectorSize, SectorFails
<1>4. CASE Write
    BY <1>4 DEF Write, WriteChunk, StreamStops, CloseRaw, CancelledOr, Streamed,
        StreamEnds, Quiet, Sync, CloseDevice
<1>5. CASE Format
    BY <1>5 DEF Format, FormatGoesOn, FormatStep, LinuxFormat, Label, FormatMounts,
        FormatFails, CancelledOr, EraseDisk, AwaitMount, Quiet, FormatWindows, FormatReturns
<1>6. CASE Eject
    BY <1>6 DEF Eject, EjectDarwin, EjectLinux, EjectMedia, Quiet
<1>7. CASE SheetAnswered
    BY <1>7 DEF SheetAnswered, Approves, Approve, CancelledOr, Quiet
<1>8. CASE World
  <2>1. CASE Cancel
    BY <2>1 DEF Cancel
  <2>2. CASE Swap
    BY <2>2 DEF Swap, Pinned, Running
  <2>3. CASE \E v \in Vols : Automount(v)
    BY <2>3 DEF Automount, Mountable, Running
  <2>4. CASE \E v \in Vols : Use(v)
    BY <2>4 DEF Use, Running
  <2> QED
    BY <1>8, <2>1, <2>2, <2>3, <2>4 DEF World
<1>9. CASE UNCHANGED vars
    BY <1>9 DEF vars
<1> QED
    BY <1>1, <1>2, <1>3, <1>4, <1>5, <1>6, <1>7, <1>8, <1>9 DEF Next, Step

(* A mount cannot come between the check and the write on Linux and macOS. *)
LEMMA StepNothingMounted ==
    TypeOK /\ Placed /\ Held /\ Gated /\ NothingMounted /\ [Next]_vars => NothingMounted'
<1> SUFFICES ASSUME TypeOK, Placed, Held, Gated, NothingMounted,
        [Next]_vars PROVE NothingMounted'
    OBVIOUS
<1>0. job.host \in Hosts /\ job.op \in Ops /\ job.silent \subseteq Vols
    BY JobFields
<1> USE <1>0, VolsAssumption DEF TypeOK, Placed, Held, Gated, NothingMounted, Hosts, Ops,
        Is, Op, Detaching, Goto, Return, worldVars, dataVars, walkVars, gateVars
<1>1. CASE Gate
    BY <1>1 DEF Gate, TakeImage, Image, Quiet, NeedsNoImage, UnmountDir, ResolveTarget,
        Passes, Removable, AfterGate, AskUser, AskNobody, Approve, CancelledUnasked,
        BeginUnmount, BeginDetach, MountDirs
<1>2. CASE Unmount
  <2>1. CASE \E v \in Vols : Visit(v)
    BY <2>1 DEF Visit, Unmounts
  <2>2. CASE \E v \in Vols : LockVolume(v)
    BY <2>2 DEF LockVolume
  <2>3. CASE AllVisited
    BY <2>3 DEF AllVisited, AfterUnmount
  <2>4. CASE VisitFails
    BY <2>4 DEF VisitFails, OpenFails
  <2>5. CASE WaitOver
    BY <2>5 DEF WaitOver, NextAttempt
  <2>6. CASE Detached
    BY <2>6 DEF Detached
  <2>7. CASE LockFails
    BY <2>7 DEF LockFails, LockError, BackEndError, CancelledOr
  <2>8. CASE LockWaitOver
    BY <2>8 DEF LockWaitOver, NextAttempt
  <2>9. CASE AllLocked
    BY <2>9 DEF AllLocked, AfterUnmount
  <2>10. CASE LockFor("open", "open")
    BY <2>10 DEF LockFor
  <2>11. CASE LockFor("open", "format")
    BY <2>11 DEF LockFor
  <2>12. CASE LockFor("eject", "eject")
    BY <2>12 DEF LockFor
  <2> QED
    BY <1>2, <2>1, <2>2, <2>3, <2>4, <2>5, <2>6, <2>7, <2>8, <2>9, <2>10, <2>11,
        <2>12 DEF Unmount
<1>3. CASE OpenRaw
    BY <1>3 DEF OpenRaw, OpenLinux, OpenFails, Quiet, Claim, RecheckDarwin, Recheck,
        Authopen, VerifyDescriptor, Opened, OpenDisk, BackEndError, CancelledOr,
        RecheckWindows, BusOK, Removable, SectorSize, SectorFails
<1>4. CASE Write
    BY <1>4 DEF Write, WriteChunk, StreamStops, CloseRaw, CancelledOr, Streamed,
        StreamEnds, Quiet, Sync, CloseDevice
<1>5. CASE Format
    BY <1>5 DEF Format, FormatGoesOn, FormatStep, LinuxFormat, Label, FormatMounts,
        FormatFails, CancelledOr, EraseDisk, AwaitMount, Quiet, FormatWindows, FormatReturns
<1>6. CASE Eject
    BY <1>6 DEF Eject, EjectDarwin, EjectLinux, EjectMedia, Quiet
<1>7. CASE SheetAnswered
    BY <1>7 DEF SheetAnswered, Approves, Approve, CancelledOr, Quiet
<1>8. CASE World
    BY <1>8 DEF World, Cancel, Swap, Pinned, Running, Automount, Mountable, Use
<1>9. CASE UNCHANGED vars
    BY <1>9 DEF vars
<1> QED
    BY <1>1, <1>2, <1>3, <1>4, <1>5, <1>6, <1>7, <1>8, <1>9 DEF Next, Step

(* The writer passes on to the flush and the close only when all is done.  *)
LEMMA StepWritten == TypeOK /\ Placed /\ Written /\ [Next]_vars => Written'
<1> SUFFICES ASSUME TypeOK, Placed, Written, [Next]_vars PROVE Written'
    OBVIOUS
<1>0. job.host \in Hosts /\ job.op \in Ops /\ job.silent \subseteq Vols
    BY JobFields
<1> USE <1>0, BoundsAssumption DEF TypeOK, Placed, Written, Hosts, Ops, Is, Op, Detaching,
        Goto, Return, worldVars, dataVars, walkVars, gateVars
<1>1. CASE Gate
    BY <1>1 DEF Gate, TakeImage, Image, Quiet, NeedsNoImage, UnmountDir, ResolveTarget,
        Passes, Removable, AfterGate, AskUser, AskNobody, Approve, CancelledUnasked,
        BeginUnmount, BeginDetach, MountDirs
<1>2. CASE Unmount
    BY <1>2 DEF Unmount, Visit, Unmounts, LockVolume, AllVisited, AfterUnmount, VisitFails,
        OpenFails, WaitOver, NextAttempt, Detached, LockFails, LockError, BackEndError,
        CancelledOr, LockWaitOver, AllLocked, LockFor
<1>3. CASE OpenRaw
    BY <1>3 DEF OpenRaw, OpenLinux, OpenFails, Quiet, Claim, RecheckDarwin, Recheck,
        Authopen, VerifyDescriptor, Opened, OpenDisk, BackEndError, CancelledOr,
        RecheckWindows, BusOK, Removable, SectorSize, SectorFails
<1>4. CASE Write
  <2>1. CASE WriteChunk
    BY <2>1 DEF WriteChunk
  <2>2. CASE StreamStops
    BY <2>2 DEF StreamStops, CloseRaw, CancelledOr
  <2>3. CASE Streamed
    BY <2>3 DEF Streamed, StreamEnds, Quiet
  <2>4. CASE Sync
    BY <2>4 DEF Sync, CloseRaw
  <2>5. CASE CloseDevice
    BY <2>5 DEF CloseDevice, CloseRaw, Quiet
  <2> QED
    BY <1>4, <2>1, <2>2, <2>3, <2>4, <2>5 DEF Write
<1>5. CASE Format
    BY <1>5 DEF Format, FormatGoesOn, FormatStep, LinuxFormat, Label, FormatMounts,
        FormatFails, CancelledOr, EraseDisk, AwaitMount, Quiet, FormatWindows, FormatReturns
<1>6. CASE Eject
    BY <1>6 DEF Eject, EjectDarwin, EjectLinux, EjectMedia, Quiet
<1>7. CASE SheetAnswered
    BY <1>7 DEF SheetAnswered, Approves, Approve, CancelledOr, Quiet
<1>8. CASE World
    BY <1>8 DEF World, Cancel, Swap, Pinned, Running, Automount, Mountable, Use
<1>9. CASE UNCHANGED vars
    BY <1>9 DEF vars
<1> QED
    BY <1>1, <1>2, <1>3, <1>4, <1>5, <1>6, <1>7, <1>8, <1>9 DEF Next, Step

(* A format that got past its first step has changed the device.           *)
LEMMA StepFormatted == TypeOK /\ Placed /\ Formatted /\ [Next]_vars => Formatted'
<1> SUFFICES ASSUME TypeOK, Placed, Formatted, [Next]_vars PROVE Formatted'
    OBVIOUS
<1>0. job.host \in Hosts /\ job.op \in Ops /\ job.silent \subseteq Vols
    BY JobFields
<1> USE <1>0 DEF TypeOK, Placed, Formatted, Hosts, Ops, Is, Op, Detaching, Goto, Return,
        worldVars, dataVars, walkVars, gateVars
<1>1. CASE Gate
    BY <1>1 DEF Gate, TakeImage, Image, Quiet, NeedsNoImage, UnmountDir, ResolveTarget,
        Passes, Removable, AfterGate, AskUser, AskNobody, Approve, CancelledUnasked,
        BeginUnmount, BeginDetach, MountDirs
<1>2. CASE Unmount
  <2>1. CASE \E v \in Vols : Visit(v)
    BY <2>1 DEF Visit, Unmounts
  <2>2. CASE \E v \in Vols : LockVolume(v)
    BY <2>2 DEF LockVolume
  <2>3. CASE AllVisited
    BY <2>3 DEF AllVisited, AfterUnmount
  <2>4. CASE VisitFails
    BY <2>4 DEF VisitFails, OpenFails
  <2>5. CASE WaitOver
    BY <2>5 DEF WaitOver, NextAttempt
  <2>6. CASE Detached
    BY <2>6 DEF Detached
  <2>7. CASE LockFails
    BY <2>7 DEF LockFails, LockError, BackEndError, CancelledOr
  <2>8. CASE LockWaitOver
    BY <2>8 DEF LockWaitOver, NextAttempt
  <2>9. CASE AllLocked
    BY <2>9 DEF AllLocked, AfterUnmount
  <2>10. CASE LockFor("open", "open")
    BY <2>10 DEF LockFor
  <2>11. CASE LockFor("open", "format")
    BY <2>11 DEF LockFor
  <2>12. CASE LockFor("eject", "eject")
    BY <2>12 DEF LockFor
  <2> QED
    BY <1>2, <2>1, <2>2, <2>3, <2>4, <2>5, <2>6, <2>7, <2>8, <2>9, <2>10, <2>11,
        <2>12 DEF Unmount
<1>3. CASE OpenRaw
    BY <1>3 DEF OpenRaw, OpenLinux, OpenFails, Quiet, Claim, RecheckDarwin, Recheck,
        Authopen, VerifyDescriptor, Opened, OpenDisk, BackEndError, CancelledOr,
        RecheckWindows, BusOK, Removable, SectorSize, SectorFails
<1>4. CASE Write
    BY <1>4 DEF Write, WriteChunk, StreamStops, CloseRaw, CancelledOr, Streamed,
        StreamEnds, Quiet, Sync, CloseDevice
<1>5. CASE Format
    BY <1>5 DEF Format, FormatGoesOn, FormatStep, LinuxFormat, Label, FormatMounts,
        FormatFails, CancelledOr, EraseDisk, AwaitMount, Quiet, FormatWindows, FormatReturns
<1>6. CASE Eject
    BY <1>6 DEF Eject, EjectDarwin, EjectLinux, EjectMedia, Quiet
<1>7. CASE SheetAnswered
    BY <1>7 DEF SheetAnswered, Approves, Approve, CancelledOr, Quiet
<1>8. CASE World
    BY <1>8 DEF World, Cancel, Swap, Pinned, Running, Automount, Mountable, Use
<1>9. CASE UNCHANGED vars
    BY <1>9 DEF vars
<1> QED
    BY <1>1, <1>2, <1>3, <1>4, <1>5, <1>6, <1>7, <1>8, <1>9 DEF Next, Step

(* Each pass leaves mounted, of the volumes it found, only those it has    *)
(* not come to, or cannot read.                                            *)
LEMMA StepUnmounted == TypeOK /\ Placed /\ Unmounted /\ [Next]_vars => Unmounted'
<1> SUFFICES ASSUME TypeOK, Placed, Unmounted, [Next]_vars PROVE Unmounted'
    OBVIOUS
<1>0. job.host \in Hosts /\ job.op \in Ops /\ job.silent \subseteq Vols
    BY JobFields
<1> USE <1>0 DEF TypeOK, Placed, Unmounted, Hosts, Ops, Is, Op, Detaching, Goto, Return,
        worldVars, dataVars, walkVars, gateVars
<1>1. CASE Gate
    BY <1>1 DEF Gate, TakeImage, Image, Quiet, NeedsNoImage, UnmountDir, ResolveTarget,
        Passes, Removable, AfterGate, AskUser, AskNobody, Approve, CancelledUnasked,
        BeginUnmount, BeginDetach, MountDirs
<1>2. CASE Unmount
  <2>1. CASE \E v \in Vols : Visit(v)
    BY <2>1 DEF Visit, Unmounts
  <2>2. CASE \E v \in Vols : LockVolume(v)
    BY <2>2 DEF LockVolume
  <2>3. CASE AllVisited
    BY <2>3 DEF AllVisited, AfterUnmount
  <2>4. CASE VisitFails
    BY <2>4 DEF VisitFails, OpenFails
  <2>5. CASE WaitOver
    BY <2>5 DEF WaitOver, NextAttempt
  <2>6. CASE Detached
    BY <2>6 DEF Detached
  <2>7. CASE LockFails
    BY <2>7 DEF LockFails, LockError, BackEndError, CancelledOr
  <2>8. CASE LockWaitOver
    BY <2>8 DEF LockWaitOver, NextAttempt
  <2>9. CASE AllLocked
    BY <2>9 DEF AllLocked, AfterUnmount
  <2>10. CASE LockFor("open", "open")
    BY <2>10 DEF LockFor
  <2>11. CASE LockFor("open", "format")
    BY <2>11 DEF LockFor
  <2>12. CASE LockFor("eject", "eject")
    BY <2>12 DEF LockFor
  <2> QED
    BY <1>2, <2>1, <2>2, <2>3, <2>4, <2>5, <2>6, <2>7, <2>8, <2>9, <2>10, <2>11,
        <2>12 DEF Unmount
<1>3. CASE OpenRaw
    BY <1>3 DEF OpenRaw, OpenLinux, OpenFails, Quiet, Claim, RecheckDarwin, Recheck,
        Authopen, VerifyDescriptor, Opened, OpenDisk, BackEndError, CancelledOr,
        RecheckWindows, BusOK, Removable, SectorSize, SectorFails
<1>4. CASE Write
    BY <1>4 DEF Write, WriteChunk, StreamStops, CloseRaw, CancelledOr, Streamed,
        StreamEnds, Quiet, Sync, CloseDevice
<1>5. CASE Format
    BY <1>5 DEF Format, FormatGoesOn, FormatStep, LinuxFormat, Label, FormatMounts,
        FormatFails, CancelledOr, EraseDisk, AwaitMount, Quiet, FormatWindows, FormatReturns
<1>6. CASE Eject
    BY <1>6 DEF Eject, EjectDarwin, EjectLinux, EjectMedia, Quiet
<1>7. CASE SheetAnswered
    BY <1>7 DEF SheetAnswered, Approves, Approve, CancelledOr, Quiet
<1>8. CASE World
    BY <1>8 DEF World, Cancel, Swap, Pinned, Running, Automount, Mountable, Use
<1>9. CASE UNCHANGED vars
    BY <1>9 DEF vars
<1> QED
    BY <1>1, <1>2, <1>3, <1>4, <1>5, <1>6, <1>7, <1>8, <1>9 DEF Next, Step

(* detach finds every directory whose volume it is about to unmount.       *)
LEMMA StepCleared == TypeOK /\ Placed /\ Cleared /\ [Next]_vars => Cleared'
<1> SUFFICES ASSUME TypeOK, Placed, Cleared, [Next]_vars PROVE Cleared'
    OBVIOUS
<1>0. job.host \in Hosts /\ job.op \in Ops /\ job.silent \subseteq Vols
    BY JobFields
<1> USE <1>0 DEF TypeOK, Placed, Cleared, Hosts, Ops, Is, Op, Detaching, Goto, Return,
        worldVars, dataVars, walkVars, gateVars
<1>1. CASE Gate
    BY <1>1 DEF Gate, TakeImage, Image, Quiet, NeedsNoImage, UnmountDir, ResolveTarget,
        Passes, Removable, AfterGate, AskUser, AskNobody, Approve, CancelledUnasked,
        BeginUnmount, BeginDetach, MountDirs
<1>2. CASE Unmount
  <2>1. CASE \E v \in Vols : Visit(v)
    BY <2>1 DEF Visit, Unmounts
  <2>2. CASE \E v \in Vols : LockVolume(v)
    BY <2>2 DEF LockVolume
  <2>3. CASE AllVisited
    BY <2>3 DEF AllVisited, AfterUnmount
  <2>4. CASE VisitFails
    BY <2>4 DEF VisitFails, OpenFails
  <2>5. CASE WaitOver
    BY <2>5 DEF WaitOver, NextAttempt
  <2>6. CASE Detached
    BY <2>6 DEF Detached
  <2>7. CASE LockFails
    BY <2>7 DEF LockFails, LockError, BackEndError, CancelledOr
  <2>8. CASE LockWaitOver
    BY <2>8 DEF LockWaitOver, NextAttempt
  <2>9. CASE AllLocked
    BY <2>9 DEF AllLocked, AfterUnmount
  <2>10. CASE LockFor("open", "open")
    BY <2>10 DEF LockFor
  <2>11. CASE LockFor("open", "format")
    BY <2>11 DEF LockFor
  <2>12. CASE LockFor("eject", "eject")
    BY <2>12 DEF LockFor
  <2> QED
    BY <1>2, <2>1, <2>2, <2>3, <2>4, <2>5, <2>6, <2>7, <2>8, <2>9, <2>10, <2>11,
        <2>12 DEF Unmount
<1>3. CASE OpenRaw
    BY <1>3 DEF OpenRaw, OpenLinux, OpenFails, Quiet, Claim, RecheckDarwin, Recheck,
        Authopen, VerifyDescriptor, Opened, OpenDisk, BackEndError, CancelledOr,
        RecheckWindows, BusOK, Removable, SectorSize, SectorFails
<1>4. CASE Write
    BY <1>4 DEF Write, WriteChunk, StreamStops, CloseRaw, CancelledOr, Streamed,
        StreamEnds, Quiet, Sync, CloseDevice
<1>5. CASE Format
    BY <1>5 DEF Format, FormatGoesOn, FormatStep, LinuxFormat, Label, FormatMounts,
        FormatFails, CancelledOr, EraseDisk, AwaitMount, Quiet, FormatWindows, FormatReturns
<1>6. CASE Eject
    BY <1>6 DEF Eject, EjectDarwin, EjectLinux, EjectMedia, Quiet
<1>7. CASE SheetAnswered
    BY <1>7 DEF SheetAnswered, Approves, Approve, CancelledOr, Quiet
<1>8. CASE World
    BY <1>8 DEF World, Cancel, Swap, Pinned, Running, Automount, Mountable, Use
<1>9. CASE UNCHANGED vars
    BY <1>9 DEF vars
<1> QED
    BY <1>1, <1>2, <1>3, <1>4, <1>5, <1>6, <1>7, <1>8, <1>9 DEF Next, Step

(* A step that returns success has the work behind it.                     *)
LEMMA StepSuccess ==
    TypeOK /\ Placed /\ Written /\ Formatted /\ Unmounted /\ Cleared /\ SuccessIsReal
        /\ [Next]_vars => SuccessIsReal'
<1> SUFFICES ASSUME TypeOK, Placed, Written, Formatted, Unmounted, Cleared, SuccessIsReal,
        [Next]_vars PROVE SuccessIsReal'
    OBVIOUS
<1>0. job.host \in Hosts /\ job.op \in Ops /\ job.silent \subseteq Vols
    BY JobFields
<1> USE <1>0, BoundsAssumption DEF TypeOK, Placed, Written, Formatted, Unmounted, Cleared,
        SuccessIsReal, Hosts, Ops, Is, Op, Detaching, Goto, Return, worldVars, dataVars,
        walkVars, gateVars
<1>1. CASE Gate
    BY <1>1 DEF Gate, TakeImage, Image, Quiet, NeedsNoImage, UnmountDir, ResolveTarget,
        Passes, Removable, AfterGate, AskUser, AskNobody, Approve, CancelledUnasked,
        BeginUnmount, BeginDetach, MountDirs
<1>2. CASE Unmount
  <2>1. CASE \E v \in Vols : Visit(v)
    BY <2>1 DEF Visit, Unmounts
  <2>2. CASE \E v \in Vols : LockVolume(v)
    BY <2>2 DEF LockVolume
  <2>3. CASE AllVisited
    BY <2>3 DEF AllVisited, AfterUnmount
  <2>4. CASE VisitFails
    BY <2>4 DEF VisitFails, OpenFails
  <2>5. CASE WaitOver
    BY <2>5 DEF WaitOver, NextAttempt
  <2>6. CASE Detached
    BY <2>6 DEF Detached
  <2>7. CASE LockFails
    BY <2>7 DEF LockFails, LockError, BackEndError, CancelledOr
  <2>8. CASE LockWaitOver
    BY <2>8 DEF LockWaitOver, NextAttempt
  <2>9. CASE AllLocked
    BY <2>9 DEF AllLocked, AfterUnmount
  <2>10. CASE LockFor("open", "open")
    BY <2>10 DEF LockFor
  <2>11. CASE LockFor("open", "format")
    BY <2>11 DEF LockFor
  <2>12. CASE LockFor("eject", "eject")
    BY <2>12 DEF LockFor
  <2> QED
    BY <1>2, <2>1, <2>2, <2>3, <2>4, <2>5, <2>6, <2>7, <2>8, <2>9, <2>10, <2>11,
        <2>12 DEF Unmount
<1>3. CASE OpenRaw
    BY <1>3 DEF OpenRaw, OpenLinux, OpenFails, Quiet, Claim, RecheckDarwin, Recheck,
        Authopen, VerifyDescriptor, Opened, OpenDisk, BackEndError, CancelledOr,
        RecheckWindows, BusOK, Removable, SectorSize, SectorFails
<1>4. CASE Write
    BY <1>4 DEF Write, WriteChunk, StreamStops, CloseRaw, CancelledOr, Streamed,
        StreamEnds, Quiet, Sync, CloseDevice
<1>5. CASE Format
    BY <1>5 DEF Format, FormatGoesOn, FormatStep, LinuxFormat, Label, FormatMounts,
        FormatFails, CancelledOr, EraseDisk, AwaitMount, Quiet, FormatWindows, FormatReturns
<1>6. CASE Eject
    BY <1>6 DEF Eject, EjectDarwin, EjectLinux, EjectMedia, Quiet
<1>7. CASE SheetAnswered
    BY <1>7 DEF SheetAnswered, Approves, Approve, CancelledOr, Quiet
<1>8. CASE World
    BY <1>8 DEF World, Cancel, Swap, Pinned, Running, Automount, Mountable, Use
<1>9. CASE UNCHANGED vars
    BY <1>9 DEF vars
<1> QED
    BY <1>1, <1>2, <1>3, <1>4, <1>5, <1>6, <1>7, <1>8, <1>9 DEF Next, Step

(* A step that changes a device changes one that passed the gate.          *)
LEMMA StepHarm ==
    TypeOK /\ Placed /\ Held /\ Gated /\ OnlyWhatPassedTheGate
        /\ [Next]_vars => OnlyWhatPassedTheGate'
<1> SUFFICES ASSUME TypeOK, Placed, Held, Gated, OnlyWhatPassedTheGate,
        [Next]_vars PROVE OnlyWhatPassedTheGate'
    OBVIOUS
<1>0. job.host \in Hosts /\ job.op \in Ops /\ job.silent \subseteq Vols
    BY JobFields
<1> USE <1>0, VolsAssumption DEF TypeOK, Placed, Held, Gated, OnlyWhatPassedTheGate,
        Passes, Removable, InfoOf, Hosts, Ops, Is, Op, Detaching, Goto, Return, worldVars,
        dataVars, walkVars, gateVars
<1>1. CASE Gate
    BY <1>1 DEF Gate, TakeImage, Image, Quiet, NeedsNoImage, UnmountDir, ResolveTarget,
        AfterGate, AskUser, AskNobody, Approve, CancelledUnasked, BeginUnmount,
        BeginDetach, MountDirs
<1>2. CASE Unmount
  <2>1. CASE \E v \in Vols : Visit(v)
    BY <2>1 DEF Visit, Unmounts
  <2>2. CASE \E v \in Vols : LockVolume(v)
    BY <2>2 DEF LockVolume
  <2>3. CASE AllVisited
    BY <2>3 DEF AllVisited, AfterUnmount
  <2>4. CASE VisitFails
    BY <2>4 DEF VisitFails, OpenFails
  <2>5. CASE WaitOver
    BY <2>5 DEF WaitOver, NextAttempt
  <2>6. CASE Detached
    BY <2>6 DEF Detached
  <2>7. CASE LockFails
    BY <2>7 DEF LockFails, LockError, BackEndError, CancelledOr
  <2>8. CASE LockWaitOver
    BY <2>8 DEF LockWaitOver, NextAttempt
  <2>9. CASE AllLocked
    BY <2>9 DEF AllLocked, AfterUnmount
  <2>10. CASE LockFor("open", "open")
    BY <2>10 DEF LockFor
  <2>11. CASE LockFor("open", "format")
    BY <2>11 DEF LockFor
  <2>12. CASE LockFor("eject", "eject")
    BY <2>12 DEF LockFor
  <2> QED
    BY <1>2, <2>1, <2>2, <2>3, <2>4, <2>5, <2>6, <2>7, <2>8, <2>9, <2>10, <2>11,
        <2>12 DEF Unmount
<1>3. CASE OpenRaw
    BY <1>3 DEF OpenRaw, OpenLinux, OpenFails, Quiet, Claim, RecheckDarwin, Recheck,
        Authopen, VerifyDescriptor, Opened, OpenDisk, BackEndError, CancelledOr,
        RecheckWindows, BusOK, SectorSize, SectorFails
<1>4. CASE Write
    BY <1>4 DEF Write, WriteChunk, StreamStops, CloseRaw, CancelledOr, Streamed,
        StreamEnds, Quiet, Sync, CloseDevice
<1>5. CASE Format
    BY <1>5 DEF Format, FormatGoesOn, FormatStep, LinuxFormat, Label, FormatMounts,
        FormatFails, CancelledOr, EraseDisk, AwaitMount, Quiet, FormatWindows, FormatReturns
<1>6. CASE Eject
    BY <1>6 DEF Eject, EjectDarwin, EjectLinux, EjectMedia, Quiet
<1>7. CASE SheetAnswered
    BY <1>7 DEF SheetAnswered, Approves, Approve, CancelledOr, Quiet
<1>8. CASE World
    BY <1>8 DEF World, Cancel, Swap, Pinned, Running, Automount, Mountable, Use
<1>9. CASE UNCHANGED vars
    BY <1>9 DEF vars
<1> QED
    BY <1>1, <1>2, <1>3, <1>4, <1>5, <1>6, <1>7, <1>8, <1>9 DEF Next, Step

-----------------------------------------------------------------------------
(* The inductive invariant.  Neither of the two invariants it ends with    *)
(* is inductive alone: what may be changed or reported now depends on what *)
(* is held, seen and left mounted since the gate.                          *)
IInv ==
    /\ TypeOK /\ Placed /\ Held /\ Consent /\ Gated /\ NothingMounted
    /\ Written /\ Formatted /\ Unmounted /\ Cleared
    /\ SuccessIsReal /\ OnlyWhatPassedTheGate

(* It holds when an operation begins: nothing is held and nothing done.    *)
LEMMA InitInvariant == Init => IInv
<1> SUFFICES ASSUME Init PROVE IInv
    OBVIOUS
<1>0. job.host \in Hosts /\ job.op \in Ops /\ job.silent \subseteq Vols
    BY JobsAssumption DEF Init, JobSet
<1>1. TypeOK
    BY <1>0 DEF Init, TypeOK, Stations, Media, Is
<1>2. Placed /\ Held /\ Consent
    BY <1>0, VolsAssumption DEF Init, Placed, Held, Consent, Unapproved, Op, Detaching
<1>3. Gated /\ NothingMounted
    BY <1>0 DEF Init, Gated, NothingMounted
<1>4. Written /\ Formatted /\ Unmounted /\ Cleared
    BY <1>0, BoundsAssumption DEF Init, Written, Formatted, Unmounted, Cleared, Is
<1>5. SuccessIsReal /\ OnlyWhatPassedTheGate
    BY DEF Init, SuccessIsReal, OnlyWhatPassedTheGate
<1> QED
    BY <1>1, <1>2, <1>3, <1>4, <1>5 DEF IInv

(* Every step of the operation, of the user and of the world keeps it.     *)
LEMMA StepInvariant == IInv /\ [Next]_vars => IInv'
BY StepType, StepPlaced, StepHeld, StepConsent, StepGated, StepNothingMounted, StepWritten,
   StepFormatted, StepUnmounted, StepCleared, StepSuccess, StepHarm DEF IInv

(* So it holds throughout.                                                 *)
LEMMA Invariance == Spec => []IInv
BY InitInvariant, StepInvariant, PTL DEF Spec

(* The types of HelperOps are right, its locks are volumes, and a result   *)
(* is there exactly when the operation has returned.                       *)
THEOREM TypeCorrect == Spec => []TypeOK
<1>1. IInv => TypeOK
    BY DEF IInv
<1> QED
    BY <1>1, Invariance, PTL

(* An operation that has returned holds no grant, claim, lock, device or   *)
(* image, whichever of its calls failed and whenever it was cancelled; and *)
(* no byte is written while the grant is alive (ops.go:108-112, 245).      *)
THEOREM HoldsNothingAtTheEnd == Spec => []HeldOnlyWhileNeeded
<1>1. IInv => HeldOnlyWhileNeeded
    BY VolsAssumption DEF IInv, TypeOK, Held, HeldOnlyWhileNeeded, Writing
<1> QED
    BY <1>1, Invariance, PTL

(* However often the path changes its device, what is changed is what      *)
(* passed the gate, as far as the host can tell devices apart, and never   *)
(* the disk the system runs from (disk_darwin.go:179,                      *)
(* disk_windows.go:275).                                                   *)
THEOREM HarmsOnlyTheApproved == Spec => []OnlyWhatPassedTheGate
<1>1. IInv => OnlyWhatPassedTheGate
    BY DEF IInv
<1> QED
    BY <1>1, Invariance, PTL

(* An operation that reports success has written and flushed the whole     *)
(* image, formatted the device, or unmounted all it found mounted and      *)
(* could read (ops.go:128, 160, 172).                                      *)
THEOREM SuccessIsEarned == Spec => []SuccessIsReal
<1>1. IInv => SuccessIsReal
    BY DEF IInv
<1> QED
    BY <1>1, Invariance, PTL

(* No chunk goes to a device with a mounted volume, whenever an            *)
(* automounter acts (disk_darwin.go:129, disk_linux.go).                   *)
THEOREM WritesUnderNoMount == Spec => NoWriteUnderAMount
<1>1. IInv /\ [Next]_vars => [written' > written => mounted = {}]_vars
  <2> SUFFICES ASSUME IInv, Next, written' > written PROVE mounted = {}
      BY DEF vars
  <2>0. job.host \in Hosts /\ written \in Nat /\ ~(written > written)
      BY JobFields DEF IInv, TypeOK
  <2>1. CASE Gate
      BY <2>0, <2>1 DEF Gate, TakeImage, Image, Quiet, NeedsNoImage, UnmountDir,
        ResolveTarget, Passes, Removable, AfterGate, AskUser, AskNobody, Approve,
        CancelledUnasked, BeginUnmount, BeginDetach, MountDirs, Is, Op, Detaching, Goto,
        Return, worldVars, dataVars, walkVars, gateVars
  <2>2. CASE Unmount
      BY <2>0, <2>2 DEF Unmount, Visit, Unmounts, LockVolume, AllVisited, AfterUnmount,
        VisitFails, OpenFails, WaitOver, NextAttempt, Detached, LockFails, LockError,
        BackEndError, CancelledOr, LockWaitOver, AllLocked, LockFor, Is, Op, Detaching,
        Goto, Return, worldVars, dataVars, walkVars, gateVars
  <2>3. CASE OpenRaw
      BY <2>0, <2>3 DEF OpenRaw, OpenLinux, OpenFails, Quiet, Claim, RecheckDarwin,
        Recheck, Authopen, VerifyDescriptor, Opened, OpenDisk, BackEndError, CancelledOr,
        RecheckWindows, BusOK, Removable, SectorSize, SectorFails, Is, Op, Detaching, Goto,
        Return, worldVars, dataVars, walkVars, gateVars
  <2>4. CASE Write
      BY <2>0, <2>4 DEF Write, WriteChunk, StreamStops, CloseRaw, CancelledOr, Streamed,
        StreamEnds, Quiet, Sync, CloseDevice, IInv, NothingMounted, Hosts, Is, Op,
        Detaching, Goto, Return, worldVars, dataVars, walkVars, gateVars
  <2>5. CASE Format
      BY <2>0, <2>5 DEF Format, FormatGoesOn, FormatStep, LinuxFormat, Label, FormatMounts,
        FormatFails, CancelledOr, EraseDisk, AwaitMount, Quiet, FormatWindows,
        FormatReturns, Is, Op, Detaching, Goto, Return, worldVars, dataVars, walkVars,
        gateVars
  <2>6. CASE Eject
      BY <2>0, <2>6 DEF Eject, EjectDarwin, EjectLinux, EjectMedia, Quiet, Is, Op,
        Detaching, Goto, Return, worldVars, dataVars, walkVars, gateVars
  <2>7. CASE SheetAnswered
      BY <2>0, <2>7 DEF SheetAnswered, Approves, Approve, CancelledOr, Quiet, Is, Op,
        Detaching, Goto, Return, worldVars, dataVars, walkVars, gateVars
  <2>8. CASE World
      BY <2>0, <2>8 DEF World, Cancel, Swap, Pinned, Running, Automount, Mountable, Use,
        Is, Op, Detaching, Goto, Return, worldVars, dataVars, walkVars, gateVars
  <2> QED
      BY <2>1, <2>2, <2>3, <2>4, <2>5, <2>6, <2>7, <2>8 DEF Next, Step
<1> QED
    BY <1>1, Invariance, PTL DEF NoWriteUnderAMount, Spec

(* Nothing of the device is unmounted or changed before the user agreed,   *)
(* and a cancel that came first is never overtaken by the approval         *)
(* (ops.go:78).                                                            *)
THEOREM AsksFirst == Spec => ConsentFirst
<1> DEFINE A == ~Detaching => /\ (harmed' # harmed \/ todo' # todo) => agreed
                              /\ ctxDone /\ ~agreed => ~agreed'
<1>1. IInv /\ [Next]_vars => [A]_vars
  <2> SUFFICES ASSUME IInv, Next PROVE A
      BY DEF vars
  <2>1. TypeOK /\ Placed /\ Consent
      BY DEF IInv
  <2>2. CASE Gate
      BY <2>1, <2>2 DEF Gate, TypeOK, Placed, Consent, Unapproved, TakeImage, NeedsNoImage,
        UnmountDir, ResolveTarget, AskUser, AskNobody, Approve, CancelledUnasked,
        BeginUnmount, BeginDetach, Quiet, Is, Op, Detaching, Goto, Return, worldVars,
        dataVars, walkVars, gateVars
  <2>3. CASE Unmount
      BY <2>1, <2>3 DEF Unmount, Visit, Unmounts, LockVolume, AllVisited, AfterUnmount,
        VisitFails, OpenFails, WaitOver, NextAttempt, Detached, LockFails, LockError,
        BackEndError, CancelledOr, LockWaitOver, AllLocked, LockFor, TypeOK, Placed,
        Consent, Unapproved, Stations, Is, Op, Detaching, Goto, Return, worldVars,
        dataVars, walkVars, gateVars
  <2>4. CASE OpenRaw
      BY <2>1, <2>4 DEF OpenRaw, OpenLinux, OpenFails, Quiet, Claim, RecheckDarwin,
        Recheck, Authopen, VerifyDescriptor, Opened, OpenDisk, BackEndError, CancelledOr,
        RecheckWindows, BusOK, Removable, SectorSize, SectorFails, TypeOK, Placed, Consent,
        Unapproved, Stations, Is, Op, Detaching, Goto, Return, worldVars, dataVars,
        walkVars, gateVars
  <2>5. CASE Write
      BY <2>1, <2>5 DEF Write, WriteChunk, StreamStops, CloseRaw, CancelledOr, Streamed,
        StreamEnds, Quiet, Sync, CloseDevice, TypeOK, Placed, Consent, Unapproved,
        Stations, Is, Op, Detaching, Goto, Return, worldVars, dataVars, walkVars, gateVars
  <2>6. CASE Format
      BY <2>1, <2>6 DEF Format, FormatGoesOn, FormatStep, LinuxFormat, Label, FormatMounts,
        FormatFails, CancelledOr, EraseDisk, AwaitMount, Quiet, FormatWindows,
        FormatReturns, TypeOK, Placed, Consent, Unapproved, Stations, Is, Op, Detaching,
        Goto, Return, worldVars, dataVars, walkVars, gateVars
  <2>7. CASE Eject
      BY <2>1, <2>7 DEF Eject, EjectDarwin, EjectLinux, EjectMedia, Quiet, TypeOK, Placed,
        Consent, Unapproved, Stations, Is, Op, Detaching, Goto, Return, worldVars,
        dataVars, walkVars, gateVars
  <2>8. CASE SheetAnswered
      BY <2>1, <2>8 DEF SheetAnswered, Approves, Approve, CancelledOr, Quiet, TypeOK,
        Placed, Consent, Unapproved, Stations, Is, Op, Detaching, Goto, Return, worldVars,
        dataVars, walkVars, gateVars
  <2>9. CASE World
      BY <2>1, <2>9 DEF World, Cancel, Swap, Pinned, Running, Automount, Mountable, Use,
        TypeOK, Placed, Consent, Unapproved, Stations, Is, Op, Detaching, Goto, Return,
        worldVars, dataVars, walkVars, gateVars
  <2> QED
      BY <2>2, <2>3, <2>4, <2>5, <2>6, <2>7, <2>8, <2>9 DEF Next, Step
<1> QED
    BY <1>1, Invariance, PTL DEF ConsentFirst, Spec
=============================================================================
