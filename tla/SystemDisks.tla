----------------------------- MODULE SystemDisks -----------------------------
(* The gate in front of every destructive operation (ops.go resolveTarget): *)
(* how each host tells which disks the running system stands on             *)
(* (sysfs.go, diskutil.go, validate/windows.go) and what validate.Target    *)
(* makes of a device.  Block devices form a graph: a partition lies on its  *)
(* disk, and a mapped, md or synthesized APFS disk has others behind it.    *)
(* Names of devices are numbers: nothing stands on a device of higher       *)
(* number, as the kernel builds its stacks.                                 *)
(*                                                                          *)
(* An operator that stands just before a definition and takes its name      *)
(* with a suffix is a faulty variant, used only to try the properties.      *)
EXTENDS Naturals, FiniteSets

CONSTANTS
    Devices,        \* how many block devices the machine has (bound)
    SysfsDepth,     \* 8 in sysfs.go
    DiskutilDepth   \* 4 in diskutil.go

ASSUME DevicesAssumption == Devices \in Nat \ {0}
ASSUME DepthAssumption == SysfsDepth \in Nat /\ DiskutilDepth \in Nat

Nodes == 1 .. Devices
Failed == 0                  \* a name no device has: the lookup was an error
Anonymous == Devices + 1     \* major number 0, as btrfs and overlays have

VARIABLES
    machine,    \* the host, its devices, its mounts; it never changes
    gate,       \* "closed" until the gate has been asked
    accepted    \* the devices the gate lets pass

gateVars == <<machine, gate, accepted>>

Whole(n) == machine.disk[n]
IsDisk(n) == Whole(n) = n

-----------------------------------------------------------------------------
(* Linux: the system mounts of /proc/self/mountinfo.                        *)

(* entryFor: the device number, or for an anonymous one the mount source if *)
(* it names a device node.                                                  *)
EntryFor(m) ==
    IF m.dev # Anonymous THEN m.dev
    ELSE IF m.source \in Nodes THEN m.source ELSE Failed

(* From a partition to its disk, from there to what lies behind it.  A      *)
(* device that cannot be looked up, or too deep a stack, fails the whole    *)
(* walk.                                                                    *)
WalkNoParent(maxDepth, start) ==
    LET walk[d \in 0 .. maxDepth + 1] ==
            [n \in Nodes |->
                IF d > maxDepth \/ n \in machine.lost THEN {Failed}
                ELSE IF machine.behind[n] = {} THEN {Whole(n)}
                ELSE UNION {walk[d + 1][s] : s \in machine.behind[n]}]
    IN walk[0][start]
Walk(maxDepth, start) ==
    LET walk[d \in 0 .. maxDepth + 1] ==
            [n \in Nodes |->
                IF d > maxDepth \/ n \in machine.lost THEN {Failed}
                ELSE IF machine.behind[Whole(n)] = {} THEN {Whole(n)}
                ELSE UNION {walk[d + 1][s] : s \in machine.behind[Whole(n)]}]
    IN walk[0][start]
WholeDisksForSysPath(n) == Walk(SysfsDepth, n)

DisksUnder(m) == IF EntryFor(m) = Failed THEN {Failed} ELSE WholeDisksForSysPath(EntryFor(m))
(* Only a root that cannot be resolved is an error; another system mount    *)
(* that cannot be is passed over.                                           *)
SystemDisksFrom ==
    LET resolved == {m \in machine.mounts : Failed \notin DisksUnder(m)}
        roots == {m \in machine.mounts : m.root}
    IN IF roots = {} \/ ~(roots \subseteq resolved) THEN {Failed}
       ELSE UNION {DisksUnder(m) : m \in resolved}

-----------------------------------------------------------------------------
(* macOS: the device / is mounted from and its APFS physical stores.        *)

WholeDisksBehind(n) == Walk(DiskutilDepth, n)
DiskutilSystemDisks ==
    UNION {IF m.dev = Anonymous THEN {Failed} ELSE WholeDisksBehind(m.dev) :
           m \in {r \in machine.mounts : r.root}}

-----------------------------------------------------------------------------
(* Windows: the volume of the Windows directory, the partition the firmware *)
(* booted from and every volume with a page file.                           *)

Letters == {"C", "D"}
(* PageFileVolumes: "?" stands for the system drive, letters come in either *)
(* case, and an entry that names no drive is an error.                      *)
LetterOf(entry) ==
    CASE entry = "?" -> machine.systemDrive
      [] entry = "d" -> "D"
      [] OTHER -> entry
PageFileVolumes == {LetterOf(e) : e \in machine.pageFiles \ {""}}
SystemVolumes == {machine.systemDrive, "boot"} \cup PageFileVolumes
(* validate.SystemDisks fails closed.                                       *)
DisksOf(v) == IF v \in Letters \cup {"boot"} THEN machine.extents[v] ELSE {Failed}
WindowsSystemDisks ==
    IF \E v \in SystemVolumes : DisksOf(v) = {} THEN {Failed}
    ELSE UNION {DisksOf(v) : v \in SystemVolumes}

-----------------------------------------------------------------------------
(* validate.Target on what Stat found.                                      *)

HostSystemDisks ==
    CASE machine.host = "linux" -> SystemDisksFrom
      [] machine.host = "darwin" -> DiskutilSystemDisks
      [] machine.host = "windows" -> WindowsSystemDisks
(* RemovableBus; isRemovable and deviceInfoFrom tell the same kinds apart.  *)
Removable(n) == machine.bus[n] \in {"usb", "sd"}
Target(n, system) ==
    /\ n \notin machine.lost
    /\ IsDisk(n)
    /\ Removable(n)
    /\ system # {} /\ Failed \notin system
    /\ n \notin system

ResolveTarget ==
    /\ gate = "closed" /\ gate' = "asked"
    /\ LET system == HostSystemDisks
       IN accepted' = {n \in Nodes : Target(n, system)}
    /\ UNCHANGED machine

GateInit(Machines) == machine \in Machines /\ gate = "closed" /\ accepted = {}
GateNext == ResolveTarget
GateSpec(Machines) == GateInit(Machines) /\ [][GateNext]_gateVars

(* Machines as a kernel builds them: nothing stands on what came later,     *)
(* only disks have others behind them, and those are virtual.               *)
MountEntries == [dev : Nodes \cup {Anonymous}, source : Nodes \cup {Failed}, root : BOOLEAN]
Hosts ==
    [host : {"linux", "darwin", "windows"}, disk : [Nodes -> Nodes],
     behind : [Nodes -> SUBSET Nodes], lost : SUBSET Nodes, mounts : SUBSET MountEntries,
     bus : [Nodes -> {"usb", "sd", "sata", "virtual"}], systemDrive : Letters,
     pageFiles : SUBSET {"C", "D", "d", "?", "", "junk"},
     extents : [Letters \cup {"boot"} -> SUBSET Nodes]]
Built(m) ==
    \A n \in Nodes :
        /\ m.disk[n] <= n /\ m.disk[m.disk[n]] = m.disk[n]
        /\ \A s \in m.behind[n] : s < n
        /\ m.behind[n] # {} => m.disk[n] = n /\ m.bus[n] \notin {"usb", "sd"}
BuiltHosts == {m \in Hosts : Built(m)}

-----------------------------------------------------------------------------
(* Properties.                                                             *)

(* What n stands on, told without a walk: the least set that holds n and,  *)
(* with a device, its disk and what lies behind that.                      *)
Closed(S) == \A n \in S : Whole(n) \in S /\ machine.behind[n] \subseteq S
StandsOn(n) == {d \in Nodes : \A S \in SUBSET Nodes : n \in S /\ Closed(S) => d \in S}

RootMounts == {m \in machine.mounts : m.root}
(* Every lookup on the way works and no stack of them is too deep.         *)
Understood(m, maxDepth) ==
    /\ EntryFor(m) # Failed
    /\ StandsOn(EntryFor(m)) \cap machine.lost = {}
    /\ Cardinality(StandsOn(EntryFor(m))) <= maxDepth + 1
(* The volumes Windows runs from, page files included, in any notation.    *)
Paged(v) == machine.pageFiles \cap (IF v = "D" THEN {"D", "d"} ELSE {v}) # {}
LiveVolumes == {v \in Letters \cup {"boot"} : v \in {machine.systemDrive, "boot"} \/ Paged(v)}

(* No disk that passes carries the running system, and a root that is not  *)
(* understood lets nothing pass.  A system mount other than / that cannot  *)
(* be looked up is not counted: Linux skips it.                            *)
SystemIsSpared ==
    accepted # {} =>
        IF machine.host = "windows"
        THEN /\ "junk" \notin machine.pageFiles
             /\ \A v \in LiveVolumes : accepted \cap machine.extents[v] = {}
        ELSE /\ RootMounts # {}
             /\ \A m \in RootMounts :
                   EntryFor(m) # Failed /\ accepted \cap StandsOn(EntryFor(m)) = {}
             /\ machine.host = "linux" =>
                   \A m \in machine.mounts :
                       Understood(m, SysfsDepth) => accepted \cap StandsOn(EntryFor(m)) = {}

(* Where all the system stands on is understood, a removable disk that is  *)
(* no part of it passes.                                                   *)
StickPasses ==
    gate = "asked" =>
    \A n \in Nodes \ machine.lost :
        /\ IsDisk(n) /\ Removable(n)
        /\ IF machine.host = "windows"
           THEN \A v \in LiveVolumes \cup machine.pageFiles :
                    v # "junk" /\ (v \in LiveVolumes => n \notin machine.extents[v] /\ machine.extents[v] # {})
           ELSE /\ RootMounts # {}
                /\ \A m \in machine.mounts :
                      /\ Understood(m, IF machine.host = "linux" THEN SysfsDepth ELSE DiskutilDepth)
                      /\ m.dev # Anonymous
                      /\ n \notin StandsOn(EntryFor(m))
        => n \in accepted

(* The gate lets pass no disk that the running system stands on, however   *)
(* deep the stack in between, nothing at all when it cannot tell, and      *)
(* every removable disk otherwise (sysfs.go:86, diskutil.go:118,           *)
(* windows.go:55).                                                         *)
GateIsExact == SystemIsSpared /\ StickPasses
=============================================================================
