-------------------------------- MODULE Fat32 --------------------------------
(* Formatting a whole disk (fatfmt/fatfmt.go): the layout of the volume, the *)
(* order in which the disk is changed, and the whole-sector accesses below.  *)
(* Sizes are counted in blocks of 512 bytes, so that a disk of 40 GB still   *)
(* fits TLC's integers.  go-diskfs, which writes the table and the volume,   *)
(* is one step each.                                                         *)
(*                                                                           *)
(* An operator that stands just before a definition and takes its name       *)
(* with a suffix is a faulty variant, used only to try the properties.       *)
EXTENDS Integers

CONSTANTS
    DiskSizes,      \* sizes of disks in blocks
    MaxDiskSize     \* 2 TB in the code: what 32-bit sector numbers address

ASSUME SizesAssumption == DiskSizes \subseteq Nat /\ MaxDiskSize \in Nat

VARIABLES
    request,    \* [sector, size, label]: the disk and whether the label is valid
    mbr,        \* sector 0: "old", "clear", "signed" or "table"
    backup,     \* a GPT at the end of the disk: "old" or "clear"
    volume,     \* what lies at the partition's start: "old", "torn" or "fat32"
    step,       \* the next step of Format
    outcome     \* "none", "ok", "refused" or "failed"

formatVars == <<request, mbr, backup, volume, step, outcome>>

-----------------------------------------------------------------------------
(* The layout.                                                             *)

MB == 2048                  \* blocks
GB == 1024 * MB
PartitionStart == MB
WipeSize == MB
MinClusters == 65525
Reserved == 32              \* sectors before the first FAT

(* Sector numbers have 32 bits (fatfmt.go:34).  The limit of 2048 GB is    *)
(* itself too large a number of blocks for TLC.                            *)
ASSUME DiskAssumption == MaxDiskSize \div GB <= 2048

Larger(a, b) == IF a > b THEN a ELSE b
CeilDiv(a, b) == (a + b - 1) \div b

(* The cluster size grows with the partition.                              *)
ClusterBlocks(part) ==
    CASE part <= 260 * MB -> 1
      [] part > 260 * MB /\ part <= 8 * GB -> 8
      [] part > 8 * GB /\ part <= 16 * GB -> 16
      [] part > 16 * GB /\ part <= 32 * GB -> 32
      [] part > 32 * GB -> 64
SectorsPerCluster(part, sector) == Larger(ClusterBlocks(part) \div sector, 1)

(* Each FAT has 4 bytes a cluster and for two clusters that do not exist.  *)
FatSectorsNoReserve(total, spc, sector) ==
    CeilDiv(4 * (total - Reserved), 512 * sector * spc + 8)
FatSectors(total, spc, sector) ==
    CeilDiv(4 * (total - Reserved) + 8 * spc, 512 * sector * spc + 8)
Clusters(total, spc, fat) == (total - Reserved - 2 * fat) \div spc

LayoutOf(part, sector) ==
    LET total == part \div sector
        spc == SectorsPerCluster(part, sector)
        fat == FatSectors(total, spc, sector)
    IN [total |-> total, spc |-> spc, fat |-> fat, clusters |-> Clusters(total, spc, fat)]
CheckLayout(part, sector) ==
    /\ part \div sector > Reserved
    /\ LayoutOf(part, sector).clusters >= MinClusters

(* CHS addresses as three bytes, for 255 heads and 63 sectors.             *)
Chs(lba) ==
    LET c == lba \div (255 * 63)
        h == (lba \div 63) % 255
        s == (lba % 63) + 1
    IN IF c > 1023
       THEN [head |-> 254, sector |-> 63 + 192, cylinder |-> 1023 % 256]
       ELSE [head |-> h, sector |-> s + 64 * ((c \div 256) % 4), cylinder |-> c % 256]

-----------------------------------------------------------------------------
(* sectorIO: an access to n units from off, widened to whole sectors.      *)

Span(off, n, sector) ==
    LET end == off + n
        over == end % sector
    IN [start |-> off - (off % sector),
        end |-> IF over # 0 THEN end + sector - over ELSE end]

-----------------------------------------------------------------------------
(* Format.                                                                 *)

Usable == request.size - (request.size % request.sector)
Part == Usable - PartitionStart

FormatInit(Requests) ==
    /\ request \in Requests
    /\ mbr = "old" /\ backup \in {"old", "clear"} /\ volume = "old"
    /\ step = "check" /\ outcome = "none"

Stop(how) == step' = "stopped" /\ outcome' = how
Then(next) == step' = next /\ UNCHANGED outcome

Check ==
    /\ step = "check"
    /\ IF /\ request.sector \in {1, 8}
          /\ request.size <= MaxDiskSize
          /\ request.label
          /\ CheckLayout(Part, request.sector)
       THEN Then("clearStart") ELSE Stop("refused")
    /\ UNCHANGED <<request, mbr, backup, volume>>

(* A write that fails may have reached the disk or not.                    *)
ClearStart ==
    /\ step = "clearStart"
    /\ \/ mbr' = "clear" /\ Then("clearEnd")
       \/ mbr' \in {mbr, "clear"} /\ Stop("failed")
    /\ UNCHANGED <<request, backup, volume>>
ClearEndBeside ==
    /\ step = "clearEnd" /\ Then("sign")
    /\ UNCHANGED <<request, mbr, backup, volume>>
ClearEnd ==
    /\ step = "clearEnd"
    /\ \/ backup' = "clear" /\ Then("sign")
       \/ backup' \in {backup, "clear"} /\ Stop("failed")
    /\ UNCHANGED <<request, mbr, volume>>
Sign ==
    /\ step = "sign"
    /\ \/ mbr' = "signed" /\ Then("table")
       \/ mbr' \in {mbr, "signed"} /\ Stop("failed")
    /\ UNCHANGED <<request, backup, volume>>
(* mbr.Table writes the entries and leaves the signature alone.            *)
WriteTable ==
    /\ step = "table"
    /\ \/ mbr' = "table" /\ Then("create")
       \/ mbr' \in {mbr, "table"} /\ Stop("failed")
    /\ UNCHANGED <<request, backup, volume>>
Create ==
    /\ step = "create"
    /\ \/ volume' = "fat32" /\ Stop("ok")
       \/ volume' \in {volume, "torn"} /\ Stop("failed")
    /\ UNCHANGED <<request, mbr, backup>>

FormatStep == Check \/ ClearStart \/ ClearEnd \/ Sign \/ WriteTable \/ Create

-----------------------------------------------------------------------------
(* Properties.                                                             *)

Accepted == step # "check" /\ outcome # "refused"
MaxClusters == 16384 * 16384 - 12     \* 28-bit numbers, less those with a meaning
FatHolds(l, sector) == 128 * sector * l.fat >= l.clusters + 2
FatIsTight(l, sector) == 128 * sector * (l.fat - 2) < l.clusters + 2
DataFits(l) ==
    LET used == Reserved + 2 * l.fat + l.clusters * l.spc
    IN used <= l.total /\ l.total < used + l.spc
Lba(chs) ==
    ((chs.cylinder + 256 * (chs.sector \div 64)) * 255 + chs.head) * 63 + (chs.sector % 64) - 1
ChsIsTrue(lba) ==
    LET last == (1023 * 255 + 254) * 63 + 62
    IN Lba(Chs(lba)) = IF lba < 1024 * 255 * 63 THEN lba ELSE last

VolumeIsSound(l, start) ==
    /\ l.clusters >= 65525 /\ l.clusters <= MaxClusters
    /\ FatHolds(l, request.sector) /\ FatIsTight(l, request.sector) /\ DataFits(l)
    /\ (start + l.total) * request.sector <= request.size
    /\ ChsIsTrue(start) /\ ChsIsTrue(start + l.total - 1)

(* A volume that is accepted is FAT32 to every driver, each of its FATs    *)
(* has an entry for every cluster, the clusters fill the partition, which  *)
(* lies inside the disk and is where its CHS addresses say; and no larger  *)
(* disk is refused as too small (fatfmt.go:111), the steps of the cluster  *)
(* size included.                                                          *)
LayoutIsSound ==
    Accepted =>
      /\ VolumeIsSound(LayoutOf(Part, request.sector), PartitionStart \div request.sector)
      /\ \A size \in DiskSizes :
           size >= request.size => CheckLayout(size - PartitionStart, request.sector)

(* The disk never shows two layouts: a new table only appears once the     *)
(* old GPT is gone from both ends, the old volume is never listed by the   *)
(* old table once Format has begun to change it, and success means a new   *)
(* table with a new volume (fatfmt.go:70).                                 *)
OneLayoutAtATime ==
    /\ mbr = "table" => backup = "clear"
    /\ volume # "old" => mbr = "table"
    /\ outcome = "ok" => mbr = "table" /\ volume = "fat32"
    /\ outcome = "refused" => mbr = "old" /\ volume = "old"
=============================================================================
