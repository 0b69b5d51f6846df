-------------------------------- MODULE Probe --------------------------------
(* What an image is: sources.Probe over its ISO 9660, Joliet and UDF trees   *)
(* (sources/sources.go, iso9660.go, udf.go), and the volume descriptors that *)
(* both the probe and the installer's reader (isofs/layout.go) start from.   *)
(* An image is what the sectors hold, not its bytes: names are already       *)
(* decoded and folded, and sizes are small numbers.                          *)
(*                                                                           *)
(* An operator that stands just before a definition and takes its name       *)
(* with a suffix is a faulty variant, used only to try the properties.       *)
EXTENDS Naturals, FiniteSets, Sequences, SequencesExt

VARIABLES
    iso,        \* the image; it never changes
    stage,      \* "volume", "iso", "udf", "decide" or "told"
    wim,        \* [found, size] of the install image
    kind,       \* "unknown", "linux-iso", "windows-iso", or "error"
    udfFault    \* the UDF side could not be read

probeVars == <<iso, stage, wim, kind, udfFault>>

NoWim == [found |-> FALSE, size |-> 0]
Found(size) == [found |-> TRUE, size |-> size]
Unreadable == [found |-> FALSE, size |-> 1]     \* a lookup that is an error
IsError(r) == r = Unreadable

FirstIn(at) == CHOOSE i \in at : \A j \in at : i <= j
LastIn(at) == CHOOSE i \in at : \A j \in at : j <= i

-----------------------------------------------------------------------------
(* ISO 9660.  A tree is the listing of its sources directory, if that can   *)
(* be read: a sequence of records [name, dir, size, multi].                 *)

(* readDir: the records of a file too large for one extent are summed.      *)
Continues(entries, rec) ==
    /\ entries # <<>> /\ Last(entries).multi /\ ~rec.dir
    /\ Last(entries).name = rec.name
AddRecordUnsummed(rec, entries) ==
    IF Continues(entries, rec)
    THEN Append(Front(entries), [Last(entries) EXCEPT !.multi = rec.multi])
    ELSE Append(entries, rec)
AddRecord(rec, entries) ==
    IF Continues(entries, rec)
    THEN Append(Front(entries),
                [Last(entries) EXCEPT !.size = @ + rec.size, !.multi = rec.multi])
    ELSE Append(entries, rec)
DirEntries(records) ==
    LET after[k \in 0 .. Len(records)] ==
            IF k = 0 THEN <<>> ELSE AddRecord(records[k], after[k - 1])
    IN after[Len(records)]

(* The first entry of that name counts, and a directory is no file.         *)
FirstAmong(entries, at) ==
    IF at = {} THEN NoWim
    ELSE LET e == entries[FirstIn(at)] IN IF e.dir THEN NoWim ELSE Found(e.size)
FirstOf(entries, name) == FirstAmong(entries, {i \in DOMAIN entries : entries[i].name = name})
LookupIn(tree, name) ==
    CASE tree.state = "broken" -> Unreadable
      [] tree.state = "empty" -> NoWim
      [] tree.state = "listed" -> FirstOf(DirEntries(tree.records), name)

(* The first tree that has it, or whose reading fails, decides.             *)
FirstAnswer(answers) ==
    LET told == {i \in DOMAIN answers : answers[i] # NoWim}
    IN IF told = {} THEN NoWim ELSE answers[FirstIn(told)]
LookupIso(name) ==
    FirstAnswer([i \in DOMAIN iso.trees |-> LookupIn(iso.trees[i], name)])
FindWim(asWim, asEsd) == FirstAnswer(<<asWim, asEsd>>)

-----------------------------------------------------------------------------
(* UDF volume descriptors.  Three sectors may hold an anchor; it points to   *)
(* a sequence of descriptors.  A partition descriptor gives a number and     *)
(* where the partition starts, a logical volume the number of the partition  *)
(* that its file set, and so the root directory, lies in.                    *)

None == 0
FirstAnchor(order) ==
    LET there == {i \in DOMAIN order : iso.anchors[order[i]] # None}
    IN IF there = {} THEN None ELSE iso.anchors[order[FirstIn(there)]]

Tagged(ds, tag) == {i \in DOMAIN ds : ds[i].tag = tag}
UpTo(ds, tag) ==
    IF Tagged(ds, tag) = {} THEN ds ELSE SubSeq(ds, 1, FirstIn(Tagged(ds, tag)) - 1)

(* readUDF: of partitions with one number the last counts.  The maps of all *)
(* logical volumes make one table, and the file set names its first entry.  *)
UdfDescriptorsUnended(ds) == ds
UdfDescriptors(ds) == UpTo(ds, "end")
ReadUdf(ds) ==
    LET before == UdfDescriptors(ds)
        lvds == Tagged(before, "volume")
        numbered(n) == {i \in Tagged(before, "partition") : before[i].number = n}
    IN IF lvds = {} \/ \E i \in lvds : before[i].map # 1 \/ numbered(before[i].number) = {}
       THEN None
       ELSE before[LastIn(numbered(before[FirstIn(lvds)].number))].start
(* rootICB: one partition, one logical volume with one map, a terminator;   *)
(* it takes the partition without comparing numbers.                        *)
RootIcbOf(ds) ==
    LET before == UpTo(ds, "end")
        lvds == Tagged(before, "volume")
        parts == Tagged(before, "partition")
    IN IF \/ Len(before) = Len(ds) \/ Cardinality(lvds) # 1 \/ Cardinality(parts) # 1
          \/ before[FirstIn(lvds)].map # 1
       THEN None
       ELSE before[FirstIn(parts)].start

AnchorOrder == <<"256", "last-256", "last">>
Pointed(vds) == IF vds = None THEN None ELSE ReadUdf(iso.vds[vds])
UdfRoot == Pointed(FirstAnchor(AnchorOrder))
InstallerRoot ==
    LET vds == FirstAnchor(<<"256", "last", "last-256">>)
    IN IF vds = None THEN None ELSE RootIcbOf(iso.vds[vds])

(* lookup and findFID: the first entry of that name that is not deleted.    *)
LookupUdf(name) ==
    IF UdfRoot \notin DOMAIN iso.dirs THEN Unreadable
    ELSE LET fids == iso.dirs[UdfRoot]
         IN FirstAmong(fids, {i \in DOMAIN fids : fids[i].name = name /\ ~fids[i].deleted})

-----------------------------------------------------------------------------
(* probe.                                                                  *)

ProbeInit(Images) ==
    /\ iso \in Images /\ stage = "volume" /\ wim = NoWim
    /\ kind = "unknown" /\ udfFault = FALSE

Tell(k) == stage' = "told" /\ kind' = k
ReadVolume ==
    /\ stage = "volume"
    /\ IF iso.primary THEN stage' = "iso" /\ UNCHANGED kind ELSE Tell("unknown")
    /\ UNCHANGED <<iso, wim, udfFault>>
LookInIso ==
    /\ stage = "iso"
    /\ wim' = FindWim(LookupIso("wim"), LookupIso("esd"))
    /\ IF IsError(wim') THEN Tell("error")
       ELSE stage' = (IF wim'.found THEN "decide" ELSE "udf") /\ UNCHANGED kind
    /\ UNCHANGED <<iso, udfFault>>
LookInUdf ==
    /\ stage = "udf" /\ stage' = "decide"
    /\ IF FirstAnchor(AnchorOrder) = None THEN UNCHANGED <<wim, udfFault>>
       ELSE LET r == FindWim(LookupUdf("wim"), LookupUdf("esd")) IN
            /\ udfFault' = IsError(r)
            /\ wim' = IF IsError(r) THEN NoWim ELSE r
    /\ UNCHANGED <<iso, kind>>
(* UDF only adds to what is known of a hybrid image.                        *)
Decide ==
    IF udfFault /\ ~iso.hybrid THEN "unknown"
    ELSE IF wim.found THEN "windows-iso" ELSE IF iso.hybrid THEN "linux-iso" ELSE "unknown"
DecideKind ==
    /\ stage = "decide" /\ Tell(Decide)
    /\ UNCHANGED <<iso, wim, udfFault>>

ProbeStep == ReadVolume \/ LookInIso \/ LookInUdf \/ DecideKind
ProbeSpec(Images) == ProbeInit(Images) /\ [][ProbeStep]_probeVars

(* Images as the parsers see them.                                          *)
FileRecords == [name : STRING, dir : BOOLEAN, size : Nat, multi : BOOLEAN]
ImageTrees == [state : {"broken", "empty", "listed"}, records : Seq(FileRecords)]
UdfDescriptorRecords ==
    [tag : {"partition", "volume", "end"}, number : Nat, start : Nat, map : Nat]
Parsed(i) ==
    /\ i.primary \in BOOLEAN /\ i.hybrid \in BOOLEAN /\ i.trees \in Seq(ImageTrees)
    /\ i.vds \in Seq(Seq(UdfDescriptorRecords))
    /\ i.anchors \in [{"256", "last-256", "last"} -> {None} \cup DOMAIN i.vds]

-----------------------------------------------------------------------------
(* Properties.                                                             *)

Trees == {iso.trees[i] : i \in DOMAIN iso.trees}
TreesRead == \A t \in Trees : t.state # "broken"
(* The records of one name that are one file: consecutive, all but the     *)
(* last continued.                                                         *)
OneFile(records, name) ==
    LET at == {i \in DOMAIN records : records[i].name = name}
    IN /\ at # {} /\ \A i \in at : ~records[i].dir
       /\ \A i, j \in at : i < j => records[i].multi /\ i + 1 \in at
SizeOf(records, name) ==
    LET upTo[k \in 0 .. Len(records)] ==
            IF k = 0 THEN 0
            ELSE upTo[k - 1] + (IF records[k].name = name THEN records[k].size ELSE 0)
    IN upTo[Len(records)]
Holds(t, name) == t.state = "listed" /\ OneFile(t.records, name)
(* Sizes a user would see for the install image of one of the trees.       *)
TrueSizes ==
    {SizeOf(t.records, name) : t \in {t \in Trees : t.state = "listed"}, name \in {"wim", "esd"}}
WellFormed ==
    \A t \in Trees : t.state = "listed" =>
        \A i \in DOMAIN t.records : OneFile(t.records, t.records[i].name)

(* An image that can be read is put to its use: Windows if one of its      *)
(* trees has an install image, with the whole size of that file however    *)
(* many extents list it; Linux if it is hybrid, whatever its UDF side      *)
(* holds (sources.go:84, iso9660.go:206).                                  *)
ProbeTellsTheUse ==
    stage = "told" /\ iso.primary /\ TreesRead =>
        /\ (\E t \in Trees, name \in {"wim", "esd"} : Holds(t, name)) => kind = "windows-iso"
        /\ iso.hybrid => kind # "unknown"
        /\ kind = "windows-iso" /\ WellFormed /\ (\E t \in Trees, name \in {"wim", "esd"} : Holds(t, name))
             => wim.size \in TrueSizes

(* Where both read the image, the probe and the installer start from the   *)
(* same root, unless its anchors contradict one another, though they look  *)
(* for anchors in another order and read the descriptors after their own   *)
(* rules (udf.go:68, layout.go:40).                                        *)
SameRoot ==
    LET there == {iso.anchors[s] : s \in DOMAIN iso.anchors} \ {None}
    IN stage = "told" /\ (\A a, b \in there : a = b) /\ UdfRoot # None /\ InstallerRoot # None
       => UdfRoot = InstallerRoot
=============================================================================
