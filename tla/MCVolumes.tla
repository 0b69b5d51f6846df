------------------------------ MODULE MCVolumes ------------------------------
(* TLC instance of the four models that read or lay out disks and images:    *)
(* SystemDisks, Fat32, IsoTree and Probe.  They share no state; a behaviour  *)
(* is one of them at work while the others rest.                             *)
EXTENDS SystemDisks, Fat32, IsoTree, Probe

-----------------------------------------------------------------------------
(* Machines: every graph of partitions and stacked devices, one of which    *)
(* may be unreadable, and mount tables with a root and another mount.  A     *)
(* device stacked on others is virtual.                                      *)
Disks == {f \in [Nodes -> Nodes] : \A n \in Nodes : f[n] <= n /\ f[f[n]] = f[n]}
Stacks == {f \in [Nodes -> SUBSET Nodes] : \A n \in Nodes : \A s \in f[n] : s < n}
Mount(n, root) == [dev |-> n, source |-> Failed, root |-> root]
Roots == {Mount(n, TRUE) : n \in Nodes}
         \cup {[dev |-> Anonymous, source |-> s, root |-> TRUE] : s \in {Failed, 2}}
MountTables == {{}} \cup {{r} : r \in Roots}
               \cup {{r, Mount(n, FALSE)} : r \in Roots, n \in {2, Devices}}
Buses == {[n \in Nodes |-> "usb"], [n \in Nodes |-> IF n = 1 THEN "virtual" ELSE "sd"]}
Volumes == {"C", "D", "boot"}
LinuxMachines ==
    {[host |-> "linux", disk |-> d, behind |-> b, lost |-> l, mounts |-> t,
      bus |-> [n \in Nodes |-> IF b[n] # {} THEN "virtual" ELSE bus[n]],
      systemDrive |-> "C", pageFiles |-> {}, extents |-> [v \in Volumes |-> {}]] :
      d \in Disks, b \in Stacks, l \in {{}} \cup {{n} : n \in Nodes}, t \in MountTables, bus \in Buses}
UnixMachines ==
    LET proper == {m \in LinuxMachines :
                     \A n \in Nodes : m.disk[n] # n => m.behind[n] = {}}
    IN proper \cup {[m EXCEPT !.host = "darwin"] : m \in {u \in proper : Cardinality(u.mounts) = 1}}
WindowsMachines ==
    {[host |-> "windows", disk |-> [n \in Nodes |-> n], behind |-> [n \in Nodes |-> {}],
      lost |-> {}, mounts |-> {}, bus |-> bus, systemDrive |-> d, pageFiles |-> p, extents |-> e] :
      bus \in Buses, d \in Letters, p \in SUBSET {"C", "D", "d", "?", "", "junk"},
      e \in [Volumes -> {{}, {1}, {2}, {1, 2}}]}
Machines == UnixMachines \cup WindowsMachines
(* What the proofs assume of them.                                           *)
ASSUME MachinesAreBuilt == Machines \subseteq BuiltHosts

-----------------------------------------------------------------------------
(* Disks: around every size at which the layout changes.                    *)
Around(n) == n - 9 .. n + 9
Sizes == UNION {Around(PartitionStart + n) :
                n \in {9, 65525, 66600, 260 * MB, 8 * GB, 16 * GB, 32 * GB,
                       8 * 65525, 524200, 528000, 40 * GB}}
Requests == [sector : {1, 2, 8}, size : Sizes, label : {TRUE}]
            \cup [sector : {1}, size : {40 * GB}, label : {FALSE}]

-----------------------------------------------------------------------------
(* Images as trees: a root with up to two entries, whatever they point to.  *)
(* A "liar" is a directory whose entry calls it a file.                     *)
AllNames == {"a", "A", "nul"}
FoldOf == [n \in AllNames |-> IF n = "a" THEN "A" ELSE n]
RootLists == UNION {[1 .. k -> AllNames \X Icbs] : k \in 0 .. 2}
SubLists == {<<>>} \cup {<< <<"a", i>> >> : i \in Icbs}
Recorded == {[type |-> t, list |-> <<>>] : t \in {"file", "short", "odd", "liar"}}
            \cup {[type |-> "dir", list |-> l] : l \in SubLists}
RawTrees == {[i \in Icbs |-> IF i = RootIcb THEN [type |-> "dir", list |-> l] ELSE k[i]] :
             l \in RootLists, k \in [Icbs \ {RootIcb} -> Recorded]}
TreeOf(r) ==
    [i \in Icbs |->
       [type |-> IF r[i].type = "liar" THEN "dir" ELSE r[i].type,
        list |-> [j \in DOMAIN r[i].list |->
                    LET e == r[i].list[j]
                    IN [name |-> e[1], icb |-> e[2], dir |-> r[e[2]].type = "dir"]]]]
UdfTrees == {TreeOf(r) : r \in RawTrees}

-----------------------------------------------------------------------------
(* Images for the probe: listings of up to three records in the first of    *)
(* two trees; and descriptor sequences of up to four behind the anchors.    *)
Records == [name : {"wim", "esd"}, dir : BOOLEAN, size : {1, 2}, multi : BOOLEAN]
Files == {r \in Records : ~r.dir /\ (r.name = "esd" => ~r.multi /\ r.size = 1)}
RecordLists == UNION {[1 .. k -> Records] : k \in 0 .. 2} \cup [1 .. 3 -> Files]
Tree(rs) == [state |-> "listed", records |-> rs]
Bare(st) == [state |-> st, records |-> <<>>]
One(name) == Tree(<<[name |-> name, dir |-> FALSE, size |-> 4, multi |-> FALSE]>>)
Primaries == {Bare("broken"), Bare("empty"), One("wim"), One("esd")}
TwoTrees == {<<Tree(l), p>> : l \in RecordLists, p \in Primaries}
            \cup {<<Bare("broken"), p>> : p \in Primaries}
Fid(size, deleted) == [name |-> "wim", dir |-> FALSE, size |-> size, deleted |-> deleted]
Descriptors ==
    [tag : {"partition"}, number : {1, 2}, start : {1, 2}, map : {0}]
    \cup {[tag |-> "volume", number |-> m[1], start |-> 0, map |-> m[2]] :
          m \in {<<1, 1>>, <<2, 1>>, <<1, 2>>}}
    \cup [tag : {"end"}, number : {0}, start : {0}, map : {0}]
Good == <<[tag |-> "partition", number |-> 1, start |-> 1, map |-> 0],
          [tag |-> "volume", number |-> 1, start |-> 0, map |-> 1],
          [tag |-> "end", number |-> 0, start |-> 0, map |-> 0]>>
DescriptorLists == UNION {[1 .. k -> Descriptors] : k \in 0 .. 4}
At(a, b, c) == [s \in {"256", "last-256", "last"} |->
                  CASE s = "256" -> a [] s = "last-256" -> b [] s = "last" -> c]
Image(primary, hybrid, trees, anchors, vds) ==
    [primary |-> primary, hybrid |-> hybrid, trees |-> trees, anchors |-> anchors,
     vds |-> <<vds, Good>>, dirs |-> [p \in {1} |-> <<Fid(7, TRUE), Fid(8, FALSE)>>]]
ByTrees == {Image(TRUE, h, t, At(a, 0, 0), Good) : h \in BOOLEAN, t \in TwoTrees, a \in {0, 1}}
ByVolume == {Image(TRUE, h, <<Bare("empty")>>, a, v) : h \in BOOLEAN,
             a \in {At(1, 0, 0), At(0, 0, 1), At(0, 1, 2)}, v \in DescriptorLists}
NoIso == {Image(FALSE, TRUE, <<Bare("empty")>>, At(1, 0, 0), Good)}
ASSUME ImagesAreParsed == \A i \in ByTrees \cup ByVolume \cup NoIso : Parsed(i)

-----------------------------------------------------------------------------
(* One at work, the others at rest.                                         *)
GateRests ==
    /\ machine = CHOOSE m \in WindowsMachines : TRUE
    /\ gate = "idle" /\ accepted = {}
FormatRests ==
    /\ request = [sector |-> 1, size |-> 0, label |-> FALSE]
    /\ mbr = "old" /\ backup = "old" /\ volume = "old"
    /\ step = "idle" /\ outcome = "refused"
WalkRests ==
    /\ image = [i \in Icbs |-> [type |-> "odd", list |-> <<>>]] /\ nodes = <<>>
    /\ seen = {} /\ entries = 0 /\ pending = <<>> /\ list = <<>> /\ dirPath = <<>> /\ folded = {}
    /\ walked = "idle" /\ handle = <<"none">> /\ pos = 0 /\ pages = <<>> /\ atEnd = FALSE
ProbeRests ==
    /\ iso = Image(FALSE, FALSE, <<>>, At(0, 0, 0), Good)
    /\ stage = "idle" /\ wim = NoWim /\ kind = "unknown" /\ udfFault = FALSE

Init ==
    \/ GateInit(Machines) /\ FormatRests /\ WalkRests /\ ProbeRests
    \/ FormatInit(Requests) /\ GateRests /\ WalkRests /\ ProbeRests
    \/ WalkInit(UdfTrees) /\ GateRests /\ FormatRests /\ ProbeRests
    \/ (ProbeInit(ByTrees) \/ ProbeInit(ByVolume) \/ ProbeInit(NoIso))
       /\ GateRests /\ FormatRests /\ WalkRests
Next ==
    \/ GateNext /\ UNCHANGED <<formatVars, isoVars, probeVars>>
    \/ FormatStep /\ UNCHANGED <<gateVars, isoVars, probeVars>>
    \/ (WalkStep \/ HandleStep) /\ UNCHANGED <<gateVars, formatVars, probeVars>>
    \/ ProbeStep /\ UNCHANGED <<gateVars, formatVars, isoVars>>
Spec == Init /\ [][Next]_<<gateVars, formatVars, isoVars, probeVars>>
=============================================================================
