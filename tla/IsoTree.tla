------------------------------- MODULE IsoTree -------------------------------
(* Opening an image (isofs/isofs.go): the walk of its UDF tree, which any    *)
(* bytes may claim to be, and the listing of what it accepted.  An image     *)
(* maps each place a directory entry may point to (its ICB) to what is       *)
(* recorded there.  golift's udf package, which reads the entries, is what   *)
(* these records hold.                                                       *)
(*                                                                           *)
(* An operator that stands just before a definition and takes its name       *)
(* with a suffix is a faulty variant, used only to try the properties.       *)
EXTENDS Naturals, FiniteSets, Sequences, SequencesExt

CONSTANTS
    Icbs,           \* places in the image
    Names,          \* names an entry may carry
    BadNames,       \* those that checkName refuses
    Folds,          \* Folds[n]: what foldName makes of n
    MaxEntries,     \* 100 000 in isofs.go
    MaxDepth        \* 32

ASSUME NamesAssumption == BadNames \subseteq Names /\ DOMAIN Folds = Names
ASSUME IcbsAssumption == IsFiniteSet(Icbs) /\ Icbs # {}
ASSUME LimitsAssumption == MaxEntries \in Nat /\ MaxDepth \in Nat \ {0}

RootIcb == CHOOSE r \in Icbs : TRUE

VARIABLES
    image,      \* [Icbs -> [type, list]], list being [name, icb, dir] entries
    nodes,      \* Image.nodes: path |-> ICB
    seen,       \* walker.seen: the ICBs met
    entries,    \* walker.entries
    pending,    \* directories yet to be listed, the next one first
    list,       \* what is left of the listing being walked
    dirPath,    \* its path
    folded,     \* its names so far, folded
    walked,     \* "no", "accepted" or "refused"
    handle,     \* an open directory: its path, or "none"
    pos,        \* dirHandle.pos
    pages,      \* the names its ReadDir has returned
    atEnd       \* it has said there are no more

walkVars == <<nodes, seen, entries, pending, list, dirPath, folded, walked>>
handleVars == <<handle, pos, pages, atEnd>>
isoVars == <<image, walkVars, handleVars>>

-----------------------------------------------------------------------------
(* The walk.  Directories are listed in the order they were met; the code  *)
(* descends into the first one first, which only tells which of several    *)
(* faults is reported.                                                     *)

(* What is recorded at an ICB: a "dir", a "file", a file that is "short"   *)
(* because the image ends before its last byte, or something "odd": neither*)
(* of them, unreadable, or described by chained or too many descriptors.   *)
Type(icb) == image[icb].type

(* newImage: the root's entry.                                             *)
WalkInit(Images) ==
    /\ image \in Images
    /\ nodes = [p \in {<<>>} |-> RootIcb] /\ seen = {RootIcb} /\ entries = 0
    /\ pending = << <<>> >> /\ list = <<>> /\ dirPath = <<>> /\ folded = {}
    /\ walked = "no" /\ handle = <<"none">> /\ pos = 0 /\ pages = <<>> /\ atEnd = FALSE

Refuse ==
    /\ walked' = "refused"
    /\ UNCHANGED <<nodes, seen, entries, pending, list, dirPath, folded>>

(* walker.dir: the listing counts before any of it is looked at.           *)
ListDirectory ==
    /\ walked = "no" /\ list = <<>> /\ pending # <<>>
    /\ LET next == image[nodes[Head(pending)]].list IN
       IF Type(nodes[Head(pending)]) = "dir" /\ entries + Len(next) <= MaxEntries
       THEN /\ entries' = entries + Len(next)
            /\ list' = next /\ dirPath' = Head(pending) /\ folded' = {}
            /\ pending' = Tail(pending)
            /\ UNCHANGED <<nodes, seen, walked>>
       ELSE Refuse
    /\ UNCHANGED <<image, handleVars>>

PathTo(e) == Append(dirPath, e.name)
NameFitsUnfolded(e) == e.name \notin BadNames /\ e.name \notin folded
NameFits(e) == e.name \notin BadNames /\ Folds[e.name] \notin folded
DepthFits(e) == Len(PathTo(e)) - 1 < MaxDepth
(* checkEntry, the directory flag, and walker.file.                        *)
EntryReads(e) ==
    /\ Type(e.icb) \in {"dir", "file"}
    /\ e.dir = (Type(e.icb) = "dir")

WithNode(p, icb) ==
    [q \in DOMAIN nodes \cup {p} |-> IF q = p THEN icb ELSE nodes[q]]

VisitEntry ==
    /\ walked = "no" /\ list # <<>>
    /\ LET e == Head(list) IN
       IF NameFits(e) /\ DepthFits(e) /\ e.icb \notin seen /\ EntryReads(e)
       THEN /\ nodes' = WithNode(PathTo(e), e.icb)
            /\ seen' = seen \cup {e.icb}
            /\ folded' = folded \cup {Folds[e.name]}
            /\ pending' = IF e.dir THEN Append(pending, PathTo(e)) ELSE pending
            /\ list' = Tail(list)
            /\ UNCHANGED <<entries, dirPath, walked>>
       ELSE Refuse
    /\ UNCHANGED <<image, handleVars>>

AcceptImage ==
    /\ walked = "no" /\ list = <<>> /\ pending = <<>>
    /\ walked' = "accepted"
    /\ UNCHANGED <<image, nodes, seen, entries, pending, list, dirPath, folded, handleVars>>

-----------------------------------------------------------------------------
(* The image as a file system.                                             *)

(* node.kids, sorted by name in the code.                                  *)
Kids(dir) == {p \in DOMAIN nodes : p # <<>> /\ Front(p) = dir}
Sorted(dir) == SetToSeq({Last(p) : p \in Kids(dir)})

OpenDirectory ==
    /\ walked = "accepted" /\ handle = <<"none">>
    /\ handle' \in {p \in DOMAIN nodes : Type(nodes[p]) = "dir"}
    /\ UNCHANGED <<image, walkVars, pos, pages, atEnd>>

(* dirHandle.ReadDir: all that is left, or at most count entries.          *)
PageEnd(count, all) ==
    IF count <= 0 \/ count > Len(all) - pos THEN Len(all) ELSE pos + count
ReadDir(count) ==
    /\ handle # <<"none">> /\ ~atEnd
    /\ LET all == Sorted(handle) IN
       /\ pages' = pages \o SubSeq(all, pos + 1, PageEnd(count, all))
       /\ pos' = PageEnd(count, all)
       /\ atEnd' = (count > 0 /\ pos = Len(all))
    /\ UNCHANGED <<image, walkVars, handle>>

WalkStep == ListDirectory \/ VisitEntry \/ AcceptImage
HandleStep == OpenDirectory \/ \E count \in 0 .. 2 : ReadDir(count)

-----------------------------------------------------------------------------
(* Properties.                                                             *)

FoldPath(p) == [i \in DOMAIN p |-> Folds[p[i]]]
EntriesOf(icb) == {image[icb].list[i] : i \in DOMAIN image[icb].list}
(* What can be reached from the root: the least set closed under listing.  *)
ListsWithin(S) ==
    /\ RootIcb \in S
    /\ \A d \in S : Type(d) = "dir" => \A e \in EntriesOf(d) : e.icb \in S
Reached == {i \in Icbs : \A S \in SUBSET Icbs : ListsWithin(S) => i \in S}
Listings == {<<d, i>> : d \in {d \in Reached : Type(d) = "dir"}, i \in 1 .. MaxEntries}
Listed == {l \in Listings : l[2] \in DOMAIN image[l[1]].list}
EntryAt(l) == image[l[1]].list[l[2]]
ProperTree ==
    /\ Type(RootIcb) = "dir" /\ Cardinality(Reached) <= MaxDepth + 1
    /\ \A l \in Listed :
         /\ EntryAt(l).name \notin BadNames /\ EntryReads(EntryAt(l))
         /\ EntryAt(l).icb # RootIcb
         /\ \A k \in Listed \ {l} :
              /\ EntryAt(k).icb # EntryAt(l).icb
              /\ k[1] = l[1] => Folds[EntryAt(k).name] # Folds[EntryAt(l).name]
    /\ Cardinality(Listed) <= MaxEntries
    /\ \A d \in Reached : Len(image[d].list) <= MaxEntries

(* What is accepted is a tree with every entry the image lists, each file  *)
(* in one place and whole, no two of them one file to FAT32, within the    *)
(* limits, whatever cycles and shared entries the image holds; and a       *)
(* proper tree is not refused.                                             *)
TreeOrNothing ==
    /\ walked = "accepted" =>
         /\ \A p, q \in DOMAIN nodes : p # q => nodes[p] # nodes[q] /\ FoldPath(p) # FoldPath(q)
         /\ \A p \in DOMAIN nodes :
              /\ Len(p) <= MaxDepth /\ Type(nodes[p]) \in {"dir", "file"}
              /\ p # <<>> => Front(p) \in DOMAIN nodes /\ Type(nodes[Front(p)]) = "dir"
              /\ Type(nodes[p]) = "dir" =>
                   \A e \in EntriesOf(nodes[p]) :
                       /\ Append(p, e.name) \in DOMAIN nodes
                       /\ nodes[Append(p, e.name)] = e.icb
         /\ Cardinality(DOMAIN nodes) <= MaxEntries + 1
    /\ walked = "refused" => ~ProperTree

(* However a directory is read, in pages of any size, each of its entries  *)
(* is returned once before the end is.                                     *)
PagesAreTheListing ==
    /\ atEnd => pages = Sorted(handle)
    /\ \A i, j \in DOMAIN pages : pages[i] = pages[j] => i = j

(* An image is a file tree that can be copied to FAT32 or it is refused,   *)
(* and what is listed of it is that tree (isofs.go:164, :150, :464).       *)
ImageIsATree == TreeOrNothing /\ PagesAreTheListing
=============================================================================
