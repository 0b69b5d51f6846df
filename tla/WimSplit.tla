------------------------------- MODULE WimSplit -------------------------------
(***************************************************************************)
(* How wim/split.go deals the resources ("blobs") of install.wim out to    *)
(* the parts of a split WIM: assignBlobsToParts, on blobs in the order of  *)
(* their offsets.  A blob is its compressed size and whether it is an      *)
(* image's metadata; part 1 gets all the metadata.                         *)
(***************************************************************************)
EXTENDS Naturals, Sequences, SequencesExt

BlobRecords == [size : Nat, isMetadata : BOOLEAN]

(* The blobs that are, or are not, metadata.                               *)
Those(blobs, metadata) ==
    LET upTo[k \in 0 .. Len(blobs)] ==
            IF k = 0 THEN <<>>
            ELSE IF blobs[k].isMetadata = metadata THEN Append(upTo[k - 1], blobs[k])
            ELSE upTo[k - 1]
    IN upTo[Len(blobs)]
Metadata(blobs) == Those(blobs, TRUE)
Regular(blobs) == Those(blobs, FALSE)

DataSize(part) ==
    LET upTo[k \in 0 .. Len(part)] == IF k = 0 THEN 0 ELSE upTo[k - 1] + part[k].size
    IN upTo[Len(part)]

(* A part is left for the next one when the blob would not fit, but not    *)
(* before it holds more blobs than there is metadata in the whole WIM.     *)
Full(part, b, metadata, maxPartSize) ==
    DataSize(part) + b.size > maxPartSize /\ Len(part) > Len(metadata)

AddBlob(parts, b, full) ==
    IF full THEN Append(parts, <<b>>)
    ELSE [parts EXCEPT ![Len(parts)] = Append(@, b)]
NextParts(parts, b, metadata, maxPartSize) ==
    AddBlob(parts, b, Full(parts[Len(parts)], b, metadata, maxPartSize))

AssignBlobsToParts(blobs, maxPartSize) ==
    LET metadata == Metadata(blobs)
        regular == Regular(blobs)
        after[k \in 0 .. Len(regular)] ==
            IF k = 0 THEN <<metadata>>
            ELSE NextParts(after[k - 1], regular[k], metadata, maxPartSize)
    IN after[Len(regular)]
=============================================================================
