-------------------------------- MODULE MCFlash --------------------------------
(* TLC instances of Flash: install.wim at the limit and one above it, and  *)
(* every list of up to four blobs with the metadata of up to two images.   *)
EXTENDS Flash

Blob(n, m) == [size |-> n, isMetadata |-> m]
Blobs == {Blob(1, TRUE), Blob(1, FALSE), Blob(2, FALSE), Blob(4, FALSE)}
Lists == {s \in UNION {[1 .. n -> Blobs] : n \in 1 .. 4} : Len(Metadata(s)) <= 2}

(* What FlashProofs proves of the split holds of them.                     *)
ASSUME SplitHolds == SplitIsRight
=============================================================================
