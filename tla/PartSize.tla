------------------------------ MODULE PartSize ------------------------------
(***************************************************************************)
(* The size of the parts of a multipart upload (bundle_upload.go), under   *)
(* the limits S3 sets: so many parts, each so large.                       *)
(***************************************************************************)
EXTENDS Integers

CONSTANTS
    bundleUploadPartSize,   \* the usual part, and the largest single PUT
    maxUploadPartSize,
    maxUploadParts

\* 64 MiB, 5 GiB and 10,000 in the code.
ASSUME PartSizeAssumption ==
    /\ bundleUploadPartSize \in Nat /\ maxUploadPartSize \in Nat /\ maxUploadParts \in Nat
    /\ 0 < maxUploadParts /\ maxUploadParts <= bundleUploadPartSize
    /\ bundleUploadPartSize <= maxUploadPartSize

TooLarge == 0

LargerOf(a, b) == IF a >= b THEN a ELSE b

\* Mutant: the remainder is forgotten.
multipartBundlePartSizeFloor(size) ==
    LET part == LargerOf(bundleUploadPartSize, size \div maxUploadParts)
    IN IF part > maxUploadPartSize THEN TooLarge ELSE part

\* TooLarge stands for the error.
multipartBundlePartSize(size) ==
    LET part == LargerOf(bundleUploadPartSize, size \div maxUploadParts)
        rounded == IF size \div part >= maxUploadParts /\ size % part # 0 THEN part + 1 ELSE part
    IN IF rounded > maxUploadPartSize THEN TooLarge ELSE rounded
=============================================================================
