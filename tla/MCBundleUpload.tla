--------------------------- MODULE MCBundleUpload ---------------------------
(* A TLC instance of BundleUpload.                                         *)
EXTENDS UploadInvariant
=============================================================================
