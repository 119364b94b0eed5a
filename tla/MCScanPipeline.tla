--------------------------- MODULE MCScanPipeline ---------------------------
(* Two workers, more jobs than any queue or batch holds. *)
EXTENDS ScanPipeline
=============================================================================
