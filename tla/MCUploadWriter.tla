---------------------------- MODULE MCUploadWriter ----------------------------
(* One upload long enough to pass every limit, and a short one beside it   *)
(* that asks for the same file, may overwrite it and shares the pool.      *)
EXTENDS UploadWriter

CONSTANTS long, short

MCMaxBytes == [s \in {long, short} |-> IF s = long THEN 7 ELSE 2]
=============================================================================
