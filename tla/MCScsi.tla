------------------------------- MODULE MCScsi -------------------------------
(* ScsiService with a file of two blocks, a buffer of two and two tries      *)
(* at mounting: every command can run to, at and past the end of the disk    *)
(* and of the buffer.                                                        *)
EXTENDS ScsiService
=============================================================================
