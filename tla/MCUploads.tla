------------------------------ MODULE MCUploads ------------------------------
(* A small instance of Uploads for TLC. *)
EXTENDS Uploads, TLC

CONSTANTS r1, r2
=============================================================================
