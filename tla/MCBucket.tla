------------------------------ MODULE MCBucket ------------------------------
(* Small instances of Bucket for TLC. *)
EXTENDS Bucket

MCSizes == {1, 2, 4}
MCRequests == {0, 2}
MCNotPersistent == {FALSE}
MCAny == BOOLEAN
=============================================================================
