-------------------------- MODULE MCScannerSignals --------------------------
(***************************************************************************)
(* Instances of ScannerSignals for TLC.  Users are interchangeable; stocks *)
(* are not, since NoStock names one of them.                               *)
(***************************************************************************)
EXTENDS ScannerSignals, TLC

AnyUser == Permutations(Users)
=============================================================================
