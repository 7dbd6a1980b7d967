----------------------------- MODULE MCScanGate -----------------------------
(***************************************************************************)
(* Two scans of an artifact and two downloads.                             *)
(***************************************************************************)
EXTENDS ScanGate, TLC

CONSTANTS r1, r2

TwoScans == 1 .. 2
=============================================================================
