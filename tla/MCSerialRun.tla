---------------------------- MODULE MCSerialRun -----------------------------
(* Small instances of SerialRun for TLC. *)
EXTENDS SerialRun, TLC

CONSTANTS b1, b2, b3, None, v1, v2

Pair(b, v) == [basefile |-> b, version |-> v]

(* parse --all --allversions: b1 has two archived versions, b3 has one *)
MCVersions == << Pair(b1, None), Pair(b1, v1), Pair(b1, v2), Pair(b2, None),
                 Pair(b3, None), Pair(b3, v1) >>
=============================================================================
