---------------------------- MODULE MCWorkerPool ----------------------------
(* A small instance of WorkerPool for TLC. *)
EXTENDS WorkerPool, TLC

CONSTANTS b1, b2, b3, None, v1, p1, p2

Current(b) == [basefile |-> b, version |-> None]

(* parse --all --allversions, three documents: b1 has one archived version *)
MCJobs == << Current(b1), [basefile |-> b1, version |-> v1], Current(b2),
             Current(b3) >>
=============================================================================
