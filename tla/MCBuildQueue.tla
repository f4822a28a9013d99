---------------------------- MODULE MCBuildQueue ----------------------------
(* Small instances of BuildQueue for TLC. *)
EXTENDS BuildQueue, TLC

CONSTANTS repo, other, d1, d2, w1, w2

(* two commands of one repository, then one over the same document of      *)
(* another repository and one over nothing                                 *)
MCPlan == << [alias |-> repo, docs |-> {d1, d2}],
             [alias |-> repo, docs |-> {d1}],
             [alias |-> other, docs |-> {d1}],
             [alias |-> other, docs |-> {}] >>

(* two commands of one repository *)
MCShortPlan == << [alias |-> repo, docs |-> {d1, d2}],
                  [alias |-> repo, docs |-> {d1}] >>
=============================================================================
