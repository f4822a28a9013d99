----------------------------- MODULE MCHarvest ------------------------------
(* An act, and of the next year an amendment of it, another act, behind a  *)
(* gap, and an amendment of that one whose number starts with that of the  *)
(* first amendment.  They are published in any order, so that any may be   *)
(* missing for a while.                                                    *)
EXTENDS Harvest

Numbers == {<<1, 1>>, <<2, 1>>, <<2, 3>>, <<2, 10>>}

Amends == [n \in Numbers |-> CASE n = <<2, 1>> -> {<<1, 1>>}
                               [] n = <<2, 10>> -> {<<2, 3>>}
                               [] OTHER -> {n}]
=============================================================================
