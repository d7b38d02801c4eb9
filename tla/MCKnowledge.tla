---------------------------- MODULE MCKnowledge ----------------------------
(* One rule in two wordings, another one, and runs that propose the first in  *)
(* both wordings or both rules; two administrators, who are alike.            *)
EXTENDS Knowledge

CONSTANTS n1, n2, c1, c2, a1, a2

MCNames == {n1, n2}
MCContents == {c1, c2}
MCAdmins == {a1, a2}
Alike == Permutations(MCAdmins)
MCOwnerRules == {<<n2, c1>>}
MCBatches == {<< <<n1, c1>>, <<n1, c2>> >>, << <<n1, c2>>, <<n2, c2>> >>}
=============================================================================
