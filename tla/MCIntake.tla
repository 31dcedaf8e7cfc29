------------------------------ MODULE MCIntake ------------------------------
(* An instance of Intake for TLC. *)
EXTENDS Intake

CONSTANTS fa, fb, fc

\* Lists around the page size of two, with every order after a push.
Lists == {<<>>, <<fa>>, <<fa, fb>>, <<fb, fa>>, <<fa, fb, fc>>, <<fc, fa, fb>>}

HunkLists == UNION {[1..n -> {3, 7}] : n \in 1..3} \cup {<<30>>, <<3, 30, 7>>}
TraitSets == {{"lockfile"}, {"oversized", "generated"}, {"removed", "binary_or_empty_patch"}}
SomePatches ==
    {[traits |-> {}, hunks |-> h, chars |-> FoldSeq(LAMBDA x, y : x + y, 0, h)] : h \in HunkLists}
      \cup {[traits |-> t, hunks |-> <<7>>, chars |-> 7] : t \in TraitSets}
=============================================================================
