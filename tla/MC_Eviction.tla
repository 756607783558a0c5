---------------------------- MODULE MC_Eviction ----------------------------
(* Instances of Eviction for TLC. *)
EXTENDS Eviction

Has(b, r, f, v) == [bos |-> b, ranges |-> r, fences |-> f, maxver |-> v]

(* Userptr BOs; SVM ranges; one of each; TTM and suspend; these with a userptr
   BO; these with an SVM range. *)
AllSetups ==
    {Has({1}, {}, 0, 2), Has({1, 2}, {}, 0, 1), Has({}, {1, 2}, 0, 2),
     Has({1}, {1}, 0, 1), Has({}, {}, 2, 0), Has({1}, {}, 1, 1),
     Has({}, {1}, 1, 1)}

TwoRanges == {Has({}, {1, 2}, 0, 1)}
=============================================================================
