-------------------------------- MODULE Lists --------------------------------
(***************************************************************************)
(* What the lists of testpmd have in common: some elements are taken out,  *)
(* and the others keep their order.                                        *)
(***************************************************************************)
EXTENDS Naturals, Sequences

(* The elements of list that are in S.  It is SelectSeq as a function of   *)
(* the elements seen so far, which can be reasoned about.                  *)
Kept(list, S) ==
  LET kept[n \in 0 .. Len(list)] ==
        IF n = 0 THEN <<>>
        ELSE IF list[n] \in S THEN Append(kept[n - 1], list[n])
        ELSE kept[n - 1]
  IN kept[Len(list)]
=============================================================================
