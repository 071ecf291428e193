-------------------------------- MODULE Lists --------------------------------
(***************************************************************************)
(* The loop that several parts have: range over a list and append to       *)
(* another what passes a test.  It is SelectSeq, written as a function     *)
(* because the prover has no definition of that operator; the test is the  *)
(* set of what passes it.                                                  *)
(***************************************************************************)
EXTENDS Naturals, Sequences

KeepOnly(list, passing) ==
    LET kept[i \in 0..Len(list)] ==
            IF i = 0 THEN <<>>
            ELSE IF list[i] \in passing THEN Append(kept[i - 1], list[i])
            ELSE kept[i - 1]
    IN  kept[Len(list)]
=============================================================================
