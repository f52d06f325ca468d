-------------------------------- MODULE Tape --------------------------------
(***************************************************************************)
(* What the record buffer promises to the code that writes an archive: a   *)
(* tape without end.  The blocks given reach it in the order in which they *)
(* were given, later, none twice and none left out.                        *)
(***************************************************************************)
EXTENDS Naturals, Sequences

VARIABLES
    given,  \* the blocks handed to the buffer
    tape    \* the blocks that are on the medium

Init == given = <<>> /\ tape = <<>>

Give == /\ Len(given') = Len(given) + 1 /\ SubSeq(given', 1, Len(given)) = given
        /\ UNCHANGED tape

Commit == /\ \E n \in Len(tape) .. Len(given) : tape' = SubSeq(given, 1, n)
          /\ UNCHANGED given

Next == Give \/ Commit

Spec == Init /\ [][Next]_<<given, tape>>
=============================================================================
