----------------------------- MODULE MCInsnHist -----------------------------
(* Constants of the model-checking runs of InsnHist: a table of four forms  *)
(* of which two match the same word with the same number of fixed bits, and *)
(* words for a general form, a special one and none.                        *)
EXTENDS InsnHistProps

InstForm(length, mask, match, mnemonic) ==
  [length |-> length, mask |-> mask, match |-> match, mnemonic |-> mnemonic]

SmallTable ==
  << InstForm(16, {0, 1}, {0}, 3), InstForm(16, {0, 1, 2}, {0, 2}, 1),
     InstForm(16, {0, 1, 3}, {0}, 2), InstForm(32, {0}, {0}, 4) >>

Word(bits, size) == [bits |-> bits, size |-> size]

(* Forms 1, 2 and 3 match the first two words, form 1 alone the third, and  *)
(* the last could not be read.                                              *)
SmallCode == {Word({0, 2}, 2), Word({0, 2, 4}, 2), Word({0, 3}, 2), Word({0}, 0)}
=============================================================================
