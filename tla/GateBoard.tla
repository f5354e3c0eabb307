------------------------------ MODULE GateBoard ------------------------------
(***************************************************************************)
(* What the canonical gate report promises its users: a board with one     *)
(* list of gate rows per run, on which a run can be opened, cleared and     *)
(* given a row, each at once and without touching any other run.            *)
(***************************************************************************)
EXTENDS Integers

CONSTANT Run          \* runs that may be opened

VARIABLE board        \* the rows of every open run

Init == board = [k \in {} |-> {}]

Open(k) ==
  /\ k \notin DOMAIN board
  /\ board' = [l \in DOMAIN board \cup {k} |-> IF l = k THEN {} ELSE board[l]]

Clear(k) == k \in DOMAIN board /\ board' = [board EXCEPT ![k] = {}]

(* A row is put on the board of its run, in the place of a row of its gate. *)
Put(k) ==
  /\ k \in DOMAIN board
  /\ DOMAIN board' = DOMAIN board
  /\ \A l \in DOMAIN board \ {k} : board'[l] = board[l]
  /\ \E row \in board'[k] : board'[k] = {r \in board[k] : r.gate # row.gate} \cup {row}

Next == \E k \in Run : Open(k) \/ Clear(k) \/ Put(k)

Spec == Init /\ [][Next]_board
=============================================================================
