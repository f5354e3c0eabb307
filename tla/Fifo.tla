-------------------------------- MODULE Fifo --------------------------------
(***************************************************************************)
(* What the queues of the vector engine promise a program: bounded queues   *)
(* that lanes of one instruction push to and pop from as if one after the   *)
(* other.  Of the lanes that name a queue, the first ones have their way,   *)
(* as many as there is room or there are elements; the others get 0.        *)
(***************************************************************************)
EXTENDS Integers, Sequences, FiniteSets

CONSTANTS
  Queue,
  Value           \* what a program pushes

VARIABLES
  lanes,          \* the integers that number the lanes: they go in order
  capacity,       \* elements that each queue can hold
  contents,       \* the elements of each queue, oldest first
  answer          \* what each lane of the last instruction was told

(* The lanes before i that name the queue of lane i. *)
Ahead(at, i) == Cardinality({j \in DOMAIN at : j < i /\ at[j] = at[i]})
Aim(at, q) == Cardinality({i \in DOMAIN at : at[i] = q})
Room(q) == capacity[q] - Len(contents[q])
Least(a, b) == IF a < b THEN a ELSE b

(* The value of the n-th lane that names q. *)
Nth(at, val, q, n) == val[CHOOSE i \in DOMAIN at : at[i] = q /\ Ahead(at, i) = n - 1]

Init ==
  /\ capacity \in [Queue -> Nat]
  /\ contents \in [Queue -> Seq(Value)]
  /\ \A q \in Queue : Len(contents[q]) <= capacity[q]
  /\ answer = [i \in lanes |-> 0]

Push ==
  \E active \in SUBSET lanes : \E at \in [active -> Queue] :
    /\ answer' = [i \in active |-> IF Ahead(at, i) < Room(at[i]) THEN 1 ELSE 0]
    /\ \E val \in [active -> Value] :
         contents' = [q \in Queue |->
           contents[q] \o [n \in 1 .. Least(Room(q), Aim(at, q)) |-> Nth(at, val, q, n)]]

Pop ==
  \E active \in SUBSET lanes : \E at \in [active -> Queue] :
    /\ answer' = [i \in active |->
         IF Ahead(at, i) < Len(contents[at[i]])
         THEN contents[at[i]][1 + Ahead(at, i)] ELSE 0]
    /\ contents' = [q \in Queue |->
         SubSeq(contents[q], 1 + Least(Len(contents[q]), Aim(at, q)), Len(contents[q]))]

Next == (Push \/ Pop) /\ UNCHANGED <<lanes, capacity>>

Spec == Init /\ [][Next]_<<lanes, capacity, contents, answer>>
=============================================================================
