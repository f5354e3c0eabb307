----------------------------- MODULE ObjectStore -----------------------------
(***************************************************************************)
(* What malloc, realloc and free promise a program: every object is an      *)
(* array of bytes of its own.  A new object has a pointer that no other     *)
(* object has, a store changes the one object it names, and an object that  *)
(* grows out of another begins with that other's bytes and leaves it as it  *)
(* was.                                                                     *)
(***************************************************************************)
EXTENDS Integers

CONSTANTS
  Pointer,        \* pointers other than NULL
  Size,           \* sizes an object may have
  Byte            \* what a program may store

VARIABLE objects  \* the bytes behind each pointer handed out

Init == objects = [p \in {} |-> 0]

Added(p, bytes) == [q \in DOMAIN objects \cup {p} |-> IF q = p THEN bytes ELSE objects[q]]

New ==
  \E p \in Pointer \ DOMAIN objects, n \in Size :
    objects' = Added(p, [i \in 0 .. n - 1 |-> 0])

Store ==
  \E p \in DOMAIN objects : \E i \in DOMAIN objects[p], v \in Byte :
    objects' = [objects EXCEPT ![p] = [objects[p] EXCEPT ![i] = v]]

(* The object behind old stays: nothing is ever freed. *)
Grow ==
  \E p \in Pointer \ DOMAIN objects, old \in DOMAIN objects, n \in Size :
    objects' = Added(p, [i \in 0 .. n - 1 |->
                           IF i \in DOMAIN objects[old] THEN objects[old][i] ELSE 0])

Next == New \/ Store \/ Grow

Spec == Init /\ [][Next]_objects
=============================================================================
