------------------------------ MODULE VecQueue ------------------------------
(***************************************************************************)
(* V.QPUSH and V.QPOP of the Sail model (isa/sail/model/execute/            *)
(* execute.sail): the lanes of one vector instruction push to or pop from   *)
(* rings in memory, in the order of their numbers.  A ring is three words,  *)
(* head, tail and capacity, before its elements.  A program prepares rings  *)
(* with any words in them (external), so head and tail need not be below    *)
(* the capacity, and the elements between them count.                       *)
(***************************************************************************)
EXTENDS Integers, Sequences

CONSTANTS
  Queue,          \* rings in memory, at different bases
  Word,           \* what a program pushes
  Prepared,       \* head, tail and cap of each ring when the program begins
  VLEN,           \* lanes of a vector, vec_length_from_lcfr
  LB0             \* words in ssr_lb0

ASSUME QueueAssumption ==
  /\ Prepared \subseteq [Queue -> [head : Nat, tail : Nat, cap : Nat]]
  /\ LB0 \subseteq Nat /\ 0 \in LB0
  /\ VLEN \in 1 .. 64
  /\ Queue # {} /\ 0 \in Word /\ Word \subseteq Nat

VARIABLES
  ring,           \* head, tail, cap and data of each ring
  lb0,            \* ssr_lb0
  dst             \* the vector the last instruction wrote

queueVars == <<ring, lb0, dst>>

Undefined == -1                             \* undefined_bitvector: stands for any word

LaneNum == IF lb0 = 0 THEN VLEN ELSE IF lb0 < VLEN THEN lb0 ELSE VLEN
Lanes == 0 .. LaneNum - 1

QueueInit ==
  /\ \E w \in Prepared :
       ring = [q \in Queue |-> [head |-> w[q].head, tail |-> w[q].tail, cap |-> w[q].cap,
                                data |-> [s \in {} |-> 0]]]
  /\ lb0 \in LB0
  /\ dst = [i \in 0 .. VLEN - 1 |-> 0]

(* A word of data that was never written is 0. *)
At(r, slot) == IF slot \in DOMAIN r.data THEN r.data[slot] ELSE 0

Put(r, slot, v) == [s \in DOMAIN r.data \cup {slot} |-> IF s = slot THEN v ELSE r.data[s]]

NextTail(r) == (r.tail + 1) % r.cap

(* Mutant: every slot is used. *)
Full_All(r) == r.cap = 0 \/ r.tail + 1 - r.head > r.cap

Full(r) == r.cap = 0 \/ NextTail(r) = r.head % r.cap
Empty(r) == r.cap = 0 \/ r.head % r.cap = r.tail % r.cap

(* What one lane leaves of the ring, and what it is told. *)
LanePush(r, v) ==
  IF Full(r) THEN [ring |-> r, told |-> 0]
  ELSE [ring |-> [r EXCEPT !.data = Put(r, r.tail % r.cap, v), !.tail = NextTail(r)],
        told |-> 1]

LanePop(r) ==
  IF Empty(r) THEN [ring |-> r, told |-> 0]
  ELSE [ring |-> [r EXCEPT !.head = (r.head + 1) % r.cap], told |-> At(r, r.head % r.cap)]

(* The loop over the lanes: lane i pushes val[i] to its ring, or pops.       *)
(* A lane without its predicate bit is told nothing definite, one above     *)
(* LaneNum keeps its word.                                                  *)
OverLanes(at, push, val) ==
  LET after[n \in 0 .. LaneNum] ==
        IF n = 0 THEN [ring |-> ring, dst |-> dst]
        ELSE LET was == after[n - 1]
                 i == n - 1
             IN IF i \in DOMAIN at
                THEN LET r == was.ring[at[i]]
                         did == IF push THEN LanePush(r, val[i]) ELSE LanePop(r)
                     IN [ring |-> [was.ring EXCEPT ![at[i]] = did.ring],
                         dst |-> [was.dst EXCEPT ![i] = did.told]]
                ELSE [was EXCEPT !.dst[i] = Undefined]
  IN after[LaneNum]

RingsBecome(s) == ring' = s.ring /\ dst' = s.dst /\ UNCHANGED lb0

(* exec_v_qpush and exec_v_qpop: at names the ring of each active lane. *)
QPush ==
  \E active \in SUBSET Lanes : \E at \in [active -> Queue], val \in [active -> Word] :
    RingsBecome(OverLanes(at, TRUE, val))

QPop ==
  \E active \in SUBSET Lanes : \E at \in [active -> Queue] :
    RingsBecome(OverLanes(at, FALSE, <<>>))

QueueNext == QPush \/ QPop

QueueSpec == QueueInit /\ [][QueueNext]_queueVars

-----------------------------------------------------------------------------
Used(r) == IF r.cap = 0 THEN 0 ELSE ((r.tail % r.cap) - (r.head % r.cap) + r.cap) % r.cap
ContentsOf(r) == [n \in 1 .. Used(r) |-> At(r, (r.head + n - 1) % r.cap)]

(* Capacities do not change, and a lane above LaneNum keeps its word. *)
QueueTypeOK ==
  /\ \A q \in Queue :
       /\ {ring[q].cap, ring[q].head, ring[q].tail} \subseteq Nat
       /\ DOMAIN ring[q].data \subseteq 0 .. ring[q].cap - 1
  /\ lb0 \in LB0
  /\ \A i \in DOMAIN dst : dst[i] \in Word \cup {0, 1, Undefined} /\ (i \notin Lanes => dst[i] = 0)

(* What the last instruction told the lanes that took part. *)
Told == [i \in {j \in Lanes : dst[j] # Undefined} |-> dst[i]]

(* The lanes of one instruction meet bounded queues, whichever of them aim  *)
(* at the same ring and whatever its words: first come, first served, one   *)
(* slot of a ring always stays free, and one of capacity 0 or 1 is always   *)
(* full.                                                                    *)
Queues == INSTANCE Fifo WITH
  Value <- Word, lanes <- Lanes,
  capacity <- [q \in Queue |-> IF ring[q].cap = 0 THEN 0 ELSE ring[q].cap - 1],
  contents <- [q \in Queue |-> ContentsOf(ring[q])],
  answer <- Told

QueuesAreFifos == Queues!Spec
=============================================================================
