----------------------------- MODULE Libc_proofs -----------------------------
(***************************************************************************)
(* Proofs about LibcHeap, LibcExit and what LibcStdio prints, and about the   *)
(* run of MCLibc.                                                           *)
(*                                                                          *)
(* LibcHeap, for every size of the heap, header, alignment and size_t, and   *)
(* every set of requests: blocks share no cell, headers keep the sizes asked *)
(* for, blocks are aligned, and the array implements ObjectStore.            *)
(*                                                                          *)
(* LibcExit, for every set of handlers and codes and every size of the       *)
(* table: types, that the finisher is told of the latest request, that       *)
(* handlers run in the reverse order of their registration, and that none is *)
(* left behind.                                                             *)
(*                                                                          *)
(* LibcStdioProps, for every width of int and every number, flags, width and *)
(* precision: conversions print what reads back, as wide and as precise as   *)
(* asked for.  The digits of linx_utoa_rev are the value of a function whose *)
(* existence is proved from its values up to n (FiguresExist); NumberOf is   *)
(* read the same way (Reads).  What linx_format_uint lays out is taken apart *)
(* into spaces, sign, mark and digits (NumberIs), from which the properties  *)
(* follow (NumberKeeps).                                                    *)
(*                                                                          *)
(* MCLibc: the parts side by side keep what each keeps alone.                *)
(***************************************************************************)
EXTENDS MCLibc, LibcText_proofs, SoftFloat_proofs

(* What the two properties need of the types; where blocks are aligned does *)
(* not matter.                                                              *)
HeapBounds ==
  /\ off \in 0 .. HeapSize
  /\ mem \in [0 .. HeapSize - 1 -> Int]
  /\ \A p \in DOMAIN blocks :
       p \in Nat /\ blocks[p] \in Nat \ {0} /\ p >= Header /\ p + blocks[p] <= off

HeapInv == HeapBounds /\ Apart /\ HeadersHoldSizes

LEMMA HeapConstants ==
  /\ HeapSize \in Nat /\ SizeMod \in Nat \ {0} /\ Header \in Nat \ {0} /\ Align \in Nat \ {0}
  /\ HeapSize + Header + Align <= SizeMod
  /\ Request \subseteq Nat /\ Byte \subseteq Int
BY HeapAssumption

LEMMA Reduced ==
  ASSUME NEW m \in Nat \ {0}, NEW n \in Nat
  PROVE  n % m \in 0 .. m - 1 /\ (n < m => n % m = n)
OBVIOUS

(* Neither sum of User wraps, so a block begins behind its header.          *)
LEMMA UserBound ==
  ASSUME HeapBounds
  PROVE  User \in Nat /\ User - Header >= off
<1>1. off + Header \in Nat /\ off + Header < SizeMod /\ off + Header + Align - 1 \in Nat
      /\ off + Header + Align - 1 < SizeMod
  BY HeapConstants DEF HeapBounds
<1>2. (off + Header) % SizeMod = off + Header
  BY <1>1, HeapConstants, Reduced
<1>3. (off + Header + Align - 1) % SizeMod = off + Header + Align - 1
  BY <1>1, HeapConstants, Reduced
<1>4. User = (off + Header + Align - 1) - ((off + Header + Align - 1) % Align)
  BY <1>2, <1>3 DEF User, AlignUp
<1>5. (off + Header + Align - 1) % Align \in 0 .. Align - 1
  BY <1>1, HeapConstants, Reduced
<1> QED
  BY <1>1, <1>4, <1>5, HeapConstants DEF HeapBounds

(* A block that fits ends within the heap. *)
LEMMA FitsWithin ==
  ASSUME HeapBounds, NEW size \in Request, Fits(size)
  PROVE  /\ size \in Nat \ {0} /\ User + size <= HeapSize
         /\ BumpTo(size) = User + size
<1>1. User \in Nat /\ User <= HeapSize /\ size \in Nat \ {0}
  BY UserBound, HeapConstants DEF Fits
<1>2. (HeapSize - User) % SizeMod = HeapSize - User
  <2>1. HeapSize - User \in Nat /\ HeapSize - User < SizeMod
    BY <1>1, HeapConstants
  <2> QED
    BY <2>1, HeapConstants, Reduced
<1>3. User + size <= HeapSize
  BY <1>1, <1>2, HeapConstants DEF Fits
<1>4. (User + size) % SizeMod = User + size
  <2>1. User + size \in Nat /\ User + size < SizeMod
    BY <1>1, <1>3, HeapConstants
  <2> QED
    BY <2>1, HeapConstants, Reduced
<1> QED
  BY <1>1, <1>3, <1>4 DEF BumpTo

(* Handing out a block writes its header and what is copied into it.        *)
LEMMA HandOutStep ==
  ASSUME HeapInv, NEW size \in Request, Fits(size),
         NEW filled \in [0 .. HeapSize - 1 -> Int],
         \A c \in 0 .. HeapSize - 1 : c < User => filled[c] = mem[c],
         HandOut(size, filled)
  PROVE  HeapInv'
<1>1. /\ size \in Nat \ {0} /\ User \in Nat /\ User - Header >= off /\ User + size <= HeapSize
      /\ off' = User + size
  BY FitsWithin, UserBound DEF HeapInv, HandOut
<1>2. /\ off \in 0 .. HeapSize /\ Header \in Nat \ {0} /\ HeapSize \in Nat
      /\ \A p \in DOMAIN blocks :
           p \in Nat /\ blocks[p] \in Nat \ {0} /\ p >= Header /\ p + blocks[p] <= off
  BY HeapConstants DEF HeapInv, HeapBounds
<1>3. User \notin DOMAIN blocks
  BY <1>1, <1>2
<1>4. /\ DOMAIN blocks' = DOMAIN blocks \cup {User}
      /\ blocks'[User] = size
      /\ \A p \in DOMAIN blocks : blocks'[p] = blocks[p]
  BY <1>3 DEF HandOut
<1>5. User - Header \in 0 .. HeapSize - 1
  BY <1>1, <1>2
<1>6. /\ mem' \in [0 .. HeapSize - 1 -> Int]
      /\ mem'[User - Header] = size
      /\ \A c \in 0 .. off - 1 : mem'[c] = mem[c]
  BY <1>1, <1>2, <1>5 DEF HandOut
<1>7. HeapBounds'
  <2>1. off' \in 0 .. HeapSize
    BY <1>1, <1>2
  <2>2. User \in Nat /\ User >= Header /\ User + size <= off'
    BY <1>1, <1>2
  <2>3. ASSUME NEW p \in DOMAIN blocks
        PROVE  p \in Nat /\ blocks[p] \in Nat \ {0} /\ p >= Header /\ p + blocks[p] <= off'
    BY <1>1, <1>2
  <2>4. \A p \in DOMAIN blocks' :
          p \in Nat /\ blocks'[p] \in Nat \ {0} /\ p >= Header /\ p + blocks'[p] <= off'
    BY <1>1, <1>4, <2>2, <2>3
  <2> QED
    BY <1>6, <2>1, <2>4 DEF HeapBounds
<1>8. Apart'
  <2> DEFINE Cells(p, n) == p - Header .. p + n - 1
  <2>1. ASSUME NEW p \in DOMAIN blocks
        PROVE  /\ Cells(p, blocks[p]) \subseteq 0 .. off - 1
               /\ Cells(p, blocks[p]) \subseteq 0 .. off' - 1
    <3>1. p \in Nat /\ blocks[p] \in Nat /\ p >= Header /\ p + blocks[p] <= off
      BY <1>2
    <3>2. off \in Nat /\ off' \in Nat /\ off <= off' /\ Header \in Nat
      BY <1>1, <1>2
    <3> QED
      BY <3>1, <3>2
  <2>2. /\ Cells(User, size) \subseteq 0 .. off' - 1
        /\ Cells(User, size) \cap 0 .. off - 1 = {}
    BY <1>1, <1>2
  <2>3. \A p, q \in DOMAIN blocks : p # q => Cells(p, blocks[p]) \cap Cells(q, blocks[q]) = {}
    BY DEF HeapInv, Apart, Extent
  <2> HIDE DEF Cells
  <2>4. \A p \in DOMAIN blocks' : Cells(p, blocks'[p]) \subseteq 0 .. off' - 1
    BY <1>4, <2>1, <2>2
  <2>5. \A p, q \in DOMAIN blocks' : p # q => Cells(p, blocks'[p]) \cap Cells(q, blocks'[q]) = {}
    BY <1>4, <2>1, <2>2, <2>3
  <2> QED
    BY <2>4, <2>5 DEF Apart, Extent, Cells
<1>9. HeadersHoldSizes'
  <2>1. ASSUME NEW p \in DOMAIN blocks PROVE p - Header \in 0 .. off - 1
    BY <1>2
  <2>2. ASSUME NEW p \in DOMAIN blocks PROVE mem'[p - Header] = blocks[p]
    BY <1>6, <2>1 DEF HeapInv, HeadersHoldSizes
  <2> QED
    BY <1>4, <1>6, <2>2 DEF HeadersHoldSizes
<1> QED
  BY <1>7, <1>8, <1>9 DEF HeapInv

(* What realloc copies lies in the new block. *)
LEMMA CopiedWithin ==
  ASSUME HeapInv, NEW old \in DOMAIN blocks, NEW size \in Request, Fits(size)
  PROVE  /\ Copied(old, size) \in [0 .. HeapSize - 1 -> Int]
         /\ \A c \in 0 .. HeapSize - 1 : c < User => Copied(old, size)[c] = mem[c]
<1>1. /\ User \in Nat /\ Header \in Nat \ {0} /\ HeapSize \in Nat /\ off \in 0 .. HeapSize
  BY UserBound, HeapConstants DEF HeapInv, HeapBounds
<1>2. /\ mem[old - Header] = blocks[old] /\ blocks[old] \in Nat \ {0} /\ size \in Nat
      /\ old \in Nat /\ old + blocks[old] <= off
  BY FitsWithin DEF HeapInv, HeapBounds, HeadersHoldSizes
<1>3. MinSize(mem[old - Header], size) \in Nat
      /\ MinSize(mem[old - Header], size) <= blocks[old]
  BY <1>2 DEF MinSize
<1>4. \A c \in User .. User + MinSize(mem[old - Header], size) - 1 :
        old + (c - User) \in 0 .. HeapSize - 1
  <2>1. \A n \in Nat : n <= blocks[old] =>
          \A c \in User .. User + n - 1 : old + (c - User) \in 0 .. HeapSize - 1
    BY <1>1, <1>2
  <2> QED
    BY <1>3, <2>1
<1>5. mem \in [0 .. HeapSize - 1 -> Int]
  BY DEF HeapInv, HeapBounds
<1> QED
  BY <1>1, <1>3, <1>4, <1>5 DEF Copied

(* A store within a block reaches no header. *)
LEMMA StoreStep ==
  ASSUME HeapInv, StoreByte
  PROVE  HeapInv'
<1>1. PICK p \in DOMAIN blocks : \E i \in 0 .. blocks[p] - 1, v \in Byte :
        mem' = [mem EXCEPT ![p + i] = v]
  BY DEF StoreByte
<1>2. PICK i \in 0 .. blocks[p] - 1, v \in Byte : mem' = [mem EXCEPT ![p + i] = v]
  BY <1>1
<1>3. UNCHANGED <<off, blocks>>
  BY DEF StoreByte
<1>4. /\ Header \in Nat \ {0} /\ HeapSize \in Nat /\ off \in 0 .. HeapSize
      /\ \A q \in DOMAIN blocks :
           q \in Nat /\ blocks[q] \in Nat \ {0} /\ q >= Header /\ q + blocks[q] <= off
  BY HeapConstants DEF HeapInv, HeapBounds
<1>5. \A q \in DOMAIN blocks : p + i # q - Header
  <2>1. SUFFICES ASSUME NEW q \in DOMAIN blocks, p + i = q - Header PROVE FALSE
    OBVIOUS
  <2>2. p + i \in Extent(p) /\ q - Header \in Extent(q)
    BY <1>4 DEF Extent
  <2>3. p # q
    BY <1>4, <2>1
  <2> QED
    BY <2>1, <2>2, <2>3 DEF HeapInv, Apart
<1>6. HeapBounds'
  BY <1>2, <1>3, HeapConstants DEF HeapInv, HeapBounds
<1>7. Apart'
  BY <1>3 DEF HeapInv, Apart, Extent
<1>8. HeadersHoldSizes'
  <2>1. \A q \in DOMAIN blocks : q - Header \in 0 .. HeapSize - 1
    BY <1>4
  <2> QED
    BY <1>2, <1>3, <1>5, <2>1 DEF HeapInv, HeapBounds, HeadersHoldSizes
<1> QED
  BY <1>6, <1>7, <1>8 DEF HeapInv

LEMMA HeapInductive == HeapSpec => []HeapInv
<1>1. HeapInit => HeapInv
  BY HeapConstants
  DEF HeapInit, HeapInv, HeapBounds, Apart, HeadersHoldSizes, Extent
<1>2. ASSUME HeapInv, Malloc PROVE HeapInv'
  <2>1. PICK size \in Request : IF Fits(size) THEN HandOut(size, mem) ELSE Fails
    BY <1>2 DEF Malloc
  <2>2. CASE Fits(size)
    BY <1>2, <2>1, <2>2, HandOutStep DEF HeapInv, HeapBounds
  <2>3. CASE ~Fits(size)
    BY <1>2, <2>1, <2>3
    DEF Fails, HeapInv, HeapBounds, Apart, HeadersHoldSizes, Extent
  <2> QED
    BY <2>2, <2>3
<1>3. ASSUME HeapInv, Realloc PROVE HeapInv'
  <2>1. PICK old \in DOMAIN blocks, size \in Request :
          IF Fits(size) THEN HandOut(size, Copied(old, size)) ELSE Fails
    BY <1>3 DEF Realloc
  <2>2. CASE Fits(size)
    BY <1>3, <2>1, <2>2, HandOutStep, CopiedWithin
  <2>3. CASE ~Fits(size)
    BY <1>3, <2>1, <2>3
    DEF Fails, HeapInv, HeapBounds, Apart, HeadersHoldSizes, Extent
  <2> QED
    BY <2>2, <2>3
<1>4. ASSUME HeapInv, UNCHANGED heapVars PROVE HeapInv'
  BY <1>4 DEF heapVars, HeapInv, HeapBounds, Apart, HeadersHoldSizes, Extent
<1>5. ASSUME HeapInv, [HeapNext]_heapVars PROVE HeapInv'
  BY <1>2, <1>3, <1>4, <1>5, StoreStep DEF HeapNext, Free
<1> QED
  BY <1>1, <1>5, PTL DEF HeapSpec

(* Blocks and their headers lie apart in the part of the heap handed out,   *)
(* for requests of every size up to the largest size_t, and no store of the *)
(* program reaches a header: realloc reads from memory the size that was    *)
(* asked for.                                                               *)
THEOREM BlocksLieApart == HeapSpec => []BlocksStayWhole
<1>1. HeapInv => BlocksStayWhole
  BY DEF HeapInv, BlocksStayWhole
<1> QED
  BY <1>1, HeapInductive, PTL

-----------------------------------------------------------------------------
(* Alignment *)

LEMMA NoMultipleWithin ==
  ASSUME NEW m \in Nat \ {0}, NEW b \in Int, b # 0
  PROVE  m * b \notin 0 .. m - 1
<1>1. CASE b >= 1
  <2>1. m * (b - 1) >= 0
    BY <1>1
  <2> QED
    BY <1>1, <2>1
<1>2. CASE b <= -1
  <2>1. m * (-b) > 0
    BY <1>2
  <2> QED
    BY <2>1
<1> QED
  BY <1>1, <1>2

LEMMA MultipleLeavesNothing ==
  ASSUME NEW m \in Nat \ {0}, NEW q \in Nat
  PROVE  (m * q) % m = 0
<1> DEFINE x == m * q
<1>1. x \in Nat
  OBVIOUS
<1>2. x = m * (x \div m) + (x % m) /\ x \div m \in Int /\ x % m \in 0 .. m - 1
  <2> HIDE DEF x
  <2> QED
    BY <1>1
<1>3. x % m = m * (q - (x \div m)) /\ q - (x \div m) \in Int
  BY <1>2
<1>4. q - (x \div m) = 0
  BY <1>2, <1>3, NoMultipleWithin
<1>5. m * 0 = 0
  OBVIOUS
<1> QED
  BY <1>3, <1>4, <1>5

LEMMA RemainderDropped ==
  ASSUME NEW m \in Nat \ {0}, NEW x \in Nat
  PROVE  (x - (x % m)) % m = 0
<1>1. x = m * (x \div m) + (x % m)
  OBVIOUS
<1>2. PICK q \in Nat : x - (x % m) = m * q
  <2>1. x - (x % m) = m * (x \div m) /\ x \div m \in Nat
    BY <1>1
  <2> QED
    BY <2>1
<1> QED
  BY <1>2, MultipleLeavesNothing

LEMMA UserIsAligned ==
  ASSUME HeapBounds
  PROVE  User % Align = 0
<1> DEFINE first == (off + Header) % SizeMod
           sum == (first + Align - 1) % SizeMod
<1>1. sum \in Nat
  <2>1. first \in Nat
    BY HeapConstants, Reduced DEF HeapBounds
  <2> HIDE DEF first
  <2>2. first + Align - 1 \in Nat
    BY <2>1, HeapConstants
  <2> QED
    BY <2>2, HeapConstants, Reduced
<1>2. User = sum - (sum % Align)
  BY DEF User, AlignUp
<1> HIDE DEF sum
<1> QED
  BY <1>1, <1>2, HeapConstants, RemainderDropped

(* What the types say beyond HeapInv. *)
PointersInv ==
  /\ \A p \in DOMAIN blocks : p % Align = 0
  /\ ret \in {NULL} \cup DOMAIN blocks

LEMMA PointersStep ==
  ASSUME HeapInv, PointersInv, [HeapNext]_heapVars
  PROVE  PointersInv'
<1>1. ASSUME NEW size \in Request, NEW filled, HandOut(size, filled)
      PROVE  PointersInv'
  BY <1>1, UserIsAligned DEF HandOut, PointersInv, HeapInv
<1>2. ASSUME Fails PROVE PointersInv'
  BY <1>2 DEF Fails, PointersInv
<1>3. CASE StoreByte \/ UNCHANGED heapVars
  BY <1>3 DEF StoreByte, heapVars, PointersInv
<1> QED
  BY <1>1, <1>2, <1>3 DEF HeapNext, Malloc, Realloc, Free

(* A block is aligned, and a pointer handed out lies in the array, whatever *)
(* the size of the header and the alignment.                               *)
THEOREM HeapTypesHold == HeapSpec => []HeapTypeOK
<1>1. HeapInit => PointersInv
  BY DEF HeapInit, PointersInv
<1>2. HeapInv /\ PointersInv /\ [HeapNext]_heapVars => PointersInv'
  BY PointersStep
<1>3. HeapInv /\ PointersInv => HeapTypeOK
  <2>1. ASSUME HeapInv, NEW p \in DOMAIN blocks PROVE p \in 1 .. HeapSize
    BY <2>1, HeapConstants DEF HeapInv, HeapBounds
  <2> QED
    BY <2>1 DEF HeapInv, HeapBounds, PointersInv, HeapTypeOK
<1> QED
  BY <1>1, <1>2, <1>3, HeapInductive, PTL DEF HeapSpec

-----------------------------------------------------------------------------
(* The heap implements separate objects *)

(* What has not been handed out has never been written. *)
FreshIsZero == \A c \in off .. HeapSize - 1 : mem[c] = 0

LEMMA ObjectsDomain == DOMAIN ObjectsOf = DOMAIN blocks
BY DEF ObjectsOf

(* A block lies in the part handed out, and in the array. *)
LEMMA BlockCells ==
  ASSUME HeapInv, NEW p \in DOMAIN blocks, NEW i \in 0 .. blocks[p] - 1
  PROVE  p + i \in 0 .. off - 1 /\ p + i \in 0 .. HeapSize - 1
<1>1. /\ p \in Nat /\ blocks[p] \in Nat /\ p + blocks[p] <= off
      /\ off \in 0 .. HeapSize /\ HeapSize \in Nat
  BY HeapConstants DEF HeapInv, HeapBounds
<1> QED
  BY <1>1

(* A block that is handed out is an object of its own, and the objects      *)
(* there were stay what they were.                                         *)
LEMMA HandOutAdds ==
  ASSUME HeapInv, NEW size \in Request, Fits(size),
         NEW filled \in [0 .. HeapSize - 1 -> Int],
         \A c \in 0 .. HeapSize - 1 : c < User => filled[c] = mem[c],
         HandOut(size, filled)
  PROVE  /\ User \in (1 .. HeapSize) \ DOMAIN ObjectsOf
         /\ ObjectsOf' = Objects!Added(User, [i \in 0 .. size - 1 |-> filled[User + i]])
<1>1. /\ size \in Nat \ {0} /\ User \in Nat /\ User - Header >= off /\ User + size <= HeapSize
      /\ Header \in Nat \ {0} /\ HeapSize \in Nat /\ off \in 0 .. HeapSize
  BY FitsWithin, UserBound, HeapConstants DEF HeapInv, HeapBounds
<1>2. User \notin DOMAIN blocks
  BY <1>1 DEF HeapInv, HeapBounds
<1>3. User \in 1 .. HeapSize
  BY <1>1
<1>4. /\ DOMAIN blocks' = DOMAIN blocks \cup {User}
      /\ blocks'[User] = size
      /\ \A p \in DOMAIN blocks : blocks'[p] = blocks[p]
  BY <1>2 DEF HandOut
<1>5. /\ \A c \in 0 .. HeapSize - 1 : c # User - Header => mem'[c] = filled[c]
      /\ \A c \in 0 .. off - 1 : mem'[c] = mem[c]
  BY <1>1 DEF HandOut
<1>. DEFINE bytes == [i \in 0 .. size - 1 |-> filled[User + i]]
            fresh == [i \in 0 .. size - 1 |-> mem'[User + i]]
            kept(p) == [i \in 0 .. blocks[p] - 1 |-> mem'[p + i]]
<1>6. fresh = bytes
  <2>1. \A i \in 0 .. size - 1 : mem'[User + i] = filled[User + i]
    BY <1>1, <1>5
  <2> QED
    BY <2>1
<1>7. \A p \in DOMAIN blocks : kept(p) = ObjectsOf[p]
  <2>1. ASSUME NEW p \in DOMAIN blocks, NEW i \in 0 .. blocks[p] - 1
        PROVE  mem'[p + i] = mem[p + i]
    BY <1>5, BlockCells
  <2> QED
    BY <2>1 DEF ObjectsOf
<1>8. ObjectsOf' = [p \in DOMAIN blocks \cup {User} |-> IF p = User THEN fresh ELSE kept(p)]
  BY <1>2, <1>4 DEF ObjectsOf
<1>. HIDE DEF fresh, bytes, kept
<1>9. ObjectsOf' = Objects!Added(User, bytes)
  BY <1>2, <1>6, <1>7, <1>8, ObjectsDomain DEF Objects!Added
<1> QED
  BY <1>2, <1>3, <1>9, ObjectsDomain DEF bytes

LEMMA FreshStep ==
  ASSUME HeapInv, FreshIsZero, [HeapNext]_heapVars
  PROVE  FreshIsZero'
<1>1. /\ Header \in Nat \ {0} /\ HeapSize \in Nat /\ off \in 0 .. HeapSize
      /\ mem \in [0 .. HeapSize - 1 -> Int] /\ User \in Nat /\ User - Header >= off
  BY HeapConstants, UserBound DEF HeapInv, HeapBounds
<1>2. ASSUME NEW size \in Request, Fits(size), NEW filled \in [0 .. HeapSize - 1 -> Int],
             \A c \in 0 .. HeapSize - 1 : c >= User + size => filled[c] = mem[c],
             HandOut(size, filled)
      PROVE  FreshIsZero'
  <2>1. size \in Nat \ {0} /\ User + size <= HeapSize /\ off' = User + size
    BY <1>2, FitsWithin DEF HandOut, HeapInv
  <2>2. mem' = [filled EXCEPT ![User - Header] = size]
    BY <1>2 DEF HandOut
  <2>3. \A c \in User + size .. HeapSize - 1 :
          c \in 0 .. HeapSize - 1 /\ c \in off .. HeapSize - 1 /\ c # User - Header
    BY <1>1, <2>1
  <2>4. \A c \in User + size .. HeapSize - 1 : mem'[c] = filled[c] /\ filled[c] = mem[c]
    BY <1>1, <1>2, <2>1, <2>2, <2>3
  <2> QED
    BY <2>1, <2>3, <2>4 DEF FreshIsZero
<1>3. CASE Malloc
  <2>1. PICK size \in Request : IF Fits(size) THEN HandOut(size, mem) ELSE Fails
    BY <1>3 DEF Malloc
  <2> QED
    BY <1>1, <1>2, <2>1 DEF Fails, FreshIsZero
<1>4. CASE Realloc
  <2>1. PICK old \in DOMAIN blocks, size \in Request :
          IF Fits(size) THEN HandOut(size, Copied(old, size)) ELSE Fails
    BY <1>4 DEF Realloc
  <2>2. CASE Fits(size)
    <3>1. Copied(old, size) \in [0 .. HeapSize - 1 -> Int]
      BY <2>2, CopiedWithin
    <3>2. /\ mem[old - Header] = blocks[old] /\ blocks[old] \in Nat /\ size \in Nat
          /\ User + size \in Nat
      BY <1>1, <2>2, FitsWithin DEF HeapInv, HeapBounds, HeadersHoldSizes
    <3>3. /\ MinSize(mem[old - Header], size) \in Nat
          /\ MinSize(mem[old - Header], size) <= size
      BY <3>2 DEF MinSize
    <3>4. \A c \in 0 .. HeapSize - 1 : c >= User + size => Copied(old, size)[c] = mem[c]
      <4>. DEFINE n == MinSize(mem[old - Header], size)
      <4>1. \A c \in 0 .. HeapSize - 1 : c >= User + size => c \notin User .. User + n - 1
        <5>. HIDE DEF n
        <5> QED
          BY <1>1, <3>2, <3>3 DEF n
      <4> QED
        BY <1>1, <4>1 DEF Copied
    <3> QED
      BY <1>2, <2>1, <2>2, <3>1, <3>4
  <2>3. CASE ~Fits(size)
    BY <2>1, <2>3 DEF Fails, FreshIsZero
  <2> QED
    BY <2>2, <2>3
<1>5. CASE StoreByte
  <2>1. PICK p \in DOMAIN blocks : \E i \in 0 .. blocks[p] - 1, v \in Byte :
          mem' = [mem EXCEPT ![p + i] = v]
    BY <1>5 DEF StoreByte
  <2>2. PICK i \in 0 .. blocks[p] - 1, v \in Byte : mem' = [mem EXCEPT ![p + i] = v]
    BY <2>1
  <2>3. p + i \in 0 .. off - 1 /\ off' = off
    BY <1>5, BlockCells DEF StoreByte
  <2> QED
    BY <1>1, <2>2, <2>3 DEF FreshIsZero
<1>6. CASE UNCHANGED heapVars
  BY <1>6 DEF heapVars, FreshIsZero
<1> QED
  BY <1>3, <1>4, <1>5, <1>6 DEF HeapNext, Free

LEMMA FreshInvariant == HeapSpec => []FreshIsZero
<1>1. HeapInit => FreshIsZero
  BY DEF HeapInit, FreshIsZero
<1>2. HeapInv /\ FreshIsZero /\ [HeapNext]_heapVars => FreshIsZero'
  BY FreshStep
<1> QED
  BY <1>1, <1>2, HeapInductive, PTL DEF HeapSpec

(* malloc of a size that fits makes a new object of zeros. *)
LEMMA MallocRefines ==
  ASSUME HeapInv, FreshIsZero, Malloc
  PROVE  [Objects!Next]_ObjectsOf
<1>1. PICK size \in Request : IF Fits(size) THEN HandOut(size, mem) ELSE Fails
  BY DEF Malloc
<1>2. CASE Fits(size)
  <2>1. /\ User \in (1 .. HeapSize) \ DOMAIN ObjectsOf
        /\ ObjectsOf' = Objects!Added(User, [i \in 0 .. size - 1 |-> mem[User + i]])
    BY <1>1, <1>2, HandOutAdds DEF HeapInv, HeapBounds
  <2>2. /\ size \in Nat \ {0} /\ User \in Nat /\ User + size <= HeapSize
        /\ off \in 0 .. HeapSize /\ HeapSize \in Nat /\ User >= off
    BY <1>2, FitsWithin, UserBound, HeapConstants DEF HeapInv, HeapBounds
  <2>3. \A i \in 0 .. size - 1 : mem[User + i] = 0
    BY <2>2 DEF FreshIsZero
  <2>4. [i \in 0 .. size - 1 |-> mem[User + i]] = [i \in 0 .. size - 1 |-> 0]
    BY <2>3
  <2> QED
    BY <2>1, <2>2, <2>4 DEF Objects!New, Objects!Next
<1>3. CASE ~Fits(size)
  BY <1>1, <1>3 DEF Fails, ObjectsOf
<1> QED
  BY <1>2, <1>3

(* realloc makes a new object that begins with the bytes of the old one: it *)
(* reads the old size from memory.                                         *)
LEMMA ReallocRefines ==
  ASSUME HeapInv, FreshIsZero, Realloc
  PROVE  [Objects!Next]_ObjectsOf
<1>1. PICK old \in DOMAIN blocks, size \in Request :
        IF Fits(size) THEN HandOut(size, Copied(old, size)) ELSE Fails
  BY DEF Realloc
<1>2. CASE Fits(size)
  <2>. DEFINE filled == Copied(old, size)
              n == MinSize(mem[old - Header], size)
              bytes == [i \in 0 .. size - 1 |-> filled[User + i]]
              grown == [i \in 0 .. size - 1 |->
                          IF i \in DOMAIN ObjectsOf[old] THEN ObjectsOf[old][i] ELSE 0]
  <2>1. /\ User \in (1 .. HeapSize) \ DOMAIN ObjectsOf
        /\ ObjectsOf' = Objects!Added(User, bytes)
    <3>1. HandOut(size, filled)
      BY <1>1, <1>2
    <3>2. /\ filled \in [0 .. HeapSize - 1 -> Int]
          /\ \A c \in 0 .. HeapSize - 1 : c < User => filled[c] = mem[c]
      BY <1>2, CopiedWithin
    <3>. HIDE DEF filled
    <3> QED
      BY <1>2, <3>1, <3>2, HandOutAdds
  <2>2. /\ size \in Nat \ {0} /\ User \in Nat /\ User + size <= HeapSize
        /\ off \in 0 .. HeapSize /\ HeapSize \in Nat /\ User >= off
        /\ DOMAIN mem = 0 .. HeapSize - 1
    BY <1>2, FitsWithin, UserBound, HeapConstants DEF HeapInv, HeapBounds
  <2>3. mem[old - Header] = blocks[old] /\ blocks[old] \in Nat \ {0} /\ old \in Nat
    BY DEF HeapInv, HeapBounds, HeadersHoldSizes
  <2>4. n = IF blocks[old] < size THEN blocks[old] ELSE size
    BY <2>3 DEF MinSize
  <2>5. filled = [c \in 0 .. HeapSize - 1 |->
                    IF c \in User .. User + n - 1 THEN mem[old + (c - User)] ELSE mem[c]]
    BY <2>2 DEF Copied
  <2>6. /\ DOMAIN ObjectsOf[old] = 0 .. blocks[old] - 1
        /\ \A i \in 0 .. blocks[old] - 1 : ObjectsOf[old][i] = mem[old + i]
    BY DEF ObjectsOf
  <2>. HIDE DEF filled, n
  <2>7. ASSUME NEW i \in 0 .. size - 1
        PROVE  filled[User + i] = IF i \in DOMAIN ObjectsOf[old] THEN ObjectsOf[old][i] ELSE 0
    <3>1. User + i \in 0 .. HeapSize - 1 /\ mem[User + i] = 0
      BY <2>2 DEF FreshIsZero
    <3>2. CASE i < blocks[old]
      <4>1. i \in DOMAIN ObjectsOf[old] /\ ObjectsOf[old][i] = mem[old + i]
        BY <2>3, <2>6, <3>2
      <4>2. User + i \in User .. User + n - 1 /\ old + ((User + i) - User) = old + i
        BY <2>2, <2>3, <2>4, <3>2
      <4> QED
        BY <2>5, <3>1, <4>1, <4>2
    <3>3. CASE ~(i < blocks[old])
      <4>1. i \notin DOMAIN ObjectsOf[old]
        BY <2>3, <2>6, <3>3
      <4>2. User + i \notin User .. User + n - 1
        BY <2>2, <2>3, <2>4, <3>3
      <4> QED
        BY <2>5, <3>1, <4>1, <4>2
    <3> QED
      BY <3>2, <3>3
  <2>8. bytes = grown
    BY <2>7
  <2>9. size \in Request \ {0} /\ old \in DOMAIN ObjectsOf
    BY <2>2, ObjectsDomain
  <2> QED
    BY <2>1, <2>8, <2>9 DEF Objects!Grow, Objects!Next
<1>3. CASE ~Fits(size)
  BY <1>1, <1>3 DEF Fails, ObjectsOf
<1> QED
  BY <1>2, <1>3

(* A store changes the one object it names: blocks share no cell. *)
LEMMA StoreRefines ==
  ASSUME HeapInv, StoreByte
  PROVE  [Objects!Next]_ObjectsOf
<1>1. PICK p \in DOMAIN blocks : \E i \in 0 .. blocks[p] - 1, v \in Byte :
        mem' = [mem EXCEPT ![p + i] = v]
  BY DEF StoreByte
<1>2. PICK i \in 0 .. blocks[p] - 1, v \in Byte : mem' = [mem EXCEPT ![p + i] = v]
  BY <1>1
<1>3. blocks' = blocks
  BY DEF StoreByte
<1>4. DOMAIN mem = 0 .. HeapSize - 1
  BY DEF HeapInv, HeapBounds
<1>5. ASSUME NEW q \in DOMAIN blocks, NEW j \in 0 .. blocks[q] - 1
      PROVE  mem'[q + j] = IF q = p /\ j = i THEN v ELSE mem[q + j]
  <2>1. /\ q \in Nat /\ p \in Nat /\ blocks[p] \in Nat /\ blocks[q] \in Nat
        /\ Header \in Nat
    BY HeapConstants DEF HeapInv, HeapBounds
  <2>2. q + j \in 0 .. HeapSize - 1 /\ p + i \in 0 .. HeapSize - 1
    BY BlockCells
  <2>3. CASE q = p
    BY <1>2, <1>4, <2>1, <2>2, <2>3
  <2>4. CASE q # p
    <3>1. q + j \in Extent(q) /\ p + i \in Extent(p)
      BY <2>1 DEF Extent
    <3>2. q + j # p + i
      BY <2>4, <3>1 DEF HeapInv, Apart
    <3> QED
      BY <1>2, <1>4, <2>2, <2>4, <3>2
  <2> QED
    BY <2>3, <2>4
<1>. DEFINE row(q) == [j \in 0 .. blocks[q] - 1 |-> mem'[q + j]]
<1>6. ObjectsOf' = [q \in DOMAIN blocks |-> row(q)]
  BY <1>3 DEF ObjectsOf
<1>7. \A q \in DOMAIN blocks : q # p => row(q) = ObjectsOf[q]
  BY <1>5 DEF ObjectsOf
<1>8. row(p) = [ObjectsOf[p] EXCEPT ![i] = v]
  <2>1. \A j \in 0 .. blocks[p] - 1 : row(p)[j] = IF j = i THEN v ELSE mem[p + j]
    BY <1>5
  <2>2. ObjectsOf[p] = [j \in 0 .. blocks[p] - 1 |-> mem[p + j]]
    BY DEF ObjectsOf
  <2> QED
    BY <2>1, <2>2
<1>. HIDE DEF row
<1>9. ObjectsOf = [q \in DOMAIN blocks |-> ObjectsOf[q]]
  BY DEF ObjectsOf
<1>10. ObjectsOf' = [ObjectsOf EXCEPT ![p] = [ObjectsOf[p] EXCEPT ![i] = v]]
  BY <1>6, <1>7, <1>8, <1>9
<1>11. i \in DOMAIN ObjectsOf[p]
  BY DEF ObjectsOf
<1> QED
  BY <1>10, <1>11, ObjectsDomain DEF Objects!Store, Objects!Next

(* The array implements objects of their own: whatever is asked for in      *)
(* whatever order, a new object is zero and at a pointer no other object    *)
(* has, a store changes the object it names, and what realloc returns       *)
(* begins with the bytes of the object it replaces.                         *)
THEOREM HeapImplementsObjects == HeapSpec => ObjectSpec
<1>1. HeapInit => Objects!Init
  BY DEF HeapInit, ObjectsOf, Objects!Init
<1>2. HeapInv /\ FreshIsZero /\ [HeapNext]_heapVars => [Objects!Next]_ObjectsOf
  <2>1. UNCHANGED heapVars => UNCHANGED ObjectsOf
    BY DEF heapVars, ObjectsOf
  <2> QED
    BY <2>1, MallocRefines, ReallocRefines, StoreRefines DEF HeapNext, Free
<1> QED
  BY <1>1, <1>2, HeapInductive, FreshInvariant, PTL DEF HeapSpec, ObjectSpec, Objects!Spec

-----------------------------------------------------------------------------
(* A handler is called by the loop of the latest request and by nothing     *)
(* else, so the frame it returns to has the code of that request.  Frames   *)
(* further down belong to older requests and are never returned to.         *)
FramesInv ==
  /\ Top.fn \in {"do_exit", "linx_exit"} => Top.code = asked.code
  /\ Top.fn \in Handler =>
       /\ Len(stack) >= 2
       /\ stack[Len(stack) - 1].fn = "do_exit"
       /\ stack[Len(stack) - 1].code = asked.code

(* The devices are written by __linx_exit, which keeps running. *)
DevicesInv ==
  /\ legacy \in {<<>>, <<asked.code % (Half * Half)>>}
  /\ finisher \in {<<>>, <<FinisherWord(asked.code)>>}
  /\ finisher # <<>> => legacy # <<>>
  /\ legacy # <<>> => Top.fn = "linx_exit"

ExitInv == ExitTypeOK /\ FramesInv /\ DevicesInv

(* What the assumptions say of names and codes. *)
LEMMA Names ==
  /\ "main" \notin Handler /\ "do_exit" \notin Handler /\ "linx_exit" \notin Handler
  /\ ATEXIT_MAX \in Nat
  BY ExitAssumption

(* A sequence without its last element. *)
LEMMA AllButLast ==
  ASSUME NEW S, NEW s \in Seq(S), Len(s) >= 2, NEW t, t = SubSeq(s, 1, Len(s) - 1)
  PROVE  t \in Seq(S) /\ t # <<>> /\ t[Len(t)] = s[Len(s) - 1]
<1>1. PICK n \in Nat : n = Len(s) - 1 /\ n >= 1
  OBVIOUS
<1>2. \A i \in 1 .. n : s[i] \in S
  BY <1>1
<1>3. /\ t \in Seq(S) /\ Len(t) = n
      /\ \A i \in 1 .. n : t[i] = s[i]
  <2>1. t = SubSeq(s, 1, n)
    BY <1>1
  <2>2. /\ SubSeq(s, 1, n) \in Seq(S)
        /\ Len(SubSeq(s, 1, n)) = IF 1 <= n THEN n - 1 + 1 ELSE 0
        /\ \A i \in 1 .. n - 1 + 1 : SubSeq(s, 1, n)[i] = s[1 + i - 1]
    BY <1>1, <1>2, SubSeqProperties
  <2>3. n - 1 + 1 = n /\ \A i \in 1 .. n : 1 + i - 1 = i
    BY <1>1
  <2>4. Len(SubSeq(s, 1, n)) = n
    BY <1>1, <2>2, <2>3
  <2>5. \A i \in 1 .. n : SubSeq(s, 1, n)[i] = s[i]
    BY <2>2, <2>3
  <2> QED
    BY <2>1, <2>2, <2>4, <2>5
<1>4. n \in 1 .. n
  BY <1>1
<1>5. t # <<>>
  <2>1. Len(<<>>) = 0
    OBVIOUS
  <2>2. n # 0
    BY <1>1
  <2> QED
    BY <1>3, <2>1, <2>2, Zenon
<1>6. t[n] = s[n]
  BY <1>3, <1>4
<1>7. Len(t) = n /\ Len(s) - 1 = n
  BY <1>1, <1>3
<1> QED
  BY <1>3, <1>5, <1>6, <1>7, Zenon

(* The stack after a call, and after the running frame is replaced or left. *)
LEMMA Pushed ==
  ASSUME ExitTypeOK, NEW f \in Frames, Push(f)
  PROVE  /\ stack' \in Seq(Frames) /\ stack' # <<>>
         /\ Len(stack') = Len(stack) + 1 /\ Len(stack') >= 2
         /\ stack'[Len(stack')] = f /\ stack'[Len(stack') - 1] = Top
BY DEF ExitTypeOK, Push, Top

LEMMA Replaced ==
  ASSUME ExitTypeOK, NEW f \in Frames, Replace(f)
  PROVE  /\ stack' \in Seq(Frames) /\ stack' # <<>>
         /\ Len(stack') = Len(stack) /\ stack'[Len(stack')] = f
BY DEF ExitTypeOK, Replace

LEMMA Popped ==
  ASSUME ExitTypeOK, Len(stack) >= 2, stack' = SubSeq(stack, 1, Len(stack) - 1)
  PROVE  /\ stack' \in Seq(Frames) /\ stack' # <<>>
         /\ stack'[Len(stack')] = stack[Len(stack) - 1]
BY AllButLast DEF ExitTypeOK

(* A request pushes, or replaces main by, a frame with its code. *)
LEMMA AskStep ==
  ASSUME ExitInv, NEW how, NEW c \in Code \cup {0, 1}, NEW fn \in {"do_exit", "linx_exit"},
         Ask(how, c, Frame(fn, c)), InProgram
  PROVE  ExitInv'
<1> DEFINE f == Frame(fn, c)
<1>1. f \in Frames /\ f.fn = fn /\ f.code = c
  BY DEF Frame, Frames
<1>2. stack' \in Seq(Frames) /\ stack' # <<>> /\ Top' = f
  BY <1>1, Pushed, Replaced DEF ExitInv, Ask, Top
<1>3. legacy = <<>> /\ finisher = <<>>
  BY Names DEF ExitInv, DevicesInv, InProgram
<1>4. asked'.code = c /\ UNCHANGED <<atexit_funcs, legacy, finisher>>
  BY DEF Ask
<1>5. ExitTypeOK'
  BY <1>2, <1>4 DEF ExitInv, ExitTypeOK
<1>6. FramesInv'
  BY <1>1, <1>2, <1>4, Names DEF FramesInv
<1>7. DevicesInv'
  BY <1>3, <1>4 DEF DevicesInv
<1> QED
  BY <1>5, <1>6, <1>7 DEF ExitInv

LEMMA ExitInductive ==
  /\ ExitInit => ExitInv
  /\ ExitInv /\ [ExitNext]_exitVars => ExitInv'
<1>1. ASSUME ExitInit PROVE ExitInv
  <2>1. stack = <<Frame("main", 0)>> /\ Frame("main", 0) \in Frames
        /\ Top = Frame("main", 0) /\ Top.fn = "main"
    BY <1>1 DEF ExitInit, Frame, Frames, Top
  <2>2. ExitTypeOK
    BY <1>1, <2>1, Names DEF ExitInit, ExitTypeOK
  <2>3. FramesInv
    BY <2>1, Names DEF FramesInv
  <2>4. DevicesInv
    BY <1>1 DEF ExitInit, DevicesInv
  <2> QED
    BY <2>2, <2>3, <2>4 DEF ExitInv
<1>2. ASSUME ExitInv, Atexit PROVE ExitInv'
  <2>1. UNCHANGED <<stack, legacy, finisher, asked>>
    BY <1>2 DEF Atexit
  <2>2. atexit_funcs' \in Seq(Handler) /\ Len(atexit_funcs') <= ATEXIT_MAX
    <3>1. atexit_funcs \in Seq(Handler) /\ Len(atexit_funcs) <= ATEXIT_MAX
      BY <1>2 DEF ExitInv, ExitTypeOK
    <3>2. CASE UNCHANGED atexit_funcs
      BY <3>1, <3>2
    <3>3. CASE HasRoom /\ \E h \in Handler : atexit_funcs' = Append(atexit_funcs, h)
      BY <3>1, <3>3, Names DEF HasRoom
    <3> QED
      BY <1>2, <3>2, <3>3 DEF Atexit
  <2> QED
    BY <1>2, <2>1, <2>2 DEF ExitInv, ExitTypeOK, FramesInv, DevicesInv, Top
<1>3. ASSUME ExitInv, Exit PROVE ExitInv'
  <2>1. PICK c \in Code : InProgram /\ Ask("exit", c, Frame("do_exit", c))
    BY <1>3 DEF Exit
  <2> QED
    BY <1>3, <2>1, AskStep
<1>4. ASSUME ExitInv, Abort PROVE ExitInv'
  BY <1>4, AskStep DEF Abort
<1>5. ASSUME ExitInv, MainReturns PROVE ExitInv'
  <2>1. PICK c \in Code : Top.fn = "main" /\ Ask("return", c, Frame("linx_exit", c))
    BY <1>5 DEF MainReturns
  <2> QED
    BY <1>5, <2>1, AskStep DEF InProgram
<1>6. ASSUME ExitInv, HandlerReturns PROVE ExitInv'
  <2>1. /\ Len(stack) >= 2 /\ stack[Len(stack) - 1].fn = "do_exit"
        /\ stack[Len(stack) - 1].code = asked.code
    BY <1>6 DEF HandlerReturns, ExitInv, FramesInv
  <2>2. stack' \in Seq(Frames) /\ stack' # <<>> /\ Top' = stack[Len(stack) - 1]
    BY <1>6, <2>1, Popped DEF HandlerReturns, ExitInv, Top
  <2>3. legacy = <<>> /\ finisher = <<>>
    BY <1>6, Names DEF HandlerReturns, ExitInv, DevicesInv
  <2>4. UNCHANGED <<atexit_funcs, legacy, finisher, asked>>
    BY <1>6 DEF HandlerReturns
  <2>5. ExitTypeOK'
    BY <1>6, <2>2, <2>4 DEF ExitInv, ExitTypeOK
  <2>6. FramesInv'
    BY <2>1, <2>2, <2>4, Names DEF FramesInv
  <2>7. DevicesInv'
    BY <2>3, <2>4 DEF DevicesInv
  <2> QED
    BY <2>5, <2>6, <2>7 DEF ExitInv
<1>7. ASSUME ExitInv, RunHandler PROVE ExitInv'
  <2> DEFINE f == Frame(Taken.fn, 0)
  <2>1. /\ atexit_funcs \in Seq(Handler) /\ Len(atexit_funcs) <= ATEXIT_MAX
        /\ Len(atexit_funcs) \in Nat \ {0}
    BY <1>7 DEF RunHandler, ExitInv, ExitTypeOK
  <2>2. Taken.fn \in Handler /\ Taken.rest \in Seq(Handler) /\ Len(Taken.rest) <= ATEXIT_MAX
    BY <2>1, Names DEF Taken
  <2>3. f \in Frames /\ f.fn \in Handler
    BY <2>2 DEF Frame, Frames
  <2>4. /\ stack' \in Seq(Frames) /\ stack' # <<>> /\ Len(stack') >= 2
        /\ stack'[Len(stack')] = f /\ stack'[Len(stack') - 1] = Top
    BY <1>7, <2>3, Pushed DEF RunHandler, ExitInv
  <2>5. atexit_funcs' = Taken.rest /\ UNCHANGED <<legacy, finisher, asked>>
        /\ Top.fn = "do_exit"
    BY <1>7 DEF RunHandler
  <2>6. ExitTypeOK'
    BY <1>7, <2>2, <2>4, <2>5 DEF ExitInv, ExitTypeOK
  <2>7. FramesInv'
    BY <1>7, <2>3, <2>4, <2>5, Names DEF ExitInv, FramesInv, Top
  <2>8. DevicesInv'
    BY <1>7, <2>5 DEF ExitInv, DevicesInv
  <2> QED
    BY <2>6, <2>7, <2>8 DEF ExitInv
<1>8. ASSUME ExitInv, LeaveLoop PROVE ExitInv'
  <2> DEFINE f == Frame("linx_exit", Top.code)
  <2>1. Top \in Frames /\ Top.fn = "do_exit"
    BY <1>8 DEF LeaveLoop, ExitInv, ExitTypeOK, Top
  <2>2. f \in Frames /\ f.fn = "linx_exit" /\ f.code = Top.code
    BY <2>1 DEF Frame, Frames
  <2>3. stack' \in Seq(Frames) /\ stack' # <<>> /\ Top' = f
    BY <1>8, <2>2, Replaced DEF LeaveLoop, ExitInv, Top
  <2>4. UNCHANGED <<atexit_funcs, legacy, finisher, asked>>
    BY <1>8 DEF LeaveLoop
  <2>5. ExitTypeOK'
    BY <1>8, <2>3, <2>4 DEF ExitInv, ExitTypeOK
  <2>6. FramesInv'
    BY <1>8, <2>1, <2>2, <2>3, <2>4, Names DEF ExitInv, FramesInv
  <2>7. DevicesInv'
    BY <1>8, <2>2, <2>3, <2>4 DEF ExitInv, DevicesInv
  <2> QED
    BY <2>5, <2>6, <2>7 DEF ExitInv
<1>9. ASSUME ExitInv, StoreLegacy PROVE ExitInv'
  <2>1. legacy' = <<asked.code % (Half * Half)>> /\ Top.fn = "linx_exit"
    BY <1>9 DEF StoreLegacy, ExitInv, FramesInv
  <2>2. UNCHANGED <<atexit_funcs, stack, finisher, asked>>
    BY <1>9 DEF StoreLegacy
  <2>3. ExitTypeOK'
    BY <1>9, <2>1, <2>2 DEF StoreLegacy, ExitInv, ExitTypeOK, DevicesInv
  <2> QED
    BY <1>9, <2>1, <2>2, <2>3 DEF ExitInv, FramesInv, DevicesInv, Top
<1>10. ASSUME ExitInv, StoreFinisher PROVE ExitInv'
  <2>1. finisher' = <<FinisherWord(asked.code)>> /\ Top.fn = "linx_exit" /\ legacy # <<>>
    BY <1>10 DEF StoreFinisher, ExitInv, FramesInv
  <2>2. UNCHANGED <<atexit_funcs, stack, legacy, asked>>
    BY <1>10 DEF StoreFinisher
  <2>3. ExitTypeOK'
    BY <1>10, <2>1, <2>2 DEF ExitInv, ExitTypeOK, DevicesInv
  <2>4. DevicesInv'
    BY <1>10, <2>1, <2>2 DEF ExitInv, DevicesInv, Top, FinisherWord
  <2> QED
    BY <1>10, <2>2, <2>3, <2>4 DEF ExitInv, FramesInv, Top
<1>11. ASSUME ExitInv, UNCHANGED exitVars PROVE ExitInv'
  BY <1>11 DEF exitVars, ExitInv, ExitTypeOK, FramesInv, DevicesInv, Top, FinisherWord
<1> QED
  BY <1>1, <1>2, <1>3, <1>4, <1>5, <1>6, <1>7, <1>8, <1>9, <1>10, <1>11
  DEF ExitNext, InExit, Spin

LEMMA ExitInvHolds == ExitSpec => []ExitInv
  BY ExitInductive, PTL DEF ExitSpec

(* The table of handlers stays within its size, also while handlers that    *)
(* run register others, and the stack of frames is never empty.             *)
THEOREM ExitTypesHold == ExitSpec => []ExitTypeOK
<1>1. ExitInv => ExitTypeOK
  BY DEF ExitInv
<1> QED
  BY <1>1, ExitInvHolds, PTL

(* Both devices are told the code of the latest request, however deeply     *)
(* exit is called within handlers, and PASS is written for 0 alone.         *)
THEOREM FinisherIsTold == ExitSpec => []StatusOfLatestRequest
<1>1. ExitInv => StatusOfLatestRequest
  BY DEF ExitInv, DevicesInv, StatusOfLatestRequest, FinisherWord, PASS, FAIL
<1> QED
  BY <1>1, ExitInvHolds, PTL

-----------------------------------------------------------------------------
(* What an entry of the log adds to the handlers standing, and the sums of  *)
(* it from entry i on, as Excess defines them.                              *)
EntryWorth(l, k) == IF l[k].what = "accept" THEN 1 ELSE -1

AreSums(l, i, j, n) ==
  n = [k \in i - 1 .. j |-> IF k < i THEN 0 ELSE n[k - 1] + EntryWorth(l, k)]

Net(l, i, j) == (CHOOSE n : AreSums(l, i, j, n))[j]

SameEntries(l, o, i, j) == \A k \in i .. j : l[k] = o[k]

(* A set of naturals that is not empty has a least one.                     *)
LEMMA NoneBelow ==
  ASSUME NEW T \in SUBSET Nat, T # {}
  PROVE  \E x \in T : \A y \in T : ~(y < x)
<1>1. PICK x \in T : \A y \in T : ~(<<y, x>> \in OpToRel(<, Nat))
  BY NatLessThanWellFounded, WFMin
<1>2. ASSUME NEW y \in T PROVE ~(y < x)
  BY <1>1, <1>2 DEF OpToRel
<1> QED
  BY <1>1, <1>2

LEMMA ExcessIsNet ==
  ASSUME NEW i, NEW j
  PROVE  Excess(i, j) = Net(log, i, j)
BY DEF Excess, Net, AreSums, EntryWorth

LEMMA SumsExist ==
  ASSUME NEW l, NEW i \in Nat, NEW j \in Int, i - 1 <= j
  PROVE  \E n : AreSums(l, i, j, n)
<1> DEFINE Bad == {m \in Nat : ~(\E n : AreSums(l, i, i - 1 + m, n))}
<1>1. SUFFICES Bad = {}
  <2>1. j - (i - 1) \in Nat /\ i - 1 + (j - (i - 1)) = j
    OBVIOUS
  <2> QED
    BY <1>1, <2>1
<1>2. ASSUME NEW m \in Bad, \A y \in Bad : ~(y < m) PROVE FALSE
  <2>1. m \in Nat /\ ~(\E n : AreSums(l, i, i - 1 + m, n))
    OBVIOUS
  <2>2. CASE m = 0
    <3> DEFINE n == [k \in i - 1 .. i - 1 + m |-> 0]
    <3>1. \A k \in i - 1 .. i - 1 + m : k < i
      BY <2>2
    <3>2. AreSums(l, i, i - 1 + m, n)
      BY <3>1 DEF AreSums
    <3> QED
      BY <2>1, <3>2
  <2>3. CASE m # 0
    <3>1. m - 1 \in Nat /\ m - 1 < m
      BY <2>1, <2>3
    <3>2. m - 1 \notin Bad
      BY <1>2, <3>1
    <3>3. PICK e : AreSums(l, i, i - 1 + (m - 1), e)
      BY <3>1, <3>2
    <3> DEFINE top == i - 1 + m
               n == [k \in i - 1 .. top |-> IF k = top THEN e[top - 1] + EntryWorth(l, top) ELSE e[k]]
    <3>4. top \in Int /\ i - 1 <= top - 1 /\ i - 1 + (m - 1) = top - 1
      BY <2>1, <3>1
    <3>5. \A k \in i - 1 .. top - 1 : e[k] = IF k < i THEN 0 ELSE e[k - 1] + EntryWorth(l, k)
      BY <3>3, <3>4 DEF AreSums
    <3>6. \A k \in i - 1 .. top : n[k] = IF k < i THEN 0 ELSE n[k - 1] + EntryWorth(l, k)
      <4> TAKE k \in i - 1 .. top
      <4>1. CASE k = top
        BY <3>4, <4>1
      <4>2. CASE k # top
        <5>1. k \in i - 1 .. top - 1 /\ n[k] = e[k]
          BY <3>4, <4>2
        <5>2. k < i \/ n[k - 1] = e[k - 1]
          BY <3>4, <4>2
        <5> QED
          BY <3>5, <5>1, <5>2
      <4> QED
        BY <4>1, <4>2
    <3>7. AreSums(l, i, top, n)
      BY <3>6 DEF AreSums
    <3> QED
      BY <2>1, <3>7
  <2> QED
    BY <2>2, <2>3
<1> HIDE DEF Bad
<1>3. Bad \in SUBSET Nat
  BY DEF Bad
<1> QED
  BY <1>2, <1>3, NoneBelow

(* The sums to k depend on the entries from i to k alone.                   *)
LEMMA SumsAgree ==
  ASSUME NEW l, NEW o, NEW i \in Nat, NEW j \in Int, NEW top \in Int, top <= j,
         NEW n, NEW e, AreSums(l, i, j, n), AreSums(o, i, top, e),
         SameEntries(l, o, i, top)
  PROVE  \A k \in i - 1 .. top : n[k] = e[k] /\ n[k] \in Int
<1> DEFINE Bad == {m \in Nat : /\ i - 1 + m <= top
                                /\ ~(n[i - 1 + m] = e[i - 1 + m] /\ n[i - 1 + m] \in Int)}
<1>1. SUFFICES Bad = {}
  <2> TAKE k \in i - 1 .. top
  <2> DEFINE m == k - (i - 1)
  <2>1. m \in Nat /\ i - 1 + m = k /\ k <= top
    OBVIOUS
  <2>2. m \notin Bad
    BY <1>1
  <2> HIDE DEF m
  <2> QED
    BY <2>1, <2>2
<1>2. ASSUME NEW m \in Bad, \A y \in Bad : ~(y < m) PROVE FALSE
  <2> DEFINE k == i - 1 + m
  <2>1. m \in Nat /\ k \in i - 1 .. top /\ ~(n[k] = e[k] /\ n[k] \in Int)
    OBVIOUS
  <2>2. /\ n[k] = IF k < i THEN 0 ELSE n[k - 1] + EntryWorth(l, k)
        /\ e[k] = IF k < i THEN 0 ELSE e[k - 1] + EntryWorth(o, k)
    BY <2>1 DEF AreSums
  <2>3. CASE m = 0
    <3>1. k < i
      BY <2>3
    <3> QED
      BY <2>1, <2>2, <3>1
  <2>4. CASE m # 0
    <3>1. m - 1 \in Nat /\ m - 1 < m /\ i - 1 + (m - 1) = k - 1 /\ k \in i .. top
      BY <2>1, <2>4
    <3>2. n[k - 1] = e[k - 1] /\ n[k - 1] \in Int
      BY <1>2, <3>1
    <3>3. EntryWorth(l, k) = EntryWorth(o, k) /\ EntryWorth(l, k) \in Int
      BY <3>1 DEF EntryWorth, SameEntries
    <3> QED
      BY <2>1, <2>2, <3>1, <3>2, <3>3
  <2> QED
    BY <2>3, <2>4
<1> HIDE DEF Bad
<1>3. Bad \in SUBSET Nat
  BY DEF Bad
<1> QED
  BY <1>2, <1>3, NoneBelow

LEMMA NetIsSums ==
  ASSUME NEW l, NEW i \in Nat, NEW j \in Int, i - 1 <= j
  PROVE  \E n : AreSums(l, i, j, n) /\ Net(l, i, j) = n[j]
<1>1. AreSums(l, i, j, CHOOSE n : AreSums(l, i, j, n))
  BY SumsExist
<1> QED
  BY <1>1 DEF Net

LEMMA NetAgrees ==
  ASSUME NEW l, NEW o, NEW i \in Nat, NEW j \in Int, i - 1 <= j,
         SameEntries(l, o, i, j)
  PROVE  Net(l, i, j) = Net(o, i, j) /\ Net(l, i, j) \in Int
<1>1. PICK n : AreSums(l, i, j, n) /\ Net(l, i, j) = n[j]
  BY NetIsSums
<1>2. PICK e : AreSums(o, i, j, e) /\ Net(o, i, j) = e[j]
  BY NetIsSums
<1>3. \A k \in i - 1 .. j : n[k] = e[k] /\ n[k] \in Int
  <2>1. /\ j \in Int /\ j <= j
        /\ AreSums(l, i, j, n) /\ AreSums(o, i, j, e)
        /\ SameEntries(l, o, i, j)
    BY <1>1, <1>2
  <2> QED
    BY <2>1, SumsAgree
<1> QED
  BY <1>1, <1>2, <1>3

LEMMA NetIsInt ==
  ASSUME NEW l, NEW i \in Nat, NEW j \in Int, i - 1 <= j
  PROVE  Net(l, i, j) \in Int
BY NetAgrees DEF SameEntries

LEMMA NetStart ==
  ASSUME NEW l, NEW i \in Nat
  PROVE  Net(l, i, i - 1) = 0
<1>1. PICK n : AreSums(l, i, i - 1, n) /\ Net(l, i, i - 1) = n[i - 1]
  BY NetIsSums
<1>2. i - 1 \in i - 1 .. i - 1 /\ i - 1 < i
  OBVIOUS
<1>3. n[i - 1] = 0
  BY <1>1, <1>2 DEF AreSums
<1> QED
  BY <1>1, <1>3

LEMMA NetStep ==
  ASSUME NEW l, NEW i \in Nat, NEW j \in Int, i <= j
  PROVE  Net(l, i, j) = Net(l, i, j - 1) + EntryWorth(l, j)
<1>1. PICK n : AreSums(l, i, j, n) /\ Net(l, i, j) = n[j]
  BY NetIsSums
<1>2. PICK e : AreSums(l, i, j - 1, e) /\ Net(l, i, j - 1) = e[j - 1]
  BY NetIsSums
<1>3. \A k \in i - 1 .. j - 1 : n[k] = e[k] /\ n[k] \in Int
  <2>1. /\ j - 1 \in Int /\ j - 1 <= j
        /\ AreSums(l, i, j, n) /\ AreSums(l, i, j - 1, e)
        /\ SameEntries(l, l, i, j - 1)
    BY <1>1, <1>2 DEF SameEntries
  <2> QED
    BY <2>1, SumsAgree
<1>4. j \in i - 1 .. j /\ ~(j < i) /\ j - 1 \in i - 1 .. j - 1
  OBVIOUS
<1>5. n[j] = n[j - 1] + EntryWorth(l, j)
  BY <1>1, <1>4 DEF AreSums
<1>6. n[j - 1] = e[j - 1]
  BY <1>3, <1>4
<1> QED
  BY <1>1, <1>2, <1>5, <1>6

(* A sum from i on is the difference of two sums from the beginning.        *)
LEMMA NetSplits ==
  ASSUME NEW l, NEW i \in Nat \ {0}, NEW j \in Int, i - 1 <= j
  PROVE  Net(l, i, j) = Net(l, 1, j) - Net(l, 1, i - 1)
<1> DEFINE Bad == {m \in Nat : ~(Net(l, i, i - 1 + m) = Net(l, 1, i - 1 + m) - Net(l, 1, i - 1))}
<1>1. SUFFICES Bad = {}
  <2>1. j - (i - 1) \in Nat /\ i - 1 + (j - (i - 1)) = j
    OBVIOUS
  <2> QED
    BY <1>1, <2>1
<1>2. ASSUME NEW m \in Bad, \A y \in Bad : ~(y < m) PROVE FALSE
  <2> DEFINE k == i - 1 + m
  <2>1. m \in Nat /\ k \in Int /\ ~(Net(l, i, k) = Net(l, 1, k) - Net(l, 1, i - 1))
    OBVIOUS
  <2>2. Net(l, 1, i - 1) \in Int
    BY NetIsInt
  <2>3. CASE m = 0
    <3>1. k = i - 1
      BY <2>3
    <3>2. Net(l, i, i - 1) = 0
      BY NetStart
    <3> HIDE DEF k
    <3> QED
      BY <2>1, <2>2, <3>1, <3>2
  <2>4. CASE m # 0
    <3>1. m - 1 \in Nat /\ m - 1 < m /\ i - 1 + (m - 1) = k - 1 /\ i <= k /\ 1 <= k /\ 0 <= k - 1
      BY <2>1, <2>4
    <3>2. Net(l, i, k - 1) = Net(l, 1, k - 1) - Net(l, 1, i - 1)
      BY <1>2, <3>1
    <3>3. Net(l, i, k) = Net(l, i, k - 1) + EntryWorth(l, k)
      BY <2>1, <3>1, NetStep
    <3>4. Net(l, 1, k) = Net(l, 1, k - 1) + EntryWorth(l, k)
      BY <2>1, <3>1, NetStep
    <3>5. Net(l, 1, k - 1) \in Int /\ EntryWorth(l, k) \in Int
      BY <2>1, <3>1, NetIsInt DEF EntryWorth
    <3> HIDE DEF k
    <3> QED
      BY <2>1, <2>2, <3>2, <3>3, <3>4, <3>5
  <2> QED
    BY <2>3, <2>4
<1> HIDE DEF Bad
<1>3. Bad \in SUBSET Nat
  BY DEF Bad
<1> QED
  BY <1>2, <1>3, NoneBelow

(* How many handlers stand after k entries of the log.                      *)
Level(k) == Excess(1, k)

(* Entry p of the log registered the handler at place m of the table, and   *)
(* that place has been taken ever since.                                    *)
StandsAt(m, p) ==
  /\ log[p].what = "accept" /\ log[p].fn = atexit_funcs[m]
  /\ Level(p) = m
  /\ \A k \in p .. Len(log) : Level(k) >= m

(* The log explains the table: it counts its entries, and each of them has  *)
(* an entry of its own.                                                     *)
TableInv ==
  /\ log \in Seq([what : {"accept", "run"}, fn : Handler])
  /\ Level(Len(log)) = Len(atexit_funcs)
  /\ \A m \in 1 .. Len(atexit_funcs) : \E p \in 1 .. Len(log) : StandsAt(m, p)

(* LatestRunsFirst in levels: between a registration and the call that      *)
(* undoes it the level comes back to the same and is never below.           *)
OpensAt(i, j) ==
  /\ log[i].what = "accept" /\ log[i].fn = log[j].fn
  /\ Level(j - 1) = Level(i)
  /\ \A k \in i .. j - 1 : Level(k) >= Level(i)

OrderInv ==
  \A j \in DOMAIN log : log[j].what = "run" => \E i \in 1 .. j - 1 : OpensAt(i, j)

(* The loop of __linx_do_exit is left when the table is empty, and nothing  *)
(* of the program runs after that.                                          *)
EmptyInv == Top.fn = "linx_exit" /\ asked.how = "exit" => atexit_funcs = <<>>

LEMMA LevelIsNet ==
  ASSUME NEW k
  PROVE  Level(k) = Net(log, 1, k) /\ Level(k)' = Net(log', 1, k)
BY DEF Level, Excess, Net, AreSums, EntryWorth

LEMMA ExcessInLevels ==
  ASSUME NEW i \in Nat, NEW j \in Int, i <= j
  PROVE  Excess(i + 1, j) = Level(j) - Level(i)
<1>1. Excess(i + 1, j) = Net(log, i + 1, j)
  BY ExcessIsNet
<1>2. i + 1 \in Nat \ {0} /\ (i + 1) - 1 = i
  OBVIOUS
<1>3. Net(log, i + 1, j) = Net(log, 1, j) - Net(log, 1, i)
  BY <1>2, NetSplits
<1> QED
  BY <1>1, <1>3, LevelIsNet

(* The level of no entry is 0. *)
LEMMA LevelStart == Level(0) = 0
<1>1. Net(log, 1, 1 - 1) = 0
  BY NetStart
<1> QED
  BY <1>1, LevelIsNet

(* An entry changes no level before it. *)
LEMMA LevelsAfterEntry ==
  ASSUME NEW S, log \in Seq(S), NEW e, log' = Append(log, e), NEW n, n = Len(log)
  PROVE  /\ \A k \in 0 .. n : Level(k)' = Level(k) /\ Level(k) \in Int
         /\ Level(n + 1)' = Level(n) + (IF e.what = "accept" THEN 1 ELSE -1)
         /\ Len(log') = n + 1 /\ log'[n + 1] = e
         /\ \A k \in 1 .. n : log'[k] = log[k]
<1>1. /\ n \in Nat /\ Len(log') = n + 1 /\ log'[n + 1] = e
      /\ \A k \in 1 .. n : log'[k] = log[k]
  OBVIOUS
<1>2. ASSUME NEW k \in 0 .. n PROVE Level(k)' = Level(k) /\ Level(k) \in Int
  <2>1. SameEntries(log, log', 1, k) /\ k \in Int /\ 1 - 1 <= k
    BY <1>1 DEF SameEntries
  <2>2. Net(log, 1, k) = Net(log', 1, k) /\ Net(log, 1, k) \in Int
    BY <2>1, NetAgrees
  <2> QED
    BY <2>2, LevelIsNet
<1>3. Level(n + 1)' = Level(n) + EntryWorth(log', n + 1)
  <2>1. n + 1 \in Int /\ 1 <= n + 1 /\ (n + 1) - 1 = n /\ n \in 0 .. n
    BY <1>1
  <2>2. Net(log', 1, n + 1) = Net(log', 1, n) + EntryWorth(log', n + 1)
    BY <2>1, NetStep
  <2>3. Net(log', 1, n) = Net(log, 1, n)
    BY <1>2, <2>1, LevelIsNet
  <2> QED
    BY <2>2, <2>3, LevelIsNet
<1> QED
  BY <1>1, <1>2, <1>3 DEF EntryWorth

LogInv == TableInv /\ OrderInv /\ EmptyInv

(* A handler is registered, or the last one is taken to be run. *)
Registers(e) == e.what = "accept" /\ atexit_funcs' = Append(atexit_funcs, e.fn)
TakesLast(e) ==
  /\ e.what = "run" /\ atexit_funcs # <<>>
  /\ e.fn = atexit_funcs[Len(atexit_funcs)]
  /\ atexit_funcs' = SubSeq(atexit_funcs, 1, Len(atexit_funcs) - 1)

LEMMA EntryStep ==
  ASSUME ExitTypeOK, TableInv, OrderInv,
         NEW e \in [what : {"accept", "run"}, fn : Handler], log' = Append(log, e),
         Registers(e) \/ TakesLast(e)
  PROVE  TableInv' /\ OrderInv'
<1> DEFINE Entries == [what : {"accept", "run"}, fn : Handler]
<1>0. PICK c \in Nat, n \in Nat : c = Len(atexit_funcs) /\ n = Len(log)
  <2>1. Len(atexit_funcs) \in Nat /\ Len(log) \in Nat
    BY DEF ExitTypeOK, TableInv
  <2> QED
    BY <2>1
<1>1. atexit_funcs \in Seq(Handler)
  BY DEF ExitTypeOK
<1>2. /\ log \in Seq(Entries)
      /\ Level(n) = c
      /\ \A m \in 1 .. c : \E p \in 1 .. n : StandsAt(m, p)
  BY <1>0 DEF TableInv
<1>3. /\ \A k \in 0 .. n : Level(k)' = Level(k) /\ Level(k) \in Int
      /\ Level(n + 1)' = c + (IF e.what = "accept" THEN 1 ELSE -1)
      /\ Len(log') = n + 1 /\ log'[n + 1] = e
      /\ \A k \in 1 .. n : log'[k] = log[k]
  <2>1. /\ \A k \in 0 .. n : Level(k)' = Level(k) /\ Level(k) \in Int
        /\ Level(n + 1)' = Level(n) + (IF e.what = "accept" THEN 1 ELSE -1)
        /\ Len(log') = n + 1 /\ log'[n + 1] = e
        /\ \A k \in 1 .. n : log'[k] = log[k]
    <3>1. log \in Seq(Entries) /\ log' = Append(log, e) /\ n = Len(log)
      BY <1>0, <1>2
    <3> HIDE DEF Entries
    <3> QED
      BY <3>1, LevelsAfterEntry
  <2> QED
    BY <1>2, <2>1
<1>4. log' \in Seq(Entries)
  BY <1>2
<1>5. PICK d \in Nat : Len(atexit_funcs') = d /\ Level(n + 1)' = d
                       /\ \A m \in 1 .. d : m \in 1 .. c => atexit_funcs'[m] = atexit_funcs[m]
  <2>1. CASE Registers(e)
    <3>1. Len(atexit_funcs') = c + 1 /\ \A m \in 1 .. c : atexit_funcs'[m] = atexit_funcs[m]
      BY <1>0, <1>1, <2>1 DEF Registers
    <3>2. Level(n + 1)' = c + 1
      BY <1>3, <2>1 DEF Registers
    <3> QED
      BY <3>1, <3>2
  <2>2. CASE TakesLast(e)
    <3>1. /\ c - 1 \in Nat /\ Len(atexit_funcs') = c - 1
          /\ \A m \in 1 .. c - 1 : atexit_funcs'[m] = atexit_funcs[m]
      BY <1>0, <1>1, <2>2 DEF TakesLast
    <3>2. e.what # "accept"
      BY <2>2 DEF TakesLast
    <3>3. Level(n + 1)' = c - 1
      BY <1>3, <3>2
    <3> QED
      BY <3>1, <3>3
  <2> QED
    BY <2>1, <2>2
<1>6. ASSUME NEW m \in 1 .. d PROVE \E p \in 1 .. n + 1 : StandsAt(m, p)'
  <2>1. CASE m \in 1 .. c
    <3>1. PICK p \in 1 .. n : StandsAt(m, p)
      BY <1>2, <2>1
    <3>2. /\ log'[p].what = "accept" /\ log'[p].fn = atexit_funcs'[m] /\ Level(p)' = m
      BY <1>3, <1>5, <2>1, <3>1 DEF StandsAt
    <3>3. ASSUME NEW k \in p .. n + 1 PROVE Level(k)' >= m
      <4>1. CASE k = n + 1
        BY <1>5, <4>1
      <4>2. CASE k # n + 1
        <5>1. k \in p .. n /\ k \in 0 .. n
          BY <4>2
        <5> QED
          BY <1>0, <1>3, <3>1, <5>1 DEF StandsAt
      <4> QED
        BY <4>1, <4>2
    <3>4. StandsAt(m, p)'
      BY <1>3, <3>2, <3>3 DEF StandsAt
    <3> QED
      BY <3>4
  <2>2. CASE m \notin 1 .. c
    <3>1. Registers(e)
      <4>1. CASE TakesLast(e)
        <5>1. Len(atexit_funcs') = c - 1
          BY <1>0, <1>1, <4>1 DEF TakesLast
        <5> QED
          BY <1>5, <2>2, <5>1
      <4> QED
        BY <4>1
    <3>2. Len(atexit_funcs') = c + 1 /\ atexit_funcs'[c + 1] = e.fn
      BY <1>0, <1>1, <3>1 DEF Registers
    <3>3. m = c + 1 /\ d = m
      BY <1>5, <2>2, <3>2
    <3>4. log'[n + 1].what = "accept" /\ log'[n + 1].fn = atexit_funcs'[m]
      BY <1>3, <3>1, <3>2, <3>3 DEF Registers
    <3>5. \A k \in n + 1 .. n + 1 : Level(k)' >= m
      BY <1>5, <3>3
    <3>6. StandsAt(m, n + 1)'
      BY <1>3, <1>5, <3>3, <3>4, <3>5 DEF StandsAt
    <3> QED
      BY <3>6
  <2> QED
    BY <2>1, <2>2
<1>7. TableInv'
  <2>1. Level(Len(log))' = Level(n + 1)'
    BY <1>3
  <2> QED
    BY <1>3, <1>4, <1>5, <1>6, <2>1 DEF TableInv
<1>8. ASSUME NEW j \in 1 .. n + 1, log'[j].what = "run"
      PROVE  \E i \in 1 .. j - 1 : OpensAt(i, j)'
  <2>1. PICK i \in 1 .. j - 1 :
          /\ log[i].what = "accept" /\ log[i].fn = log'[j].fn
          /\ Level(j - 1) = Level(i)
          /\ \A k \in i .. j - 1 : Level(k) >= Level(i)
    <3>1. CASE j \in 1 .. n
      <4>1. j \in DOMAIN log /\ log[j] = log'[j]
        BY <1>0, <1>2, <1>3, <3>1
      <4>2. \E i \in 1 .. j - 1 : OpensAt(i, j)
        BY <1>8, <4>1 DEF OrderInv
      <4> QED
        BY <4>1, <4>2 DEF OpensAt
    <3>2. CASE j = n + 1
      <4>1. e.what = "run"
        BY <1>3, <1>8, <3>2
      <4>2. TakesLast(e) /\ c \in 1 .. c /\ e.fn = atexit_funcs[c]
        BY <1>0, <1>1, <4>1 DEF Registers, TakesLast
      <4>3. PICK p \in 1 .. n : StandsAt(c, p)
        BY <1>2, <4>2
      <4>4. /\ log[p].what = "accept" /\ log[p].fn = e.fn /\ Level(p) = c
            /\ \A k \in p .. n : Level(k) >= c
        BY <1>0, <4>2, <4>3 DEF StandsAt
      <4>5. log'[j] = e /\ j - 1 = n
        BY <1>3, <3>2
      <4>6. p \in 1 .. j - 1 /\ Level(j - 1) = Level(p)
        BY <1>2, <4>4, <4>5
      <4>7. \A k \in p .. j - 1 : Level(k) >= Level(p)
        BY <4>4, <4>5
      <4>8. log[p].what = "accept" /\ log[p].fn = log'[j].fn
        BY <4>4, <4>5
      <4> QED
        BY <4>6, <4>7, <4>8
    <3>3. j \in 1 .. n \/ j = n + 1
      OBVIOUS
    <3> QED
      BY <3>1, <3>2, <3>3
  <2>2. i \in 1 .. n /\ j - 1 \in 0 .. n /\ \A k \in i .. j - 1 : k \in 0 .. n
    OBVIOUS
  <2>3. log'[i].what = "accept" /\ log'[i].fn = log'[j].fn
    BY <1>3, <2>1, <2>2
  <2>4. Level(j - 1)' = Level(i)'
    BY <1>3, <2>1, <2>2
  <2>5. \A k \in i .. j - 1 : Level(k)' >= Level(i)'
    BY <1>3, <2>1, <2>2
  <2>6. OpensAt(i, j)'
    BY <2>3, <2>4, <2>5 DEF OpensAt
  <2> QED
    BY <2>6
<1>9. OrderInv'
  BY <1>3, <1>4, <1>8 DEF OrderInv
<1> QED
  BY <1>7, <1>9

(* Steps that leave the log and the table alone. *)
LEMMA QuietStep ==
  ASSUME TableInv, OrderInv, UNCHANGED <<log, atexit_funcs>>
  PROVE  TableInv' /\ OrderInv'
<1>1. ASSUME NEW k PROVE Level(k)' = Level(k)
  BY LevelIsNet
<1>2. Level(Len(log))' = Level(Len(log))
  BY DEF Level, Excess
<1>3. ASSUME NEW m, NEW p, StandsAt(m, p) PROVE StandsAt(m, p)'
  BY <1>1, <1>3 DEF StandsAt
<1>4. ASSUME NEW i, NEW j, OpensAt(i, j) PROVE OpensAt(i, j)'
  BY <1>1, <1>4 DEF OpensAt
<1>5. TableInv'
  BY <1>2, <1>3 DEF TableInv
<1>6. OrderInv'
  BY <1>4 DEF OrderInv
<1> QED
  BY <1>5, <1>6

(* A handler registered in an empty table begins a history.                 *)
LEMMA FirstEntry ==
  ASSUME NEW e \in [what : {"accept", "run"}, fn : Handler], e.what = "accept",
         atexit_funcs' = <<e.fn>>, log' = <<e>>
  PROVE  TableInv' /\ OrderInv'
<1>1. /\ log' \in Seq([what : {"accept", "run"}, fn : Handler])
      /\ Len(log') = 1 /\ log'[1] = e /\ DOMAIN log' = {1}
      /\ Len(atexit_funcs') = 1 /\ atexit_funcs'[1] = e.fn
  OBVIOUS
<1>2. Level(1)' = 1
  <2>1. Net(log', 1, 1) = Net(log', 1, 1 - 1) + EntryWorth(log', 1)
    BY NetStep
  <2>2. Net(log', 1, 1 - 1) = 0
    BY NetStart
  <2>3. EntryWorth(log', 1) = 1
    BY <1>1 DEF EntryWorth
  <2> QED
    BY <2>1, <2>2, <2>3, LevelIsNet
<1>3. StandsAt(1, 1)'
  <2>1. \A k \in 1 .. Len(log') : k = 1
    BY <1>1
  <2> QED
    BY <1>1, <1>2, <2>1 DEF StandsAt
<1>4. TableInv'
  <2>1. Level(Len(log))' = Len(atexit_funcs')
    BY <1>1, <1>2
  <2>2. \A m \in 1 .. Len(atexit_funcs') : m = 1
    BY <1>1
  <2>3. 1 \in 1 .. Len(log')
    BY <1>1
  <2> QED
    BY <1>1, <1>3, <2>1, <2>2, <2>3 DEF TableInv
<1>5. OrderInv'
  BY <1>1 DEF OrderInv
<1> QED
  BY <1>4, <1>5

LEMMA LogInductive ==
  /\ ExitInit => LogInv
  /\ ExitInv /\ LogInv /\ [ExitNext]_exitVars => LogInv'
<1>1. ASSUME ExitInit PROVE LogInv
  <2>1. log = << >> /\ atexit_funcs = << >> /\ asked.how = "none"
    BY <1>1 DEF ExitInit
  <2>2. TableInv
    BY <2>1, LevelStart DEF TableInv
  <2>3. OrderInv
    BY <2>1 DEF OrderInv
  <2> QED
    BY <2>1, <2>2, <2>3 DEF LogInv, EmptyInv
<1>2. ASSUME ExitInv, LogInv, Atexit PROVE LogInv'
  <2>1. Top.fn # "linx_exit" /\ UNCHANGED <<stack, asked>>
    BY <1>2, Names DEF Atexit, InProgram
  <2>2. EmptyInv'
    BY <2>1 DEF EmptyInv, Top
  <2>3. CASE UNCHANGED <<log, atexit_funcs>>
    BY <1>2, <2>2, <2>3, QuietStep DEF LogInv
  <2>4. CASE \E h \in Handler : /\ atexit_funcs' = Append(atexit_funcs, h)
                                /\ log' = Append(Past, [what |-> "accept", fn |-> h])
    <3>1. PICK h \in Handler : /\ atexit_funcs' = Append(atexit_funcs, h)
                               /\ log' = Append(Past, [what |-> "accept", fn |-> h])
      BY <2>4
    <3> DEFINE e == [what |-> "accept", fn |-> h]
    <3>2. e \in [what : {"accept", "run"}, fn : Handler] /\ e.what = "accept" /\ e.fn = h
      OBVIOUS
    <3>3. log' = Append(Past, e)
      BY <3>1
    <3> HIDE DEF e
    <3>4. CASE atexit_funcs = << >>
      <4>1. atexit_funcs' = <<e.fn>> /\ log' = <<e>>
        BY <3>1, <3>2, <3>3, <3>4 DEF Past
      <4> QED
        BY <2>2, <3>2, <4>1, FirstEntry DEF LogInv
    <3>5. CASE atexit_funcs # << >>
      <4>1. Registers(e) /\ log' = Append(log, e)
        BY <3>1, <3>2, <3>3, <3>5 DEF Registers, Past
      <4> QED
        BY <1>2, <2>2, <3>2, <4>1, EntryStep DEF LogInv, ExitInv
    <3> QED
      BY <3>4, <3>5
  <2> QED
    BY <1>2, <2>3, <2>4 DEF Atexit
<1>3. ASSUME ExitInv, LogInv, RunHandler PROVE LogInv'
  <2>1. /\ atexit_funcs \in Seq(Handler) /\ atexit_funcs # << >>
        /\ atexit_funcs' = Taken.rest
        /\ log' = Append(log, [what |-> "run", fn |-> Taken.fn])
    BY <1>3 DEF RunHandler, ExitInv, ExitTypeOK
  <2> DEFINE e == [what |-> "run", fn |-> atexit_funcs[Len(atexit_funcs)]]
  <2>2. /\ e \in [what : {"accept", "run"}, fn : Handler] /\ e.what = "run"
        /\ e.fn = atexit_funcs[Len(atexit_funcs)]
    BY <2>1
  <2>3. TakesLast(e) /\ log' = Append(log, e)
    BY <2>1, <2>2 DEF TakesLast, Taken
  <2>4. EmptyInv'
    <3>1. Top'.fn = Taken.fn /\ Taken.fn \in Handler
      <4>1. Taken.fn \in Handler
        BY <2>1 DEF Taken
      <4>2. Frame(Taken.fn, 0) \in Frames /\ Frame(Taken.fn, 0).fn = Taken.fn
        BY <4>1 DEF Frame, Frames
      <4>3. stack'[Len(stack')] = Frame(Taken.fn, 0)
        BY <1>3, <4>2, Pushed DEF RunHandler, ExitInv
      <4> QED
        BY <4>1, <4>2, <4>3 DEF Top
    <3> QED
      BY <3>1, Names DEF EmptyInv
  <2> HIDE DEF e
  <2> QED
    BY <1>3, <2>2, <2>3, <2>4, EntryStep DEF LogInv, ExitInv
<1>4. ASSUME ExitInv, LogInv, Exit PROVE LogInv'
  <2>1. PICK c \in Code : Ask("exit", c, Frame("do_exit", c))
    BY <1>4 DEF Exit
  <2>2. Frame("do_exit", c) \in Frames /\ Frame("do_exit", c).fn = "do_exit"
    BY DEF Frame, Frames
  <2>3. stack'[Len(stack')] = Frame("do_exit", c) /\ UNCHANGED <<log, atexit_funcs>>
    BY <1>4, <2>1, <2>2, Pushed DEF Ask, ExitInv
  <2>4. EmptyInv'
    BY <2>2, <2>3 DEF EmptyInv, Top
  <2> QED
    BY <1>4, <2>3, <2>4, QuietStep DEF LogInv
<1>5. ASSUME ExitInv, LogInv, Abort \/ MainReturns PROVE LogInv'
  <2>1. asked'.how # "exit" /\ UNCHANGED <<log, atexit_funcs>>
    BY <1>5 DEF Abort, MainReturns, Ask
  <2> QED
    BY <1>5, <2>1, QuietStep DEF LogInv, EmptyInv
<1>6. ASSUME ExitInv, LogInv, HandlerReturns PROVE LogInv'
  <2>1. Len(stack) >= 2 /\ stack[Len(stack) - 1].fn = "do_exit"
    BY <1>6 DEF HandlerReturns, ExitInv, FramesInv
  <2>2. Top' = stack[Len(stack) - 1] /\ UNCHANGED <<log, atexit_funcs>>
    BY <1>6, <2>1, Popped DEF HandlerReturns, ExitInv, Top
  <2> QED
    BY <1>6, <2>1, <2>2, QuietStep DEF LogInv, EmptyInv
<1>7. ASSUME ExitInv, LogInv, LeaveLoop PROVE LogInv'
  <2>1. atexit_funcs = << >> /\ UNCHANGED <<log, atexit_funcs>>
    BY <1>7 DEF LeaveLoop, LoopEnds
  <2> QED
    BY <1>7, <2>1, QuietStep DEF LogInv, EmptyInv
<1>8. ASSUME LogInv, UNCHANGED <<log, atexit_funcs, stack, asked>> PROVE LogInv'
  BY <1>8, QuietStep DEF LogInv, EmptyInv, Top
<1>9. StoreLegacy \/ StoreFinisher \/ Spin \/ UNCHANGED exitVars
        => UNCHANGED <<log, atexit_funcs, stack, asked>>
  BY DEF StoreLegacy, StoreFinisher, Spin, exitVars
<1> QED
  BY <1>1, <1>2, <1>3, <1>4, <1>5, <1>6, <1>7, <1>8, <1>9 DEF ExitNext, InExit

LEMMA LogInvHolds == ExitSpec => [](ExitInv /\ LogInv)
  BY ExitInductive, LogInductive, PTL DEF ExitSpec

(* A handler that is called undoes the latest registration standing, so a   *)
(* registration is run once at most, whatever handlers register or however  *)
(* they end the program meanwhile.                                          *)
THEOREM HandlersRunInReverse == ExitSpec => []LatestRunsFirst
<1>1. ASSUME LogInv PROVE LatestRunsFirst
  <2>1. SUFFICES ASSUME NEW j \in DOMAIN log, log[j].what = "run"
                 PROVE  \E i \in 1 .. j - 1 : Undone(i, j) /\ log[i].fn = log[j].fn
    BY DEF LatestRunsFirst
  <2>2. PICK i \in 1 .. j - 1 : OpensAt(i, j)
    BY <1>1, <2>1 DEF LogInv, OrderInv
  <2>3. j \in Nat
    BY <1>1 DEF LogInv, TableInv
  <2>4. \A k \in i .. j - 1 : Excess(i + 1, k) = Level(k) - Level(i) /\ Level(k) \in Int
    <3>1. ASSUME NEW k \in i .. j - 1
          PROVE  Excess(i + 1, k) = Level(k) - Level(i) /\ Level(k) \in Int
      <4>1. i \in Nat /\ k \in Int /\ i <= k /\ 1 - 1 <= k
        BY <2>3
      <4>2. Net(log, 1, k) \in Int
        BY <4>1, NetIsInt
      <4> QED
        BY <4>1, <4>2, ExcessInLevels, LevelIsNet
    <3> QED
      BY <3>1
  <2>5. i \in i .. j - 1 /\ j - 1 \in i .. j - 1
    BY <2>3
  <2>6. Excess(i + 1, j - 1) = 0
    BY <2>2, <2>4, <2>5 DEF OpensAt
  <2>7. \A k \in i + 1 .. j - 1 : Excess(i + 1, k) >= 0
    <3> TAKE k \in i + 1 .. j - 1
    <3>1. k \in i .. j - 1
      OBVIOUS
    <3>2. Level(k) >= Level(i)
      BY <2>2, <3>1 DEF OpensAt
    <3> QED
      BY <2>4, <2>5, <3>1, <3>2
  <2> QED
    BY <2>2, <2>6, <2>7 DEF Undone, OpensAt
<1> QED
  BY <1>1, LogInvHolds, PTL

(* A program that called exit ends with every registration run, those that  *)
(* handlers made too.                                                       *)
THEOREM HandlersAllRun == ExitSpec => []NoneLeftBehind
<1>1. ASSUME ExitInv, LogInv PROVE NoneLeftBehind
  <2>1. SUFFICES ASSUME finisher # << >>, asked.how = "exit" PROVE Excess(1, Len(log)) = 0
    BY DEF NoneLeftBehind
  <2>2. Top.fn = "linx_exit"
    BY <1>1, <2>1 DEF ExitInv, DevicesInv
  <2>3. atexit_funcs = << >>
    BY <1>1, <2>1, <2>2 DEF LogInv, EmptyInv
  <2>4. Level(Len(log)) = 0
    BY <1>1, <2>3 DEF LogInv, TableInv
  <2> QED
    BY <2>4 DEF Level
<1> QED
  BY <1>1, LogInvHolds, PTL

-----------------------------------------------------------------------------
(* Characters: those that programs print, and those that conversions do.    *)
Figures == {"0", "1", "2", "3", "4", "5", "6", "7", "8", "9", "a", "b", "c", "d", "e", "f",
            "A", "B", "C", "D", "E", "F"}
Glyph == STRING \cup Figures \cup {"x", "X", "-", "+", " "}
Glyphs == Seq(Glyph)

(* A function on 1 to n is a text.                                          *)
LEMMA FunctionIsGlyphs ==
  ASSUME NEW n \in Nat, NEW t \in [1 .. n -> Glyph]
  PROVE  t \in Glyphs /\ Len(t) = n
BY DEF Glyphs

(* A character again and again. *)
LEMMA RepeatIs ==
  ASSUME NEW c \in Glyph, NEW n \in Nat
  PROVE  /\ Repeat(c, n) \in Glyphs /\ Len(Repeat(c, n)) = n
         /\ \A i \in 1 .. n : Repeat(c, n)[i] = c
<1>1. Repeat(c, n) = [i \in 1 .. n |-> c]
  BY DEF Repeat
<1>2. Repeat(c, n) \in [1 .. n -> Glyph]
  BY <1>1
<1> QED
  BY <1>1, <1>2, FunctionIsGlyphs

(* The figures of a table are told apart, and none is another sign.         *)
LEMMA Tables ==
  ASSUME NEW table \in {Lower, Upper}
  PROVE  /\ \A d \in 0 .. 15 : /\ table[d + 1] \in Figures
                               /\ table[d + 1] = "0" <=> d = 0
         /\ \A d, e \in 0 .. 15 : table[d + 1] = table[e + 1] => d = e
<1>1. ASSUME NEW d \in 0 .. 15
      PROVE  d \in {0, 1, 2, 3, 4, 5, 6, 7, 8, 9, 10, 11, 12, 13, 14, 15}
  OBVIOUS
<1>2. CASE table = Lower
  <2>1. ASSUME NEW d \in 0 .. 15 PROVE Lower[d + 1] \in Figures /\ (Lower[d + 1] = "0" <=> d = 0)
    BY <1>1 DEF Lower, Figures
  <2>2. ASSUME NEW d \in 0 .. 15, NEW e \in 0 .. 15, Lower[d + 1] = Lower[e + 1] PROVE d = e
    BY <1>1, <2>2 DEF Lower
  <2> QED
    BY <1>2, <2>1, <2>2
<1>3. CASE table = Upper
  <2>1. ASSUME NEW d \in 0 .. 15 PROVE Upper[d + 1] \in Figures /\ (Upper[d + 1] = "0" <=> d = 0)
    BY <1>1 DEF Upper, Figures
  <2>2. ASSUME NEW d \in 0 .. 15, NEW e \in 0 .. 15, Upper[d + 1] = Upper[e + 1] PROVE d = e
    BY <1>1, <2>2 DEF Upper
  <2> QED
    BY <1>3, <2>1, <2>2
<1> QED
  BY <1>2, <1>3

(* A figure is a character, and none of the other signs.                    *)
LEMMA FiguresAre ==
  ASSUME NEW c \in Figures
  PROVE  c \in Glyph /\ c \notin {" ", "-", "+", "x", "X"}
<1>1. c \in Glyph
  BY DEF Glyph
<1> QED
  BY <1>1 DEF Figures

Bases == {8, 10, 16}

(* A number by one of the bases. *)
LEMMA Divided ==
  ASSUME NEW base \in Bases, NEW n \in Nat
  PROVE  /\ n % base \in 0 .. base - 1 /\ n % base \in 0 .. 15
         /\ n < base => n \in 0 .. 15
         /\ n \div base \in Nat
         /\ n >= base => n \div base >= 1 /\ n \div base < n
         /\ n = (n \div base) * base + (n % base)
<1>1. base \in Nat \ {0} /\ base >= 8 /\ base <= 16
  BY DEF Bases
<1>2. PICK x \in Nat, y \in 0 .. base - 1 : n \div base = x /\ n % base = y /\ n = x * base + y
  BY <1>1, Quotient
<1>3. n < base => n \in 0 .. 15
  BY <1>1
<1>4. ASSUME n >= base PROVE x >= 1 /\ x < n
  <2>1. x # 0
    BY <1>1, <1>2, <1>4
  <2>2. x < x * base /\ x * base \in Nat
    BY <1>1, <2>1
  <2> QED
    BY <1>2, <2>1, <2>2
<1>5. y \in 0 .. 15
  BY <1>1
<1>6. n = (n \div base) * base + (n % base)
  BY <1>2, Zenon
<1>7. n % base \in 0 .. base - 1 /\ n % base \in 0 .. 15
  BY <1>2, <1>5, Zenon
<1>8. n >= base => n \div base >= 1 /\ n \div base < n
  BY <1>2, <1>4, Zenon
<1>9. n \div base \in Nat
  BY <1>2, Zenon
<1> QED
  BY <1>3, <1>6, <1>7, <1>8, <1>9

-----------------------------------------------------------------------------
(* The figures of v, for every v up to n.                                   *)
FiguresUpTo(g, n, base, table) ==
  \A v \in 0 .. n :
    g[v] = IF v < base THEN <<table[v + 1]>> ELSE g[v \div base] \o <<table[(v % base) + 1]>>

(* A number below the base is written with one figure.                      *)
LEMMA OneFigure ==
  ASSUME NEW table \in {Lower, Upper}, NEW d \in 0 .. 15
  PROVE  /\ <<table[d + 1]>> \in Glyphs /\ Len(<<table[d + 1]>>) = 1
         /\ <<table[d + 1]>>[1] = table[d + 1]
<1> DEFINE c == table[d + 1]
<1>1. c \in Glyph
  BY Tables, FiguresAre
<1> HIDE DEF c
<1>2. <<c>> \in Glyphs /\ Len(<<c>>) = 1 /\ <<c>>[1] = c
  BY <1>1 DEF Glyphs
<1> QED
  BY <1>2 DEF c

(* The figures of all numbers up to n can be written down.                  *)
LEMMA FiguresExist ==
  ASSUME NEW base \in Bases, NEW table \in {Lower, Upper}, NEW n \in Nat
  PROVE  \E g \in [0 .. n -> Glyphs] : FiguresUpTo(g, n, base, table)
<1> DEFINE T == {k \in Nat : \E g \in [0 .. k -> Glyphs] : FiguresUpTo(g, k, base, table)}
<1>0. base \in Nat /\ base >= 8
  BY DEF Bases
<1>1. 0 \in T
  <2> DEFINE g == [v \in 0 .. 0 |-> <<table[v + 1]>>]
  <2>1. \A v \in 0 .. 0 : g[v] = <<table[v + 1]>> /\ <<table[v + 1]>> \in Glyphs
    BY OneFigure
  <2>2. g \in [0 .. 0 -> Glyphs]
    BY <2>1
  <2>3. FiguresUpTo(g, 0, base, table)
    BY <1>0, <2>1 DEF FiguresUpTo
  <2> QED
    BY <2>2, <2>3
<1>2. ASSUME NEW k \in Nat, k \in T PROVE k + 1 \in T
  <2>1. PICK g \in [0 .. k -> Glyphs] : FiguresUpTo(g, k, base, table)
    BY <1>2
  <2> DEFINE m == k + 1
             q == m \div base
             r == m % base
             last == IF m < base THEN <<table[m + 1]>> ELSE g[q] \o <<table[r + 1]>>
             h == [v \in 0 .. m |-> IF v = m THEN last ELSE g[v]]
  <2>2. m \in Nat /\ m = k + 1
    OBVIOUS
  <2>3. /\ r \in 0 .. 15 /\ q \in Nat /\ (m < base => m \in 0 .. 15)
        /\ (~(m < base) => q \in 0 .. k)
    <3> HIDE DEF m
    <3>1. /\ m % base \in 0 .. 15 /\ m \div base \in Nat /\ (m < base => m \in 0 .. 15)
          /\ (m >= base => m \div base < m)
      BY <2>2, Divided
    <3> QED
      BY <2>2, <3>1, <1>0
  <2>4. last \in Glyphs
    <3>1. CASE m < base
      BY <2>3, <3>1, OneFigure
    <3>2. CASE ~(m < base)
      <4>1. g[q] \in Glyphs /\ <<table[r + 1]>> \in Glyphs
        <5> HIDE DEF q, r
        <5>1. q \in 0 .. k /\ r \in 0 .. 15
          BY <2>3, <3>2
        <5>2. <<table[r + 1]>> \in Glyphs
          BY <5>1, OneFigure
        <5> QED
          BY <5>1, <5>2
      <4> HIDE DEF q, r
      <4>2. g[q] \o <<table[r + 1]>> \in Glyphs
        BY <4>1 DEF Glyphs
      <4> QED
        BY <3>2, <4>2
    <3> QED
      BY <3>1, <3>2
  <2> HIDE DEF last
  <2>5. h \in [0 .. m -> Glyphs]
    BY <2>2, <2>4
  <2>6. ASSUME NEW v \in 0 .. m
        PROVE  h[v] = IF v < base THEN <<table[v + 1]>> ELSE h[v \div base] \o <<table[(v % base) + 1]>>
    <3>1. CASE v = m
      <4>1. ~(m < base) => h[q] = g[q]
        <5> HIDE DEF q
        <5> QED
          BY <2>2, <2>3
      <4>2. h[m] = last
        OBVIOUS
      <4>3. m < base => last = <<table[m + 1]>>
        BY DEF last
      <4>4. ~(m < base) => last = g[q] \o <<table[r + 1]>>
        BY DEF last
      <4> QED
        BY <3>1, <4>1, <4>2, <4>3, <4>4
    <3>2. CASE v # m
      <4>1. v \in 0 .. k /\ h[v] = g[v]
        BY <3>2, <2>2
      <4>2. ASSUME ~(v < base) PROVE v \div base \in 0 .. k
        <5>1. v \in Nat /\ v >= base /\ v <= k
          BY <4>1, <4>2, <1>0
        <5>2. v \div base \in Nat /\ v \div base < v
          BY <5>1, Divided
        <5> QED
          BY <5>1, <5>2
      <4>3. ~(v < base) => h[v \div base] = g[v \div base]
        BY <4>2, <2>2
      <4> HIDE DEF h
      <4>4. g[v] = IF v < base THEN <<table[v + 1]>> ELSE g[v \div base] \o <<table[(v % base) + 1]>>
        BY <2>1, <4>1 DEF FiguresUpTo
      <4> QED
        BY <4>1, <4>3, <4>4
    <3> QED
      BY <3>1, <3>2
  <2>7. FiguresUpTo(h, m, base, table)
    <3> HIDE DEF h
    <3> QED
      BY <2>6 DEF FiguresUpTo
  <2> HIDE DEF h
  <2> QED
    BY <2>2, <2>5, <2>7
<1> HIDE DEF T
<1>3. Nat \subseteq T
  BY <1>1, <1>2, ByNat, Zenon
<1> QED
  BY <1>3 DEF T

(* Those up to a smaller number are the same.                               *)
LEMMA FiguresAgree ==
  ASSUME NEW base \in Bases, NEW table \in {Lower, Upper}, NEW n \in Nat, NEW m \in Nat,
         NEW g \in [0 .. n -> Glyphs], NEW h \in [0 .. m -> Glyphs],
         FiguresUpTo(g, n, base, table), FiguresUpTo(h, m, base, table)
  PROVE  \A v \in Nat : v <= n /\ v <= m => g[v] = h[v]
<1> DEFINE bad == {v \in Nat : v <= n /\ v <= m /\ g[v] # h[v]}
<1>1. SUFFICES ASSUME bad # {} PROVE FALSE
  OBVIOUS
<1>2. PICK v \in bad : \A w \in bad : v <= w
  BY <1>1, LeastNumber
<1>3. v \in Nat /\ v <= n /\ v <= m /\ g[v] # h[v] /\ base \in Nat
  BY DEF Bases
<1>8. v \in 0 .. n /\ v \in 0 .. m
  BY <1>3
<1>7. /\ g[v] = IF v < base THEN <<table[v + 1]>> ELSE g[v \div base] \o <<table[(v % base) + 1]>>
      /\ h[v] = IF v < base THEN <<table[v + 1]>> ELSE h[v \div base] \o <<table[(v % base) + 1]>>
  BY <1>8 DEF FiguresUpTo
<1>4. ~(v < base) /\ v >= base
  BY <1>3, <1>7
<1>5. v \div base \in Nat /\ v \div base < v
  BY <1>3, <1>4, Divided
<1>6. g[v \div base] = h[v \div base]
  <2> DEFINE q == v \div base
  <2> HIDE DEF q
  <2>1. q \in Nat /\ q < v
    BY <1>5 DEF q
  <2>2. q \notin bad
    BY <1>2, <1>3, <2>1
  <2>3. g[q] = h[q]
    BY <1>3, <2>1, <2>2
  <2> QED
    BY <2>3 DEF q
<1> QED
  BY <1>3, <1>4, <1>6, <1>7

IsDigits(f, base, table) ==
  f = [n \in Nat |-> IF n < base THEN <<table[n + 1]>> ELSE f[n \div base] \o <<table[(n % base) + 1]>>]

(* The function of linx_utoa_rev exists.                                    *)
LEMMA DigitsExist ==
  ASSUME NEW base \in Bases, NEW table \in {Lower, Upper}
  PROVE  \E f \in [Nat -> Glyphs] : IsDigits(f, base, table)
<1> DEFINE G(n) == CHOOSE g \in [0 .. n -> Glyphs] : FiguresUpTo(g, n, base, table)
           f == [n \in Nat |-> G(n)[n]]
<1>1. ASSUME NEW n \in Nat PROVE G(n) \in [0 .. n -> Glyphs] /\ FiguresUpTo(G(n), n, base, table)
  BY FiguresExist
<1> HIDE DEF G
<1>2. f \in [Nat -> Glyphs]
  BY <1>1
<1>3. ASSUME NEW n \in Nat
      PROVE  f[n] = IF n < base THEN <<table[n + 1]>> ELSE f[n \div base] \o <<table[(n % base) + 1]>>
  <2>1. G(n)[n] = IF n < base THEN <<table[n + 1]>> ELSE G(n)[n \div base] \o <<table[(n % base) + 1]>>
    BY <1>1 DEF FiguresUpTo
  <2>2. ASSUME ~(n < base) PROVE G(n)[n \div base] = f[n \div base]
    <3>1. n >= base
      BY <2>2 DEF Bases
    <3>2. n \div base \in Nat /\ n \div base <= n
      BY <3>1, Divided
    <3> DEFINE q == n \div base
    <3> HIDE DEF q
    <3>3. q \in Nat /\ q <= n /\ q <= q
      BY <3>2 DEF q
    <3>4. G(n)[q] = G(q)[q]
      BY <1>1, <3>3, FiguresAgree
    <3>5. f[q] = G(q)[q]
      BY <3>3
    <3> QED
      BY <3>4, <3>5 DEF q
  <2> QED
    BY <2>1, <2>2
<1>4. IsDigits(f, base, table)
  BY <1>3 DEF IsDigits
<1> QED
  BY <1>2, <1>4

(* linx_utoa_rev puts one figure after the other.                           *)
LEMMA DigitsAre ==
  ASSUME NEW base \in Bases, NEW table \in {Lower, Upper}
  PROVE  \E f : \A n \in Nat :
           /\ DigitsOf(n, base, table) = f[n]
           /\ f[n] = IF n < base THEN <<table[n + 1]>> ELSE f[n \div base] \o <<table[(n % base) + 1]>>
<1> DEFINE f == CHOOSE g : IsDigits(g, base, table)
<1>1. IsDigits(f, base, table)
  BY DigitsExist
<1>2. \A n \in Nat : DigitsOf(n, base, table) = f[n]
  BY DEF DigitsOf, IsDigits
<1> HIDE DEF f
<1>3. \A n \in Nat :
        f[n] = IF n < base THEN <<table[n + 1]>> ELSE f[n \div base] \o <<table[(n % base) + 1]>>
  BY <1>1 DEF IsDigits
<1> QED
  BY <1>2, <1>3

-----------------------------------------------------------------------------
(* A text of figures below the base.                                        *)
IsRow(t, base, table) ==
  t \in Glyphs /\ \A i \in 1 .. Len(t) : \E d \in 0 .. base - 1 : table[d + 1] = t[i]

WorthOf(c, table) == CHOOSE d \in 0 .. 15 : table[d + 1] = c

(* a[i] is what the first i figures are worth. *)
Worths(a, t, base, table) ==
  /\ a \in [0 .. Len(t) -> Nat] /\ a[0] = 0
  /\ \A i \in 1 .. Len(t) : a[i] = a[i - 1] * base + WorthOf(t[i], table)

(* The text is read as the number n. *)
Reads(t, n, base, table) ==
  IsRow(t, base, table) /\ \E a : Worths(a, t, base, table) /\ a[Len(t)] = n

(* A figure is worth its place in the table.                                *)
LEMMA WorthIs ==
  ASSUME NEW table \in {Lower, Upper}, NEW d \in 0 .. 15
  PROVE  WorthOf(table[d + 1], table) = d
BY Tables DEF WorthOf

IsValue(a, t, base, table) ==
  a = [i \in 0 .. Len(t) |-> IF i = 0 THEN 0 ELSE a[i - 1] * base + WorthOf(t[i], table)]

(* What is read is the only value there is.                                 *)
LEMMA ReadNumber ==
  ASSUME NEW base \in Bases, NEW table \in {Lower, Upper}, NEW t, NEW n, Reads(t, n, base, table)
  PROVE  NumberOf(t, base, table) = n
<1>1. PICK a : Worths(a, t, base, table) /\ a[Len(t)] = n
  BY DEF Reads
<1>2. t \in Glyphs /\ Len(t) \in Nat
  BY LenProperties DEF Reads, IsRow, Glyphs
<1> DEFINE b == CHOOSE x : IsValue(x, t, base, table)
<1>3. IsValue(a, t, base, table)
  <2>1. ASSUME NEW i \in 0 .. Len(t)
        PROVE  a[i] = IF i = 0 THEN 0 ELSE a[i - 1] * base + WorthOf(t[i], table)
    BY <1>1, <1>2 DEF Worths
  <2> QED
    BY <1>1, <2>1 DEF Worths, IsValue
<1>4. IsValue(b, t, base, table)
  BY <1>3
<1> HIDE DEF b
<1> DEFINE T == {i \in 0 .. Len(t) : b[i] = a[i]}
<1>5. \A i \in 0 .. Len(t) : i \in T
  <2>1. 0 \in T
    BY <1>2, <1>3, <1>4 DEF IsValue
  <2>2. ASSUME NEW i \in 1 .. Len(t), i - 1 \in T PROVE i \in T
    <3>1. i \in 0 .. Len(t) /\ i # 0 /\ b[i - 1] = a[i - 1]
      BY <1>2, <2>2
    <3> QED
      BY <3>1, <1>3, <1>4 DEF IsValue
  <2> HIDE DEF T
  <2> QED
    BY <1>2, <2>1, <2>2, UpTo
<1>6. b[Len(t)] = n
  BY <1>1, <1>2, <1>5
<1>7. \A i \in 1 .. Len(t) : \E d \in 0 .. base - 1 : table[d + 1] = t[i]
  BY DEF Reads, IsRow
<1> QED
  BY <1>6, <1>7 DEF NumberOf, b, IsValue, WorthOf

(* Zeros are worth nothing.                                                 *)
LEMMA ReadsZeros ==
  ASSUME NEW base \in Bases, NEW table \in {Lower, Upper}, NEW k \in Nat
  PROVE  Reads(Repeat("0", k), 0, base, table)
<1> DEFINE t == Repeat("0", k)
           a == [i \in 0 .. k |-> 0]
<1>1. "0" \in Glyph
  BY DEF Glyph, Figures
<1>2. t \in Glyphs /\ Len(t) = k /\ \A i \in 1 .. k : t[i] = "0"
  BY <1>1, RepeatIs
<1>3. table[0 + 1] = "0" /\ 0 \in 0 .. base - 1 /\ 0 \in 0 .. 15
  BY Tables DEF Bases
<1>4. WorthOf("0", table) = 0
  BY <1>3, WorthIs
<1>5. base \in Nat
  BY DEF Bases
<1> HIDE DEF t
<1>6. Worths(a, t, base, table) /\ a[Len(t)] = 0
  BY <1>2, <1>4, <1>5 DEF Worths
<1>7. IsRow(t, base, table)
  BY <1>2, <1>3 DEF IsRow
<1> QED
  BY <1>6, <1>7 DEF Reads, t

(* One more figure.                                                         *)
LEMMA ReadsNext ==
  ASSUME NEW base \in Bases, NEW table \in {Lower, Upper}, NEW t, NEW n \in Nat,
         Reads(t, n, base, table), NEW d \in 0 .. base - 1
  PROVE  Reads(t \o <<table[d + 1]>>, n * base + d, base, table)
<1> DEFINE c == table[d + 1]
           u == t \o <<c>>
           len == Len(t)
<1>1. PICK a : Worths(a, t, base, table) /\ a[Len(t)] = n
  BY DEF Reads
<1>2. t \in Glyphs /\ len \in Nat
  BY LenProperties DEF Reads, IsRow, Glyphs
<1>3. d \in 0 .. 15 /\ base \in Nat
  BY DEF Bases
<1>4. <<c>> \in Glyphs /\ Len(<<c>>) = 1 /\ <<c>>[1] = c
  BY <1>3, OneFigure
<1>5. WorthOf(c, table) = d
  BY <1>3, WorthIs
<1> HIDE DEF c
<1>6. /\ u \in Glyphs /\ Len(u) = len + 1 /\ u[len + 1] = c
      /\ \A i \in 1 .. len : u[i] = t[i]
  BY <1>2, <1>4, ConcatProperties DEF Glyphs
<1> HIDE DEF u
<1> DEFINE b == [i \in 0 .. len + 1 |-> IF i = len + 1 THEN n * base + d ELSE a[i]]
<1>7. n * base + d \in Nat
  BY <1>3
<1>8. a \in [0 .. len -> Nat] /\ a[0] = 0 /\ a[len] = n
      /\ \A i \in 1 .. len : a[i] = a[i - 1] * base + WorthOf(t[i], table)
  BY <1>1 DEF Worths
<1> HIDE DEF len
<1>9. b \in [0 .. len + 1 -> Nat] /\ b[0] = 0 /\ b[len + 1] = n * base + d
  BY <1>2, <1>7, <1>8
<1>10. ASSUME NEW i \in 1 .. len + 1
       PROVE  b[i] = b[i - 1] * base + WorthOf(u[i], table)
  <2>1. CASE i = len + 1
    <3>1. b[i - 1] = n /\ u[i] = c
      BY <1>2, <1>6, <1>8, <2>1
    <3> QED
      BY <1>5, <1>9, <2>1, <3>1
  <2>2. CASE i # len + 1
    <3>1. i \in 1 .. len
      BY <1>2, <2>2
    <3>2. b[i] = a[i] /\ b[i - 1] = a[i - 1] /\ u[i] = t[i]
      BY <1>2, <1>6, <3>1
    <3> HIDE DEF b
    <3> QED
      BY <1>8, <3>1, <3>2
  <2> QED
    BY <2>1, <2>2
<1> HIDE DEF b
<1>11. Worths(b, u, base, table) /\ b[Len(u)] = n * base + d
  BY <1>6, <1>9, <1>10 DEF Worths
<1>12. IsRow(u, base, table)
  <2>1. ASSUME NEW i \in 1 .. Len(u) PROVE \E e \in 0 .. base - 1 : table[e + 1] = u[i]
    <3>1. CASE i = len + 1
      BY <1>6, <3>1 DEF c
    <3>2. CASE i # len + 1
      <4>1. i \in 1 .. len /\ u[i] = t[i]
        BY <1>2, <1>6, <3>2
      <4> QED
        BY <4>1 DEF Reads, IsRow, len
    <3> QED
      BY <3>1, <3>2
  <2> QED
    BY <1>6, <2>1 DEF IsRow
<1> QED
  BY <1>11, <1>12 DEF Reads, u, c

(* The digits of a number, behind any zeros, are read as the number; they   *)
(* begin with a zero only for 0.                                            *)
Figured(v, t, base, table) ==
  /\ t \in Glyphs /\ Len(t) >= 1
  /\ \A k \in Nat : Reads(Repeat("0", k) \o t, v, base, table)
  /\ v = 0 => Len(t) = 1 /\ t[1] = "0"
  /\ v # 0 => t[1] # "0"

(* What linx_utoa_rev writes reads back (stdio.c: linx_utoa_rev).           *)
LEMMA DigitsRead ==
  ASSUME NEW base \in Bases, NEW table \in {Lower, Upper}, NEW v \in Nat
  PROVE  Figured(v, DigitsOf(v, base, table), base, table)
<1>1. PICK f : \A n \in Nat :
           /\ DigitsOf(n, base, table) = f[n]
           /\ f[n] = IF n < base THEN <<table[n + 1]>> ELSE f[n \div base] \o <<table[(n % base) + 1]>>
  BY DigitsAre
<1> DEFINE bad == {n \in Nat : ~Figured(n, f[n], base, table)}
<1>2. SUFFICES ASSUME bad # {} PROVE FALSE
  BY <1>1
<1>3. PICK n \in bad : \A k \in bad : n <= k
  BY <1>2, LeastNumber
<1>4. n \in Nat /\ ~Figured(n, f[n], base, table) /\ base \in Nat /\ base >= 8
  BY DEF Bases
<1>5. "0" \in Glyph
  BY DEF Glyph, Figures
<1>6. CASE n < base
  <2>1. n \in 0 .. 15 /\ n \in 0 .. base - 1 /\ f[n] = <<table[n + 1]>>
    <3>1. n \in 0 .. 15 /\ n \in 0 .. base - 1
      BY <1>4, <1>6, Divided
    <3>2. f[n] = <<table[n + 1]>>
      BY <1>1, <1>4, <1>6
    <3> QED
      BY <3>1, <3>2
  <2> DEFINE t == <<table[n + 1]>>
  <2>2. t \in Glyphs /\ Len(t) = 1 /\ t[1] = table[n + 1]
    BY <2>1, OneFigure
  <2>3. (n # 0 => t[1] # "0") /\ (n = 0 => t[1] = "0")
    BY <2>1, <2>2, Tables
  <2>4. ASSUME NEW k \in Nat PROVE Reads(Repeat("0", k) \o t, n, base, table)
    <3>1. Reads(Repeat("0", k) \o t, 0 * base + n, base, table)
      BY <2>1, ReadsZeros, ReadsNext
    <3>2. 0 * base + n = n
      BY <1>4
    <3> QED
      BY <3>1, <3>2
  <2> HIDE DEF t
  <2>5. Figured(n, t, base, table)
    BY <2>2, <2>3, <2>4 DEF Figured
  <2> QED
    BY <1>4, <2>1, <2>5 DEF t
<1>7. CASE ~(n < base)
  <2> DEFINE q == n \div base
             r == n % base
             t == f[q]
             c == <<table[r + 1]>>
  <2>1. /\ r \in 0 .. base - 1 /\ r \in 0 .. 15 /\ q \in Nat /\ q >= 1 /\ q < n
        /\ n = q * base + r
    BY <1>4, <1>7, Divided
  <2>2. f[n] = t \o c
    BY <1>1, <1>4, <1>7
  <2>3. c \in Glyphs /\ Len(c) = 1
    BY <2>1, OneFigure
  <2> HIDE DEF q, r, c
  <2>4. Figured(q, t, base, table)
    BY <1>3, <1>4, <2>1
  <2> HIDE DEF t
  <2>5. t \in Glyphs /\ Len(t) \in Nat /\ Len(t) >= 1 /\ t[1] # "0"
    BY <2>1, <2>4, LenProperties DEF Figured, Glyphs
  <2>6. t \o c \in Glyphs /\ Len(t \o c) >= 1 /\ (t \o c)[1] = t[1]
    BY <2>3, <2>5, ConcatProperties DEF Glyphs
  <2>7. ASSUME NEW k \in Nat PROVE Reads(Repeat("0", k) \o (t \o c), n, base, table)
    <3>1. Reads(Repeat("0", k) \o t, q, base, table)
      BY <2>4 DEF Figured
    <3>2. Reads((Repeat("0", k) \o t) \o c, n, base, table)
      BY <2>1, <3>1, ReadsNext DEF c
    <3>3. Repeat("0", k) \in Glyphs
      BY <1>5, RepeatIs
    <3> DEFINE z == Repeat("0", k)
    <3>4. z \in Seq(Glyph) /\ t \in Seq(Glyph) /\ c \in Seq(Glyph)
      BY <2>3, <2>5, <3>3 DEF Glyphs
    <3> HIDE DEF z
    <3>5. (z \o t) \o c = z \o (t \o c)
      BY <3>4, ConcatAssociative
    <3> QED
      BY <3>2, <3>5 DEF z
  <2>8. n # 0
    BY <1>4, <1>7
  <2>9. Figured(n, t \o c, base, table)
    BY <2>5, <2>6, <2>7, <2>8 DEF Figured
  <2> QED
    BY <1>4, <2>2, <2>9
<1> QED
  BY <1>6, <1>7

-----------------------------------------------------------------------------
(* t is w, which has no spaces, with a spaces before it and b after it.     *)
Spaced(t, a, w, b) ==
  /\ t \in Glyphs /\ w \in Glyphs /\ a \in Nat /\ b \in Nat
  /\ Len(w) \in Nat /\ Len(t) = a + Len(w) + b
  /\ \A i \in 1 .. a : t[i] = Blank
  /\ \A i \in 1 .. Len(w) : t[a + i] = w[i] /\ w[i] # Blank
  /\ \A i \in 1 .. b : t[a + Len(w) + i] = Blank

(* Spaces put around a text.                                                *)
LEMMA SpacedIs ==
  ASSUME NEW a \in Nat, NEW b \in Nat, NEW w \in Glyphs, \A i \in 1 .. Len(w) : w[i] # Blank
  PROVE  Spaced(Repeat(Blank, a) \o w \o Repeat(Blank, b), a, w, b)
<1> DEFINE x == Repeat(Blank, a)
           y == Repeat(Blank, b)
           t == x \o w \o y
<1>1. Blank \in Glyph
  BY DEF Glyph, Blank
<1>2. /\ x \in Seq(Glyph) /\ Len(x) = a /\ \A i \in 1 .. a : x[i] = Blank
      /\ y \in Seq(Glyph) /\ Len(y) = b /\ \A i \in 1 .. b : y[i] = Blank
  BY <1>1, RepeatIs DEF Glyphs
<1>3. w \in Seq(Glyph) /\ Len(w) \in Nat
  BY LenProperties DEF Glyphs
<1> HIDE DEF x, y
<1>4. /\ x \o w \in Seq(Glyph) /\ Len(x \o w) = a + Len(w)
      /\ \A i \in 1 .. a + Len(w) : (x \o w)[i] = IF i <= a THEN x[i] ELSE w[i - a]
  BY <1>2, <1>3, ConcatProperties
<1> DEFINE u == x \o w
           len == Len(w)
<1>10. u \in Seq(Glyph) /\ Len(u) = a + len /\ len \in Nat /\ t = u \o y
  BY <1>3, <1>4
<1>11. /\ t \in Seq(Glyph) /\ Len(t) = Len(u) + Len(y)
       /\ \A i \in 1 .. Len(u) + Len(y) : t[i] = IF i <= Len(u) THEN u[i] ELSE y[i - Len(u)]
  <2> HIDE DEF u, t
  <2> QED
    BY <1>2, <1>10, ConcatProperties
<1>5. /\ t \in Seq(Glyph) /\ Len(t) = a + Len(w) + b
      /\ \A i \in 1 .. a + Len(w) + b :
           t[i] = IF i <= a + Len(w) THEN (x \o w)[i] ELSE y[i - (a + Len(w))]
  <2> HIDE DEF t
  <2> QED
    BY <1>2, <1>10, <1>11
<1> HIDE DEF u, len
<1> HIDE DEF t
<1>6. ASSUME NEW i \in 1 .. a PROVE t[i] = Blank
  <2>1. i \in 1 .. a + Len(w) /\ i \in 1 .. a + Len(w) + b /\ i <= a + Len(w)
    BY <1>3
  <2> QED
    BY <1>2, <1>4, <1>5, <2>1
<1>7. ASSUME NEW i \in 1 .. Len(w) PROVE t[a + i] = w[i]
  <2>1. a + i \in 1 .. a + Len(w) /\ a + i \in 1 .. a + Len(w) + b /\ a + i <= a + Len(w)
        /\ ~(a + i <= a) /\ (a + i) - a = i
    BY <1>3
  <2> QED
    BY <1>4, <1>5, <2>1
<1>8. ASSUME NEW i \in 1 .. b PROVE t[a + Len(w) + i] = Blank
  <2>1. a + Len(w) + i \in 1 .. a + Len(w) + b /\ ~(a + Len(w) + i <= a + Len(w))
        /\ (a + Len(w) + i) - (a + Len(w)) = i
    BY <1>3
  <2> QED
    BY <1>2, <1>5, <2>1
<1>9. Spaced(t, a, w, b)
  BY <1>3, <1>5, <1>6, <1>7, <1>8 DEF Spaced, Glyphs
<1> QED
  BY <1>9 DEF t, x, y

(* The spaces are what Core takes away.                                     *)
LEMMA CoreIs ==
  ASSUME NEW t, NEW a, NEW w, NEW b, Spaced(t, a, w, b)
  PROVE  Core(t) = w
<1> DEFINE inner == {i \in 1 .. Len(t) : t[i] # Blank}
           first == CHOOSE i \in inner : \A j \in inner : i <= j
           last == CHOOSE i \in inner : \A j \in inner : j <= i
           len == Len(w)
<1>1. a \in Nat /\ b \in Nat /\ len \in Nat /\ Len(t) = a + len + b
  BY DEF Spaced
<1>2. /\ \A i \in 1 .. a : t[i] = Blank
      /\ \A i \in 1 .. len : t[a + i] = w[i] /\ w[i] # Blank
      /\ \A i \in 1 .. b : t[a + len + i] = Blank
  BY DEF Spaced
<1> HIDE DEF len
<1>3. inner = {i \in 1 .. Len(t) : a < i /\ i <= a + len}
  <2>1. ASSUME NEW i \in 1 .. Len(t), i <= a PROVE t[i] = Blank
    BY <1>1, <1>2, <2>1
  <2>2. ASSUME NEW i \in 1 .. Len(t), a < i, i <= a + len PROVE t[i] # Blank
    <3>1. i - a \in 1 .. len /\ a + (i - a) = i
      BY <1>1, <2>2
    <3> QED
      BY <1>2, <3>1
  <2>3. ASSUME NEW i \in 1 .. Len(t), a + len < i PROVE t[i] = Blank
    <3>1. i - (a + len) \in 1 .. b /\ a + len + (i - (a + len)) = i
      BY <1>1, <2>3
    <3> QED
      BY <1>2, <3>1
  <2>4. ASSUME NEW i \in 1 .. Len(t) PROVE t[i] # Blank <=> a < i /\ i <= a + len
    BY <1>1, <2>1, <2>2, <2>3
  <2> QED
    BY <2>4
<1>4. CASE len = 0
  <2>1. inner = {}
    BY <1>1, <1>3, <1>4
  <2>2. Core(t) = <<>>
    BY <2>1 DEF Core
  <2>3. w = <<>>
    BY <1>4, EmptySeq DEF Spaced, Glyphs, len
  <2> QED
    BY <2>2, <2>3
<1>5. CASE len # 0
  <2>1. a + 1 \in inner /\ a + len \in inner
    BY <1>1, <1>3, <1>5
  <2>2. \A j \in inner : a + 1 <= j /\ j <= a + len /\ j \in Int
    BY <1>1, <1>3
  <2>3. Core(t) = SubSeq(t, first, last)
    BY <2>1 DEF Core
  <2> HIDE DEF inner
  <2>4. first = a + 1
    <3>1. first \in inner /\ \A j \in inner : first <= j
      BY <2>1, <2>2
    <3> HIDE DEF first
    <3> QED
      BY <1>1, <2>1, <2>2, <3>1
  <2>5. last = a + len
    <3>1. last \in inner /\ \A j \in inner : j <= last
      BY <2>1, <2>2
    <3> HIDE DEF last
    <3> QED
      BY <1>1, <2>1, <2>2, <3>1
  <2> HIDE DEF first, last
  <2> DEFINE s == SubSeq(t, a + 1, a + len)
  <2>6. \A i \in a + 1 .. a + len : t[i] \in Glyph
    <3>1. ASSUME NEW i \in a + 1 .. a + len PROVE t[i] \in Glyph
      <4>1. i \in 1 .. Len(t) /\ t \in Seq(Glyph)
        BY <1>1 DEF Spaced, Glyphs
      <4> QED
        BY <4>1, ElementOfSeq
    <3> QED
      BY <3>1
  <2>7. /\ s \in Seq(Glyph) /\ Len(s) = len
        /\ \A i \in 1 .. len : s[i] = t[a + i]
    <3>1. /\ s \in Seq(Glyph)
          /\ Len(s) = IF a + 1 <= a + len THEN (a + len) - (a + 1) + 1 ELSE 0
          /\ \A i \in 1 .. (a + len) - (a + 1) + 1 : s[i] = t[(a + 1) + i - 1]
      <4>1. a + 1 \in Int /\ a + len \in Int
        BY <1>1
      <4> QED
        BY <2>6, <4>1, SubSeqProperties
    <3>2. (a + len) - (a + 1) + 1 = len /\ a + 1 <= a + len
      BY <1>1, <1>5
    <3>3. \A i \in 1 .. len : (a + 1) + i - 1 = a + i
      BY <1>1
    <3> HIDE DEF s
    <3> QED
      BY <3>1, <3>2, <3>3
  <2> HIDE DEF s
  <2>8. w \in Seq(Glyph) /\ Len(w) = Len(s) /\ \A i \in 1 .. Len(s) : w[i] = s[i]
    BY <1>2, <2>7 DEF Spaced, Glyphs, len
  <2>9. s = w
    BY <2>7, <2>8, SeqEqual
  <2> QED
    BY <2>3, <2>4, <2>5, <2>9 DEF s
<1> QED
  BY <1>4, <1>5

(* A width, and how much of the spaces before a number stands for its sign. *)
SignSpace(f) == IF SpaceSign(f) THEN 1 ELSE 0

(* The spaces are on the side asked for, and fill the width.                *)
Fills(f, t, a, b) ==
  /\ a >= SignSpace(f)
  /\ IsLeft(f) => a = SignSpace(f)
  /\ ~IsLeft(f) => b = 0
  /\ Len(t) >= Wide(f)
  /\ Len(t) > Wide(f) => a = SignSpace(f) /\ b = 0

(* A field filled like that has the width asked for.                        *)
LEMMA FillsWidth ==
  ASSUME NEW f, NEW t, NEW a, NEW w, NEW b, Spaced(t, a, w, b), Fills(f, t, a, b), Wide(f) \in Int
  PROVE  FitsWidth(f, t)
<1> DEFINE s == SignSpace(f)
           len == Len(w)
           n == Len(t)
<1>1. Core(t) = w
  BY CoreIs
<1>2. /\ a \in Nat /\ b \in Nat /\ len \in Nat /\ n = a + len + b
      /\ \A i \in 1 .. a : t[i] = Blank
      /\ \A i \in 1 .. len : t[a + i] = w[i] /\ w[i] # Blank
      /\ \A i \in 1 .. b : t[a + len + i] = Blank
      /\ (w # <<>> => len # 0)
  BY EmptySeq DEF Spaced, Glyphs
<1>3. s \in {0, 1} /\ (SpaceSign(f) => s = 1) /\ (~SpaceSign(f) => s = 0)
  BY DEF SignSpace
<1>4. /\ a >= s /\ (IsLeft(f) => a = s) /\ (~IsLeft(f) => b = 0)
      /\ n >= Wide(f) /\ (n > Wide(f) => a = s /\ b = 0)
  BY DEF Fills
<1> DEFINE text == IF SpaceSign(f) THEN Len(Core(t)) + 1 ELSE Len(Core(t))
           ahead == IF SpaceSign(f) THEN 2 ELSE 1
<1>5. text = len + s /\ ahead = s + 1
  BY <1>1, <1>2, <1>3
<1> HIDE DEF s, len, n, text, ahead
<1>6. n > Wide(f) => n = text
  BY <1>2, <1>3, <1>4, <1>5
<1>7. n > text => t[IF IsLeft(f) THEN n ELSE 1] = Blank
  <2>1. SUFFICES ASSUME n > text PROVE t[IF IsLeft(f) THEN n ELSE 1] = Blank
    OBVIOUS
  <2>2. a + b > s
    BY <1>2, <1>3, <1>5, <2>1
  <2>3. CASE IsLeft(f)
    <3>1. b \in 1 .. b /\ a + len + b = n
      BY <1>2, <1>3, <1>4, <2>2, <2>3
    <3> QED
      BY <1>2, <2>3, <3>1
  <2>4. CASE ~IsLeft(f)
    <3>1. 1 \in 1 .. a
      BY <1>2, <1>3, <1>4, <2>2, <2>4
    <3> QED
      BY <1>2, <2>4, <3>1
  <2> QED
    BY <2>3, <2>4
<1>8. IsLeft(f) /\ w # <<>> => t[ahead] # Blank
  <2>1. SUFFICES ASSUME IsLeft(f), w # <<>> PROVE t[ahead] # Blank
    OBVIOUS
  <2>2. 1 \in 1 .. len /\ a + 1 = ahead
    BY <1>2, <1>3, <1>4, <1>5, <2>1
  <2> QED
    BY <1>2, <2>2
<1>9. ~IsLeft(f) /\ w # <<>> => t[n] # Blank
  <2>1. SUFFICES ASSUME ~IsLeft(f), w # <<>> PROVE t[n] # Blank
    OBVIOUS
  <2>2. len \in 1 .. len /\ a + len = n
    BY <1>2, <1>4, <2>1
  <2> QED
    BY <1>2, <2>2
<1>10. SpaceSign(f) => Blank \in {t[i] : i \in 1 .. n}
  <2>1. SUFFICES ASSUME SpaceSign(f) PROVE Blank \in {t[i] : i \in 1 .. n}
    OBVIOUS
  <2>2. 1 \in 1 .. a /\ 1 \in 1 .. n
    BY <1>2, <1>3, <1>4, <2>1
  <2> QED
    BY <1>2, <2>2
<1> QED
  BY <1>1, <1>4, <1>6, <1>7, <1>8, <1>9, <1>10 DEF FitsWidth, n, text, ahead

-----------------------------------------------------------------------------
(* Concatenation of texts.                                                  *)
LEMMA Joined ==
  ASSUME NEW x \in Glyphs, NEW y \in Glyphs
  PROVE  /\ x \o y \in Glyphs /\ Len(x) \in Nat /\ Len(y) \in Nat
         /\ Len(x \o y) = Len(x) + Len(y) /\ Len(x \o y) \in Nat
         /\ \A i \in 1 .. Len(x) : (x \o y)[i] = x[i]
         /\ \A i \in 1 .. Len(y) : (x \o y)[Len(x) + i] = y[i]
         /\ x \o <<>> = x /\ <<>> \o y = y
<1>1. x \in Seq(Glyph) /\ y \in Seq(Glyph)
  BY DEF Glyphs
<1>2. Len(x) \in Nat /\ Len(y) \in Nat
  BY <1>1, LenProperties
<1>3. /\ x \o y \in Seq(Glyph) /\ Len(x \o y) = Len(x) + Len(y)
      /\ \A i \in 1 .. Len(x) + Len(y) : (x \o y)[i] = IF i <= Len(x) THEN x[i] ELSE y[i - Len(x)]
  BY <1>1, ConcatProperties
<1> DEFINE n == Len(x)
           m == Len(y)
           z == x \o y
<1>4. /\ n \in Nat /\ m \in Nat
      /\ \A i \in 1 .. n + m : z[i] = IF i <= n THEN x[i] ELSE y[i - n]
  BY <1>2, <1>3
<1> HIDE DEF n, m, z
<1>5. \A i \in 1 .. n : z[i] = x[i]
  BY <1>4
<1>6. ASSUME NEW i \in 1 .. m PROVE z[n + i] = y[i]
  <2>1. n + i \in 1 .. n + m /\ ~(n + i <= n) /\ (n + i) - n = i
    BY <1>4
  <2> QED
    BY <1>4, <2>1
<1>7. x \o <<>> = x /\ <<>> \o y = y
  BY <1>1, ConcatEmptySeq
<1> QED
  BY <1>1, <1>2, <1>3, <1>5, <1>6, <1>7 DEF Glyphs, n, m, z

(* Texts are joined in any order.                                           *)
LEMMA Regrouped ==
  ASSUME NEW x \in Glyphs, NEW y \in Glyphs, NEW z \in Glyphs
  PROVE  (x \o y) \o z = x \o (y \o z)
BY ConcatAssociative DEF Glyphs

(* Texts are the same if their characters are.                              *)
LEMMA SameGlyphs ==
  ASSUME NEW x \in Glyphs, NEW y \in Glyphs, Len(x) = Len(y), \A i \in 1 .. Len(x) : x[i] = y[i]
  PROVE  x = y
BY SeqEqual DEF Glyphs

(* A text of no and of one character.                                       *)
LEMMA OneGlyph ==
  /\ <<>> \in Glyphs
  /\ \A c \in Glyph : <<c>> \in Glyphs
BY DEF Glyphs

(* A character more, before or behind.                                      *)
LEMMA RepeatMore ==
  ASSUME NEW c \in Glyph, NEW n \in Nat
  PROVE  /\ <<c>> \o Repeat(c, n) = Repeat(c, n + 1)
         /\ Repeat(c, n) \o <<c>> = Repeat(c, n + 1)
<1> DEFINE x == Repeat(c, n)
           y == Repeat(c, n + 1)
           o == <<c>>
<1>1. /\ x \in Glyphs /\ Len(x) = n /\ \A i \in 1 .. n : x[i] = c
      /\ y \in Glyphs /\ Len(y) = n + 1 /\ \A i \in 1 .. n + 1 : y[i] = c
  BY RepeatIs
<1>2. o \in Glyphs /\ Len(o) = 1 /\ o[1] = c
  BY DEF Glyphs
<1> HIDE DEF x, y, o
<1>3. /\ o \o x \in Glyphs /\ Len(o \o x) = n + 1
      /\ \A i \in 1 .. n + 1 : (o \o x)[i] = c
  <2>1. /\ o \o x \in Glyphs /\ Len(o \o x) = Len(o) + Len(x)
        /\ \A i \in 1 .. Len(o) : (o \o x)[i] = o[i]
        /\ \A i \in 1 .. Len(x) : (o \o x)[Len(o) + i] = x[i]
    BY <1>1, <1>2, Joined
  <2>2. ASSUME NEW i \in 1 .. n + 1 PROVE (o \o x)[i] = c
    <3>1. CASE i = 1
      BY <1>2, <2>1, <3>1
    <3>2. CASE i # 1
      <4>1. i - 1 \in 1 .. n /\ 1 + (i - 1) = i
        BY <3>2
      <4> QED
        BY <1>1, <1>2, <2>1, <4>1
    <3> QED
      BY <3>1, <3>2
  <2> QED
    BY <1>1, <1>2, <2>1, <2>2
<1>4. /\ x \o o \in Glyphs /\ Len(x \o o) = n + 1
      /\ \A i \in 1 .. n + 1 : (x \o o)[i] = c
  <2>1. /\ x \o o \in Glyphs /\ Len(x \o o) = Len(x) + Len(o)
        /\ \A i \in 1 .. Len(x) : (x \o o)[i] = x[i]
        /\ \A i \in 1 .. Len(o) : (x \o o)[Len(x) + i] = o[i]
    BY <1>1, <1>2, Joined
  <2>2. ASSUME NEW i \in 1 .. n + 1 PROVE (x \o o)[i] = c
    <3>1. CASE i = n + 1
      BY <1>1, <1>2, <2>1, <3>1
    <3>2. CASE i # n + 1
      <4>1. i \in 1 .. n
        BY <3>2
      <4> QED
        BY <1>1, <2>1, <4>1
    <3> QED
      BY <3>1, <3>2
  <2> QED
    BY <1>1, <1>2, <2>1, <2>2
<1>5. o \o x = y /\ x \o o = y
  BY <1>1, <1>3, <1>4, SameGlyphs
<1> QED
  BY <1>5 DEF o, x, y

(* A number is a sign, a mark of its base and a row of figures.             *)
Signs == {<<>>, <<"-">>, <<"+">>}
Marks == {<<>>, <<"0", "x">>, <<"0", "X">>}

(* A sign is one character, or none.                                        *)
LEMMA SignsAre ==
  ASSUME NEW sg \in Signs \cup {<<" ">>}
  PROVE  /\ sg \in Glyphs
         /\ sg # <<>> => Len(sg) = 1 /\ sg[1] \in {"-", "+", " "}
         /\ sg \in Signs /\ sg # <<>> => sg[1] \in {"-", "+"}
         /\ sg = <<>> => Len(sg) = 0
         /\ Len(sg) \in Nat
<1>1. "-" \in Glyph /\ "+" \in Glyph /\ " " \in Glyph
  BY DEF Glyph
<1>2. /\ <<>> \in Glyphs /\ <<"-">> \in Glyphs /\ <<"+">> \in Glyphs /\ <<" ">> \in Glyphs
  BY <1>1, OneGlyph
<1>3. /\ Len(<<>>) = 0 /\ Len(<<"-">>) = 1 /\ Len(<<"+">>) = 1 /\ Len(<<" ">>) = 1
      /\ <<"-">>[1] = "-" /\ <<"+">>[1] = "+" /\ <<" ">>[1] = " "
  OBVIOUS
<1>4. CASE sg = <<>>
  BY <1>2, <1>3, <1>4
<1>5. CASE sg = <<"-">>
  BY <1>2, <1>3, <1>5
<1>6. CASE sg = <<"+">>
  BY <1>2, <1>3, <1>6
<1>7. CASE sg = <<" ">>
  <2>1. sg \notin Signs
    BY <1>3, <1>7 DEF Signs
  <2> QED
    BY <1>2, <1>3, <1>7, <2>1
<1> QED
  BY <1>4, <1>5, <1>6, <1>7 DEF Signs

(* A mark is two characters, the first of them 0, or none.                  *)
LEMMA MarksAre ==
  ASSUME NEW mark \in Marks \cup {<<"0">>}
  PROVE  /\ mark \in Glyphs
         /\ mark # <<>> => Len(mark) \in {1, 2} /\ mark[1] = "0"
         /\ mark \in Marks /\ mark # <<>> => Len(mark) = 2 /\ mark[2] \in {"x", "X"}
         /\ mark = <<>> => Len(mark) = 0
         /\ Len(mark) \in Nat
<1>1. "0" \in Glyph /\ "x" \in Glyph /\ "X" \in Glyph
  BY DEF Glyph, Figures
<1>2. /\ <<>> \in Glyphs /\ <<"0", "x">> \in Glyphs /\ <<"0", "X">> \in Glyphs /\ <<"0">> \in Glyphs
  BY <1>1 DEF Glyphs
<1>3. /\ Len(<<>>) = 0 /\ Len(<<"0", "x">>) = 2 /\ Len(<<"0", "X">>) = 2 /\ Len(<<"0">>) = 1
      /\ <<"0", "x">>[1] = "0" /\ <<"0", "X">>[1] = "0" /\ <<"0">>[1] = "0"
      /\ <<"0", "x">>[2] = "x" /\ <<"0", "X">>[2] = "X"
  OBVIOUS
<1>4. CASE mark = <<>>
  BY <1>2, <1>3, <1>4
<1>5. CASE mark = <<"0", "x">>
  BY <1>2, <1>3, <1>5
<1>6. CASE mark = <<"0", "X">>
  BY <1>2, <1>3, <1>6
<1>7. CASE mark = <<"0">>
  <2>1. mark \notin Marks
    BY <1>3, <1>7 DEF Marks
  <2> QED
    BY <1>2, <1>3, <1>7, <2>1
<1> QED
  BY <1>4, <1>5, <1>6, <1>7 DEF Marks

(* A text without its first character.                                      *)
LEMMA TailIs ==
  ASSUME NEW c \in Glyph, NEW u \in Glyphs
  PROVE  Tail(<<c>> \o u) = u
<1> DEFINE o == <<c>>
           t == o \o u
<1>1. o \in Glyphs /\ Len(o) = 1
  BY DEF Glyphs
<1> HIDE DEF o
<1>2. /\ t \in Glyphs /\ Len(u) \in Nat /\ Len(t) = 1 + Len(u)
      /\ \A i \in 1 .. Len(u) : t[1 + i] = u[i]
  <2>1. /\ t \in Glyphs /\ Len(u) \in Nat /\ Len(t) = Len(o) + Len(u)
        /\ \A i \in 1 .. Len(u) : t[Len(o) + i] = u[i]
    BY <1>1, Joined
  <2> HIDE DEF t
  <2> QED
    BY <1>1, <2>1
<1> HIDE DEF t
<1>3. t # <<>>
  <2>1. Len(t) # 0
    BY <1>2
  <2> QED
    BY <2>1, EmptySeq
<1>4. /\ Tail(t) \in Glyphs /\ Len(Tail(t)) = Len(t) - 1
      /\ \A i \in 1 .. Len(Tail(t)) : Tail(t)[i] = t[i + 1]
  BY <1>2, <1>3, HeadTailProperties DEF Glyphs
<1>5. Len(Tail(t)) = Len(u) /\ \A i \in 1 .. Len(u) : Tail(t)[i] = u[i]
  <2>1. \A i \in 1 .. Len(u) : i + 1 = 1 + i
    BY <1>2
  <2>2. Len(Tail(t)) = Len(u)
    BY <1>2, <1>4
  <2> QED
    BY <1>2, <1>4, <2>1, <2>2
<1>6. Tail(t) = u
  BY <1>4, <1>5, SameGlyphs
<1> QED
  BY <1>6 DEF t, o

(* A text without its first two characters. *)
LEMMA RestIs ==
  ASSUME NEW x \in Glyphs, NEW u \in Glyphs, Len(x) = 2
  PROVE  SubSeq(x \o u, 3, Len(x \o u)) = u
<1> DEFINE t == x \o u
           s == SubSeq(t, 3, Len(t))
<1>1. /\ t \in Seq(Glyph) /\ Len(u) \in Nat /\ Len(t) = 2 + Len(u)
      /\ \A i \in 1 .. Len(u) : t[2 + i] = u[i]
  <2>1. /\ t \in Glyphs /\ Len(u) \in Nat /\ Len(t) = Len(x) + Len(u)
        /\ \A i \in 1 .. Len(u) : t[Len(x) + i] = u[i]
    BY Joined
  <2> HIDE DEF t
  <2> QED
    BY <2>1 DEF Glyphs
<1> HIDE DEF t
<1>2. \A i \in 3 .. Len(t) : t[i] \in Glyph
  <2>1. \A i \in 3 .. Len(t) : i \in 1 .. Len(t)
    BY <1>1
  <2> QED
    BY <1>1, <2>1, ElementOfSeq
<1>3. /\ s \in Seq(Glyph) /\ Len(s) = (IF 3 <= Len(t) THEN Len(t) - 3 + 1 ELSE 0)
      /\ \A i \in 1 .. Len(t) - 3 + 1 : s[i] = t[3 + i - 1]
  <2>1. 3 \in Int /\ Len(t) \in Int
    BY <1>1
  <2> QED
    BY <1>2, <2>1, SubSeqProperties
<1>4. Len(s) = Len(u) /\ \A i \in 1 .. Len(u) : s[i] = u[i]
  <2>1. Len(s) = Len(u) /\ Len(t) - 3 + 1 = Len(u)
    BY <1>1, <1>3
  <2>2. \A i \in 1 .. Len(u) : 3 + i - 1 = 2 + i
    BY <1>1
  <2> HIDE DEF s
  <2> QED
    BY <1>1, <1>3, <2>1, <2>2
<1> HIDE DEF s
<1>5. s = u
  BY <1>3, <1>4, SameGlyphs DEF Glyphs
<1> QED
  BY <1>5 DEF s, t

IsFigures(row) == row \in Glyphs /\ \A i \in 1 .. Len(row) : row[i] \in Figures

(* Sign and mark are told from the figures.                                 *)
LEMMA MarksRead ==
  ASSUME NEW sg \in Signs, NEW mark \in Marks, NEW row, IsFigures(row)
  PROVE  LET w == sg \o (mark \o row)
         IN /\ w \in Glyphs /\ \A i \in 1 .. Len(w) : w[i] # Blank
            /\ Len(w) = Len(sg) + (Len(mark) + Len(row))
            /\ HasSign(w) <=> sg # <<>>
            /\ sg # <<>> => w[1] = sg[1]
            /\ HasHexMark(Unsigned(w)) <=> mark # <<>>
            /\ Digits(w) = row
<1> DEFINE u == mark \o row
           w == sg \o u
<1>1. /\ sg \in Glyphs /\ (sg # <<>> => Len(sg) = 1 /\ sg[1] \in {"-", "+"})
      /\ (sg = <<>> => Len(sg) = 0) /\ Len(sg) \in Nat
  BY SignsAre
<1>2. /\ mark \in Glyphs /\ (mark = <<>> => Len(mark) = 0) /\ Len(mark) \in Nat
      /\ (mark # <<>> => Len(mark) = 2 /\ mark[1] = "0" /\ mark[2] \in {"x", "X"})
  BY MarksAre
<1>3. /\ row \in Glyphs /\ Len(row) \in Nat
      /\ \A i \in 1 .. Len(row) : row[i] \notin {" ", "-", "+", "x", "X"}
  BY FiguresAre, Joined DEF IsFigures
<1>4. /\ u \in Glyphs /\ Len(u) = Len(mark) + Len(row)
      /\ \A i \in 1 .. Len(mark) : u[i] = mark[i]
      /\ \A i \in 1 .. Len(row) : u[Len(mark) + i] = row[i]
      /\ (mark = <<>> => u = row)
      /\ Len(u) \in Nat
  BY <1>2, <1>3, Joined
<1> HIDE DEF u
<1>5. /\ w \in Glyphs /\ Len(w) = Len(sg) + Len(u)
      /\ \A i \in 1 .. Len(sg) : w[i] = sg[i]
      /\ \A i \in 1 .. Len(u) : w[Len(sg) + i] = u[i]
      /\ (sg = <<>> => w = u)
  BY <1>1, <1>4, Joined
<1> HIDE DEF w
<1>6. ASSUME NEW i \in 1 .. Len(u)
      PROVE  u[i] \notin {" ", "-", "+"} /\ (mark = <<>> => u[i] \notin {"x", "X"})
  <2>1. CASE mark = <<>>
    <3>1. u[i] = row[i] /\ i \in 1 .. Len(row)
      BY <1>2, <1>3, <1>4, <2>1
    <3> QED
      BY <1>3, <3>1
  <2>2. CASE mark # <<>>
    <3>0. /\ Len(mark) = 2 /\ Len(u) = 2 + Len(row) /\ i \in Nat /\ i >= 1 /\ i <= Len(u)
          /\ u[1] = "0" /\ u[2] \in {"x", "X"}
          /\ \A k \in 1 .. Len(row) : u[2 + k] = row[k]
      <4>1. Len(mark) = 2 /\ mark[1] = "0" /\ mark[2] \in {"x", "X"}
        BY <1>2, <2>2
      <4>2. 1 \in 1 .. Len(mark) /\ 2 \in 1 .. Len(mark)
        BY <4>1
      <4>3. u[1] = mark[1] /\ u[2] = mark[2]
        BY <1>4, <4>2
      <4>4. Len(u) = 2 + Len(row) /\ \A k \in 1 .. Len(row) : u[2 + k] = row[k]
        BY <1>4, <4>1
      <4>5. i \in Nat /\ i >= 1 /\ i <= Len(u)
        <5>1. Len(u) \in Nat
          BY <1>4, Zenon
        <5> QED
          BY <5>1
      <4> QED
        BY <4>1, <4>3, <4>4, <4>5
    <3>1. CASE i = 1
      BY <2>2, <3>0, <3>1
    <3>2. CASE i = 2
      BY <2>2, <3>0, <3>2
    <3>3. CASE i > 2
      <4>1. i - 2 \in 1 .. Len(row) /\ 2 + (i - 2) = i
        <5>1. Len(row) \in Nat
          BY <1>3, Zenon
        <5> QED
          BY <3>0, <3>3, <5>1
      <4>2. u[i] = row[i - 2]
        BY <3>0, <4>1
      <4> QED
        BY <1>3, <2>2, <4>1, <4>2
    <3>4. i = 1 \/ i = 2 \/ i > 2
      <4>1. i \in Nat /\ i >= 1
        BY <3>0, Zenon
      <4> QED
        BY <4>1
    <3> QED
      BY <3>1, <3>2, <3>3, <3>4, Zenon
  <2> QED
    BY <2>1, <2>2
<1>7. Len(u) \in Nat /\ Len(sg) \in Nat /\ Len(mark) \in Nat
  BY <1>1, <1>2, <1>4, Zenon
<1>8. ASSUME NEW i \in 1 .. Len(w) PROVE w[i] # Blank
  <2>1. CASE i \in 1 .. Len(sg)
    <3>1. w[i] = sg[1] /\ sg # <<>>
      BY <1>1, <1>5, <2>1
    <3> QED
      BY <1>1, <3>1 DEF Blank
  <2>2. CASE i \notin 1 .. Len(sg)
    <3>1. i - Len(sg) \in 1 .. Len(u) /\ Len(sg) + (i - Len(sg)) = i
      BY <1>5, <1>7, <2>2
    <3>2. w[i] = u[i - Len(sg)]
      BY <1>5, <3>1
    <3> QED
      BY <1>6, <3>1, <3>2 DEF Blank
  <2> QED
    BY <2>1, <2>2
<1>9. sg # <<>> => w[1] = sg[1] /\ HasSign(w)
  <2>1. SUFFICES ASSUME sg # <<>> PROVE w[1] = sg[1] /\ HasSign(w)
    OBVIOUS
  <2>2. w[1] = sg[1] /\ Len(w) # 0
    BY <1>1, <1>5, <1>7, <2>1
  <2>3. w # <<>>
    BY <2>2, EmptySeq
  <2> QED
    BY <1>1, <2>1, <2>2, <2>3 DEF HasSign
<1>10. sg = <<>> => ~HasSign(w) /\ w = u
  <2>1. SUFFICES ASSUME sg = <<>>, HasSign(w) PROVE FALSE
    BY <1>5
  <2>2. w = u /\ u # <<>> /\ u[1] \in {"-", "+"}
    BY <1>5, <2>1 DEF HasSign
  <2>3. Len(u) # 0
    BY <1>4, <2>2, EmptySeq DEF Glyphs
  <2>4. 1 \in 1 .. Len(u)
    BY <1>7, <2>3
  <2> QED
    BY <1>6, <2>2, <2>4
<1>11. Unsigned(w) = u
  <2>1. CASE sg = <<>>
    BY <1>10, <2>1 DEF Unsigned
  <2>2. CASE sg # <<>>
    <3>1. sg = <<"-">> \/ sg = <<"+">>
      BY <2>2 DEF Signs
    <3>2. "-" \in Glyph /\ "+" \in Glyph
      BY DEF Glyph
    <3>3. Tail(<<"-">> \o u) = u /\ Tail(<<"+">> \o u) = u
      BY <1>4, <3>2, TailIs
    <3>4. Tail(w) = u
      BY <3>1, <3>3 DEF w
    <3> QED
      BY <1>9, <2>2, <3>4 DEF Unsigned
  <2> QED
    BY <2>1, <2>2
<1>12. HasHexMark(u) <=> mark # <<>>
  <2>1. CASE mark = <<>>
    <3>1. Len(u) > 1 => 2 \in 1 .. Len(u)
      BY <1>7
    <3>2. ~HasHexMark(u)
      BY <1>6, <2>1, <3>1 DEF HasHexMark
    <3> QED
      BY <2>1, <3>2
  <2>2. CASE mark # <<>>
    <3>0. Len(mark) = 2 /\ 2 \in 1 .. Len(mark)
      BY <1>2, <2>2
    <3>1. Len(u) > 1 /\ u[2] = mark[2]
      <4>1. Len(row) \in Nat
        BY <1>3, Zenon
      <4>2. Len(u) = Len(mark) + Len(row) /\ u[2] = mark[2]
        BY <1>4, <3>0, Zenon
      <4> QED
        BY <3>0, <4>1, <4>2
    <3>2. HasHexMark(u)
      BY <1>2, <2>2, <3>1 DEF HasHexMark
    <3> QED
      BY <2>2, <3>2
  <2> QED
    BY <2>1, <2>2
<1>13. Digits(w) = row
  <2>1. CASE mark = <<>>
    BY <1>4, <1>11, <1>12, <2>1 DEF Digits
  <2>2. CASE mark # <<>>
    <3>1. SubSeq(u, 3, Len(u)) = row
      BY <1>2, <1>3, <2>2, RestIs DEF u
    <3> QED
      BY <1>11, <1>12, <2>2, <3>1 DEF Digits
  <2> QED
    BY <2>1, <2>2
<1> QED
  BY <1>4, <1>5, <1>8, <1>9, <1>10, <1>11, <1>12, <1>13 DEF w, u

-----------------------------------------------------------------------------
(* linx_format_uint puts sign and prefix, zeros, and figures between spaces, *)
(* which fill the width.                                                    *)
FiguresOf(v, base, upper, precision) ==
  IF precision = 0 /\ v = 0 THEN <<>> ELSE DigitsOf(v, base, IF upper THEN Upper ELSE Lower)

LongOf(a, sign, prefix, k, figures, b) ==
  a + (Len(sign) + (Len(prefix) + (k + Len(figures)))) + b

(* The parts of a number, with their spaces and zeros.                      *)
LaidOut(t, a, sign, prefix, k, figures, b, left, zero, width, precision) ==
  /\ t = (Repeat(Blank, a) \o (sign \o (prefix \o (Repeat("0", k) \o figures)))) \o Repeat(Blank, b)
  /\ LongOf(a, sign, prefix, k, figures, b) >= width
  /\ LongOf(a, sign, prefix, k, figures, b) > width => a = 0 /\ b = 0
  /\ left => a = 0
  /\ ~left => b = 0
  /\ \/ k = Longer(precision, Len(figures))
     \/ /\ zero /\ ~left /\ precision < 0 /\ k >= Longer(precision, Len(figures))
        /\ LongOf(a, sign, prefix, k, figures, b) = width

LaysOut(t, sign, prefix, figures, left, zero, width, precision) ==
  \E a \in Nat, b \in Nat, k \in Nat :
    LaidOut(t, a, sign, prefix, k, figures, b, left, zero, width, precision)

(* A character repeated not at all.                                         *)
LEMMA RepeatNone == ASSUME NEW c \in Glyph PROVE Repeat(c, 0) = <<>>
<1>1. Repeat(c, 0) \in Seq(Glyph) /\ Len(Repeat(c, 0)) = 0
  BY RepeatIs DEF Glyphs
<1> QED
  BY <1>1, EmptySeq

(* What is missing up to a length.                                          *)
LEMMA LongerIs ==
  ASSUME NEW n \in Int, NEW m \in Nat
  PROVE  Longer(n, m) \in Nat /\ m + Longer(n, m) >= n /\ (Longer(n, m) > 0 => m + Longer(n, m) = n)
         /\ (n < 0 => Longer(n, m) = 0)
BY DEF Longer

(* Figures are a text.                                                      *)
LEMMA FiguresType ==
  ASSUME NEW base \in Bases, NEW v \in Nat, NEW upper \in BOOLEAN, NEW precision
  PROVE  FiguresOf(v, base, upper, precision) \in Glyphs
<1>1. (IF upper THEN Upper ELSE Lower) \in {Lower, Upper}
  OBVIOUS
<1> QED
  BY <1>1, DigitsRead, OneGlyph DEF FiguresOf, Figured

(* linx_format_uint lays the parts out as LaysOut says.                     *)
LEMMA FormatIs ==
  ASSUME NEW base \in Bases, NEW v \in Nat, NEW upper \in BOOLEAN, NEW left \in BOOLEAN,
         NEW zero \in BOOLEAN, NEW width \in Int, NEW precision \in Int,
         NEW sign \in Glyphs, NEW prefix \in Glyphs, NEW t, NEW figures,
         t = linx_format_uint(v, base, upper, left, zero, width, precision, sign, prefix),
         figures = FiguresOf(v, base, upper, precision)
  PROVE  LaysOut(t, sign, prefix, figures, left, zero, width, precision)
<1> DEFINE m == Longer(precision, Len(figures))
           body == Repeat("0", m) \o figures
           pad == Longer(width, Len(sign) + Len(prefix) + Len(body))
           R(n) == Repeat(Blank, n)
           Z(n) == Repeat("0", n)
<1>1. figures \in Glyphs /\ Len(figures) \in Nat
  BY FiguresType, LenProperties DEF Glyphs
<1>2. t = IF left THEN ((sign \o prefix) \o body) \o R(pad)
          ELSE IF zero /\ precision < 0 THEN ((sign \o prefix) \o Z(pad)) \o body
          ELSE ((R(pad) \o sign) \o prefix) \o body
  BY DEF linx_format_uint, FiguresOf, Blank
<1>3. m \in Nat /\ (precision < 0 => m = 0)
  BY <1>1, LongerIs
<1> HIDE DEF m
<1>4. Blank \in Glyph /\ "0" \in Glyph
  BY DEF Blank, Glyph, Figures
<1>5. /\ Z(m) \in Glyphs /\ Len(Z(m)) = m
      /\ \A n \in Nat : R(n) \in Glyphs /\ Z(n) \in Glyphs
      /\ R(0) = <<>> /\ Z(0) = <<>>
  BY <1>3, <1>4, RepeatIs, RepeatNone
<1> HIDE DEF R, Z
<1>6. body = Z(m) \o figures
  BY DEF Z
<1>7. body \in Glyphs /\ Len(body) = m + Len(figures)
  <2> DEFINE z == Z(m)
  <2>1. z \in Glyphs /\ Len(z) = m /\ body = z \o figures
    BY <1>5, <1>6
  <2> HIDE DEF z, body
  <2>2. z \o figures \in Glyphs /\ Len(z \o figures) = Len(z) + Len(figures)
    BY <1>1, <2>1, Joined
  <2> QED
    BY <2>1, <2>2
<1>8. Len(sign) \in Nat /\ Len(prefix) \in Nat
  BY LenProperties DEF Glyphs
<1> HIDE DEF body
<1> DEFINE long == Len(sign) + Len(prefix) + Len(body)
<1>9. long \in Nat /\ long = Len(sign) + (Len(prefix) + (m + Len(figures)))
  BY <1>1, <1>3, <1>7, <1>8
<1>10. pad \in Nat /\ long + pad >= width /\ (pad > 0 => long + pad = width)
  <2> HIDE DEF long
  <2>1. Longer(width, long) \in Nat /\ long + Longer(width, long) >= width
        /\ (Longer(width, long) > 0 => long + Longer(width, long) = width)
    BY <1>9, LongerIs
  <2> QED
    BY <2>1 DEF long
<1> HIDE DEF pad, long
<1>11. sign \o (prefix \o body) \in Glyphs /\ prefix \o body \in Glyphs /\ sign \o prefix \in Glyphs
  BY <1>7, Joined
<1>12. (sign \o prefix) \o body = sign \o (prefix \o body)
  BY <1>7, Regrouped
<1>13. CASE left
  <2>1. t = (R(0) \o (sign \o (prefix \o body))) \o R(pad)
    <3>1. R(0) \o (sign \o (prefix \o body)) = sign \o (prefix \o body)
      BY <1>5, <1>11, Joined
    <3> QED
      BY <1>2, <1>12, <1>13, <3>1
  <2>2. LongOf(0, sign, prefix, m, figures, pad) = long + pad
    BY <1>9, <1>10 DEF LongOf
  <2>3. LongOf(0, sign, prefix, m, figures, pad) >= width
    BY <1>10, <2>2
  <2>4. LongOf(0, sign, prefix, m, figures, pad) > width => pad = 0
    BY <1>10, <2>2
  <2>5. t = (R(0) \o (sign \o (prefix \o (Z(m) \o figures)))) \o R(pad)
    BY <1>6, <2>1
  <2>6. 0 \in Nat
    OBVIOUS
  <2> QED
    BY <1>3, <1>10, <1>13, <2>3, <2>4, <2>5, <2>6 DEF LaysOut, LaidOut, R, Z, m
<1>14. CASE ~left /\ zero /\ precision < 0
  <2>1. m = 0 /\ body = figures
    BY <1>1, <1>3, <1>5, <1>6, <1>14, Joined
  <2>2. t = (R(0) \o (sign \o (prefix \o (Z(pad) \o figures)))) \o R(0)
    <3> DEFINE u == sign \o (prefix \o (Z(pad) \o figures))
    <3>1. Z(pad) \in Glyphs
      BY <1>5, <1>10
    <3>2. /\ Z(pad) \o figures \in Glyphs /\ prefix \o (Z(pad) \o figures) \in Glyphs /\ u \in Glyphs
      BY <1>1, <3>1, Joined
    <3>3. ((sign \o prefix) \o Z(pad)) \o figures = (sign \o prefix) \o (Z(pad) \o figures)
      <4> DEFINE x == sign \o prefix
                 z == Z(pad)
      <4>1. x \in Glyphs /\ z \in Glyphs
        BY <1>11, <3>1
      <4> HIDE DEF x, z
      <4>2. (x \o z) \o figures = x \o (z \o figures)
        BY <1>1, <4>1, Regrouped
      <4> QED
        BY <4>2 DEF x, z
    <3>4. (sign \o prefix) \o (Z(pad) \o figures) = u
      BY <3>2, Regrouped
    <3>5. t = u
      BY <1>2, <1>14, <2>1, <3>3, <3>4
    <3> HIDE DEF u
    <3>6. (R(0) \o u) \o R(0) = u
      BY <1>5, <3>2, Joined
    <3> QED
      BY <3>5, <3>6 DEF u
  <2>3. LongOf(0, sign, prefix, pad, figures, 0) = long + pad
    BY <1>1, <1>8, <1>9, <1>10, <2>1 DEF LongOf
  <2>4. LongOf(0, sign, prefix, pad, figures, 0) >= width
    BY <1>10, <2>3
  <2>5. pad = m \/ (pad >= m /\ LongOf(0, sign, prefix, pad, figures, 0) = width)
    BY <1>10, <2>1, <2>3
  <2>6. 0 \in Nat
    OBVIOUS
  <2> QED
    BY <1>10, <1>14, <2>2, <2>4, <2>5, <2>6 DEF LaysOut, LaidOut, R, Z, m
<1>15. CASE ~left /\ ~(zero /\ precision < 0)
  <2>1. t = (R(pad) \o (sign \o (prefix \o body))) \o R(0)
    <3> DEFINE u == R(pad) \o (sign \o (prefix \o body))
    <3>1. R(pad) \in Glyphs
      BY <1>5, <1>10
    <3>2. (R(pad) \o sign) \o prefix = R(pad) \o (sign \o prefix)
      BY <3>1, Regrouped
    <3>3. (R(pad) \o (sign \o prefix)) \o body = R(pad) \o ((sign \o prefix) \o body)
      BY <1>7, <1>11, <3>1, Regrouped
    <3>4. t = u
      BY <1>2, <1>12, <1>15, <3>2, <3>3
    <3>5. u \in Glyphs
      BY <1>11, <3>1, Joined
    <3> HIDE DEF u
    <3>6. u \o R(0) = u
      BY <1>5, <3>5, Joined
    <3> QED
      BY <3>4, <3>6 DEF u
  <2>2. LongOf(pad, sign, prefix, m, figures, 0) = long + pad
    BY <1>9, <1>10 DEF LongOf
  <2>3. LongOf(pad, sign, prefix, m, figures, 0) >= width
    BY <1>10, <2>2
  <2>4. LongOf(pad, sign, prefix, m, figures, 0) > width => pad = 0
    BY <1>10, <2>2
  <2>5. t = (R(pad) \o (sign \o (prefix \o (Z(m) \o figures)))) \o R(0)
    BY <1>6, <2>1
  <2>6. 0 \in Nat
    OBVIOUS
  <2> QED
    BY <1>3, <1>10, <1>15, <2>3, <2>4, <2>5, <2>6 DEF LaysOut, LaidOut, R, Z, m
<1> QED
  BY <1>13, <1>14, <1>15

-----------------------------------------------------------------------------
(* What is printed for a number.                                            *)
TableOf(f) == IF f.conv = "X" THEN Upper ELSE Lower
(* Octal numbers begin with 0, hexadecimal ones with a mark, if the flags   *)
(* want it.                                                                 *)
OctalMark(f) == f.conv = "o" /\ "#" \in f.flags
HexMark(f) == f.conv = "p" \/ (f.conv \in {"x", "X"} /\ "#" \in f.flags /\ Value(f) # 0)

(* The sign that the flags want.                                            *)
SignShown(f, sg) ==
  sg = IF f.conv = "d" /\ f.v < 0 THEN <<"-">>
       ELSE IF f.conv = "d" /\ "+" \in f.flags THEN <<"+">> ELSE <<>>

(* The digits, as many as asked for.                                        *)
RowIs(f, t, row) ==
  /\ Reads(row, WithoutSign(Value(f)), BaseOf(f), TableOf(f))
  /\ Len(row) >= LeastDigits(f)
  /\ Len(row) > LeastDigits(f) /\ row[1] = "0" => (ZeroPads(f) /\ Len(t) = Wide(f)) \/ OctalMark(f)
  /\ OctalMark(f) => row # <<>> /\ row[1] = "0"

(* A number: spaces, sign, mark, digits, spaces.                            *)
NumberIs(f, t, a, sg, mark, row, b) ==
  /\ Spaced(t, a, sg \o (mark \o row), b) /\ Fills(f, t, a, b)
  /\ sg \in Signs /\ SignShown(f, sg)
  /\ mark \in Marks /\ (mark # <<>> <=> HexMark(f))
  /\ RowIs(f, t, row)

(* The table is one of two.                                                 *)
LEMMA TableIs == ASSUME NEW f PROVE TableOf(f) \in {Lower, Upper}
BY DEF TableOf

(* The base is one of three.                                                *)
LEMMA BaseIs == ASSUME NEW f, f.conv \in Numbers PROVE BaseOf(f) \in Bases
BY DEF BaseOf, Numbers, Bases

(* Digits of a table are figures.                                           *)
LEMMA RowFigures ==
  ASSUME NEW base \in Bases, NEW table \in {Lower, Upper}, NEW row, IsRow(row, base, table)
  PROVE  IsFigures(row)
<1>1. ASSUME NEW i \in 1 .. Len(row) PROVE row[i] \in Figures
  <2>1. PICK d \in 0 .. base - 1 : table[d + 1] = row[i]
    BY DEF IsRow
  <2>2. d \in 0 .. 15
    BY DEF Bases
  <2> QED
    BY <2>1, <2>2, Tables
<1> QED
  BY <1>1 DEF IsRow, IsFigures

(* It keeps what was asked for.                                             *)
LEMMA NumberKeeps ==
  ASSUME NEW f, f.conv \in Numbers, Wide(f) \in Int, NEW t,
         NEW a, NEW sg, NEW mark, NEW row, NEW b, NumberIs(f, t, a, sg, mark, row, b)
  PROVE  FitsWidth(f, t) /\ MarkedAsAsked(f, t) /\ ReadsBack(f, t)
<1> DEFINE w == sg \o (mark \o row)
<1>1. /\ Spaced(t, a, w, b) /\ Fills(f, t, a, b) /\ sg \in Signs /\ SignShown(f, sg)
      /\ mark \in Marks /\ (mark # <<>> <=> HexMark(f)) /\ RowIs(f, t, row)
  BY DEF NumberIs
<1>2. BaseOf(f) \in Bases /\ TableOf(f) \in {Lower, Upper}
  BY BaseIs, TableIs
<1>3. IsFigures(row)
  BY <1>1, <1>2, RowFigures DEF RowIs, Reads
<1>4. /\ HasSign(w) <=> sg # <<>>
      /\ sg # <<>> => w[1] = sg[1]
      /\ HasHexMark(Unsigned(w)) <=> mark # <<>>
      /\ Digits(w) = row
  BY <1>1, <1>3, MarksRead
<1> HIDE DEF w
<1>5. Core(t) = w
  BY <1>1, CoreIs
<1>6. FitsWidth(f, t)
  BY <1>1, FillsWidth
<1>7. ReadsBack(f, t)
  <2>1. NumberOf(row, BaseOf(f), TableOf(f)) = WithoutSign(Value(f))
    BY <1>1, <1>2, ReadNumber DEF RowIs
  <2>2. NumberOf(row, BaseOf(f), IF f.conv = "X" THEN Upper ELSE Lower) = WithoutSign(Value(f))
    BY <2>1 DEF TableOf
  <2>3. /\ Len(row) >= LeastDigits(f)
        /\ Len(row) > LeastDigits(f) /\ row[1] = "0" =>
             \/ ZeroPads(f) /\ Len(t) = Wide(f)
             \/ f.conv = "o" /\ "#" \in f.flags
    BY <1>1 DEF RowIs, OctalMark
  <2> QED
    BY <1>4, <1>5, <2>2, <2>3 DEF ReadsBack
<1>8. MarkedAsAsked(f, t)
  <2>1. sg # <<>> <=> f.conv = "d" /\ (f.v < 0 \/ "+" \in f.flags)
    BY <1>1 DEF SignShown
  <2>2. sg # <<>> => sg[1] = (IF f.v < 0 THEN "-" ELSE "+")
    <3>1. sg # <<>> => sg = <<IF f.v < 0 THEN "-" ELSE "+">>
      BY <1>1 DEF SignShown
    <3> QED
      BY <3>1
  <2>3. HexMark(f) <=> \/ f.conv = "p"
                       \/ f.conv \in {"x", "X"} /\ "#" \in f.flags /\ Value(f) # 0
    BY DEF HexMark
  <2>4. f.conv = "o" /\ "#" \in f.flags => row # <<>> /\ row[1] = "0"
    BY <1>1 DEF RowIs, OctalMark
  <2>5. HasSign(w) => w[1] = (IF f.v < 0 THEN "-" ELSE "+")
    BY <1>4, <2>2
  <2>6. HasSign(w) <=> f.conv = "d" /\ (f.v < 0 \/ "+" \in f.flags)
    BY <1>4, <2>1
  <2>7. HasHexMark(Unsigned(w)) <=> \/ f.conv = "p"
                                    \/ f.conv \in {"x", "X"} /\ "#" \in f.flags /\ Value(f) # 0
    BY <1>1, <1>4, <2>3
  <2> QED
    BY <1>4, <1>5, <2>4, <2>5, <2>6, <2>7 DEF MarkedAsAsked
<1> QED
  BY <1>6, <1>7, <1>8

(* The figures behind k zeros. *)
RowHas(row, k, figures, v, base, upper, precision) ==
  /\ figures \in Glyphs /\ Len(figures) \in Nat /\ row \in Glyphs
  /\ Len(row) = k + Len(figures)
  /\ Reads(row, v, base, IF upper THEN Upper ELSE Lower)
  /\ k > 0 => row[1] = "0"
  /\ k = 0 => row = figures
  /\ precision = 0 /\ v = 0 => Len(figures) = 0
  /\ ~(precision = 0 /\ v = 0) => Len(figures) >= 1
  /\ v = 0 /\ precision # 0 => Len(figures) = 1 /\ figures[1] = "0"
  /\ v # 0 => figures[1] # "0"

(* Such a row is what linx_format_uint writes after sign and prefix.        *)
LEMMA RowOf ==
  ASSUME NEW base \in Bases, NEW v \in Nat, NEW upper \in BOOLEAN, NEW precision \in Int, NEW k \in Nat,
         NEW figures, figures = FiguresOf(v, base, upper, precision), NEW row, row = Repeat("0", k) \o figures
  PROVE  RowHas(row, k, figures, v, base, upper, precision)
<1> DEFINE table == IF upper THEN Upper ELSE Lower
           zeros == Repeat("0", k)
<1>1. table \in {Lower, Upper}
  OBVIOUS
<1>2. figures \in Glyphs
  BY FiguresType
<1>3. figures = IF precision = 0 /\ v = 0 THEN <<>> ELSE DigitsOf(v, base, table)
  BY DEF FiguresOf
<1>4. "0" \in Glyph
  BY DEF Glyph, Figures
<1>5. zeros \in Glyphs /\ Len(zeros) = k /\ \A i \in 1 .. k : zeros[i] = "0"
  BY <1>4, RepeatIs
<1>6. Figured(v, DigitsOf(v, base, table), base, table)
  BY <1>1, DigitsRead
<1> HIDE DEF table
<1>7. Reads(zeros \o figures, v, base, table)
  <2>1. CASE precision = 0 /\ v = 0
    <3>1. zeros \o figures = zeros
      BY <1>2, <1>3, <1>5, <2>1, Joined
    <3>2. Reads(zeros, 0, base, table)
      BY <1>1, ReadsZeros
    <3> QED
      BY <2>1, <3>1, <3>2
  <2>2. CASE ~(precision = 0 /\ v = 0)
    BY <1>3, <1>6, <2>2 DEF Figured
  <2> QED
    BY <2>1, <2>2
<1>12. row = zeros \o figures
  OBVIOUS
<1> HIDE DEF zeros
<1>8. /\ row \in Glyphs /\ Len(row) = k + Len(figures) /\ Len(figures) \in Nat
      /\ \A i \in 1 .. k : row[i] = zeros[i]
  <2>1. /\ row \in Glyphs /\ Len(row) = Len(zeros) + Len(figures) /\ Len(figures) \in Nat
        /\ \A i \in 1 .. Len(zeros) : row[i] = zeros[i]
    <3> DEFINE x == zeros \o figures
    <3>1. /\ x \in Glyphs /\ Len(x) = Len(zeros) + Len(figures) /\ Len(figures) \in Nat
          /\ \A i \in 1 .. Len(zeros) : x[i] = zeros[i]
      BY <1>2, <1>5, Joined
    <3>2. row = x
      BY <1>12
    <3> HIDE DEF x
    <3> QED
      BY <3>1, <3>2, Zenon
  <2>2. Len(zeros) = k
    BY <1>5
  <2> QED
    BY <2>1, <2>2, Zenon
<1>9. k = 0 => row = figures
  <2>1. SUFFICES ASSUME k = 0 PROVE row = figures
    OBVIOUS
  <2>2. zeros = <<>>
    BY <1>5, <2>1, EmptySeq DEF Glyphs
  <2> QED
    BY <1>2, <1>5, <1>12, <2>2, Joined
<1>10. k > 0 => row[1] = "0"
  BY <1>5, <1>8
<1>11. /\ precision = 0 /\ v = 0 => Len(figures) = 0
       /\ ~(precision = 0 /\ v = 0) => Len(figures) >= 1
       /\ v = 0 /\ precision # 0 => Len(figures) = 1 /\ figures[1] = "0"
       /\ v # 0 => figures[1] # "0"
  <2>1. precision = 0 /\ v = 0 => Len(figures) = 0
    BY <1>3
  <2>2. ~(precision = 0 /\ v = 0) => Figured(v, figures, base, table)
    BY <1>3, <1>6
  <2> QED
    BY <2>1, <2>2 DEF Figured
<1> QED
  BY <1>2, <1>7, <1>8, <1>9, <1>10, <1>11, <1>12 DEF RowHas, table

(* What linx_format_uint is given for f.                                    *)
Asked(f, base, v, upper, left, zero, width, precision, sign, prefix) ==
  /\ f.conv \in Numbers /\ base = BaseOf(f) /\ v = WithoutSign(Value(f)) /\ v \in Nat
  /\ upper = (f.conv = "X") /\ left = IsLeft(f) /\ zero \in BOOLEAN
  /\ width = Wide(f) /\ width \in Int /\ precision \in Int
  /\ precision >= 0 => LeastDigits(f) = precision
  /\ precision < 0 => LeastDigits(f) = 1 /\ PrecisionOf(f) < 0 /\ (zero => "0" \in f.flags) /\ f.conv # "p"
  /\ IF SpaceSign(f) THEN sign = <<" ">> /\ SignShown(f, <<>>) ELSE sign \in Signs /\ SignShown(f, sign)
  /\ IF OctalMark(f)
     THEN prefix = (IF v # 0 \/ precision = 0 THEN <<"0">> ELSE <<>>) /\ ~HexMark(f)
     ELSE prefix \in Marks /\ (prefix # <<>> <=> HexMark(f))

(* The number, taken out of its spaces. *)
LaidOutAs(f, a0, sign, prefix, k, figures, b, a, sg, mark, zeros) ==
  /\ (Repeat(Blank, a0) \o (sign \o (prefix \o (Repeat("0", k) \o figures)))) \o Repeat(Blank, b)
       = (Repeat(Blank, a) \o (sg \o (mark \o (Repeat("0", zeros) \o figures)))) \o Repeat(Blank, b)
  /\ sg \in Signs /\ mark \in Marks
  /\ a0 + Len(sign) = a + Len(sg) /\ Len(prefix) + k = Len(mark) + zeros
  /\ Len(sg) \in Nat /\ Len(mark) \in Nat

(* A space in place of the sign is one of the spaces before the number,     *)
(* and an octal prefix one of its zeros.                                    *)
LEMMA Unspaced ==
  ASSUME NEW base, NEW v, NEW upper, NEW left, NEW zero, NEW width, NEW precision, NEW sign, NEW prefix,
         NEW f, Asked(f, base, v, upper, left, zero, width, precision, sign, prefix),
         NEW a0 \in Nat, NEW b \in Nat, NEW k \in Nat, NEW figures \in Glyphs
  PROVE  LaidOutAs(f, a0, sign, prefix, k, figures, b, IF SpaceSign(f) THEN a0 + 1 ELSE a0,
                   IF SpaceSign(f) THEN <<>> ELSE sign, IF prefix = <<"0">> THEN <<>> ELSE prefix,
                   IF prefix = <<"0">> THEN k + 1 ELSE k)
<1> DEFINE a == IF SpaceSign(f) THEN a0 + 1 ELSE a0
           sg == IF SpaceSign(f) THEN <<>> ELSE sign
           octal == prefix = <<"0">>
           mark == IF octal THEN <<>> ELSE prefix
           zeros == IF octal THEN k + 1 ELSE k
           R(n) == Repeat(Blank, n)
           Z(n) == Repeat("0", n)
<1>1. Blank \in Glyph /\ "0" \in Glyph
  BY DEF Blank, Glyph, Figures
<1>2. \A n \in Nat : R(n) \in Glyphs /\ Z(n) \in Glyphs
  BY <1>1, RepeatIs
<1>3. R(a0) \o <<" ">> = R(a0 + 1) /\ <<"0">> \o Z(k) = Z(k + 1)
  BY <1>1, RepeatMore DEF Blank
<1> HIDE DEF R, Z
<1>4. sg \in Signs /\ (SpaceSign(f) => sign = <<" ">>) /\ sign \in Signs \cup {<<" ">>}
  BY DEF Asked, Signs
<1>5. mark \in Marks /\ prefix \in Marks \cup {<<"0">>}
  BY DEF Asked, Marks
<1>6. sign \in Glyphs /\ sg \in Glyphs /\ Len(sg) \in Nat
  BY <1>4, SignsAre
<1>7. prefix \in Glyphs /\ mark \in Glyphs /\ Len(mark) \in Nat
  BY <1>5, MarksAre
<1>8. Z(k) \o figures \in Glyphs /\ Z(k) \in Glyphs /\ R(a0) \in Glyphs
  BY <1>2, Joined
<1>9. prefix \o (Z(k) \o figures) = mark \o (Z(zeros) \o figures)
  <2>1. CASE octal
    <3> DEFINE o == <<"0">>
               z == Z(k)
    <3>1. o \in Glyphs /\ z \in Glyphs /\ o \o z = Z(k + 1)
      BY <1>1, <1>3, <1>8, OneGlyph
    <3> HIDE DEF o, z
    <3>2. o \o (z \o figures) = (o \o z) \o figures
      BY <3>1, Regrouped
    <3>3. k + 1 \in Nat
      OBVIOUS
    <3>4. Z(k + 1) \o figures \in Glyphs
      BY <1>2, <3>3, Joined
    <3>5. <<>> \o (Z(k + 1) \o figures) = Z(k + 1) \o figures
      BY <3>4, Joined
    <3>6. prefix = o /\ mark = <<>> /\ zeros = k + 1
      BY <2>1 DEF o
    <3> QED
      BY <3>1, <3>2, <3>5, <3>6 DEF z
  <2>2. CASE ~octal
    BY <2>2
  <2> QED
    BY <2>1, <2>2
<1> DEFINE u == prefix \o (Z(k) \o figures)
<1>10. u \in Glyphs
  BY <1>7, <1>8, Joined
<1> HIDE DEF u
<1>11. R(a0) \o (sign \o u) = R(a) \o (sg \o u)
  <2>1. CASE SpaceSign(f)
    <3> DEFINE r == R(a0)
               o == <<" ">>
    <3>1. r \in Glyphs /\ o \in Glyphs /\ r \o o = R(a0 + 1)
      BY <1>1, <1>3, <1>8, OneGlyph DEF Blank
    <3> HIDE DEF r, o
    <3>2. r \o (o \o u) = (r \o o) \o u
      BY <1>10, <3>1, Regrouped
    <3>3. <<>> \o u = u
      BY <1>10, Joined
    <3>4. sign = o /\ sg = <<>> /\ a = a0 + 1
      BY <1>4, <2>1 DEF o
    <3> QED
      BY <3>1, <3>2, <3>3, <3>4 DEF r
  <2>2. CASE ~SpaceSign(f)
    BY <2>2
  <2> QED
    BY <2>1, <2>2
<1>12. a0 + Len(sign) = a + Len(sg)
  <2>1. CASE SpaceSign(f)
    <3>1. Len(sign) = 1 /\ Len(sg) = 0
      BY <1>4, <2>1
    <3> QED
      BY <2>1, <3>1
  <2>2. CASE ~SpaceSign(f)
    BY <2>2
  <2> QED
    BY <2>1, <2>2
<1>13. Len(prefix) + k = Len(mark) + zeros
  <2>1. CASE octal
    <3>1. Len(prefix) = 1 /\ Len(mark) = 0
      BY <2>1
    <3> QED
      BY <2>1, <3>1
  <2>2. CASE ~octal
    BY <2>2
  <2> QED
    BY <2>1, <2>2
<1>14. (R(a0) \o (sign \o (prefix \o (Z(k) \o figures)))) \o R(b)
         = (R(a) \o (sg \o (mark \o (Z(zeros) \o figures)))) \o R(b)
  BY <1>9, <1>11 DEF u
<1> QED
  BY <1>4, <1>5, <1>6, <1>7, <1>12, <1>13, <1>14 DEF LaidOutAs, R, Z

(* What linx_format_uint makes of what it is asked for.                     *)
LEMMA NumberShape ==
  ASSUME NEW base, NEW v, NEW upper, NEW left, NEW zero, NEW width, NEW precision, NEW sign, NEW prefix,
         NEW f, Asked(f, base, v, upper, left, zero, width, precision, sign, prefix)
  PROVE  LET t == linx_format_uint(v, base, upper, left, zero, width, precision, sign, prefix)
         IN \E a, sg, mark, row, b : NumberIs(f, t, a, sg, mark, row, b)
<1> DEFINE t == linx_format_uint(v, base, upper, left, zero, width, precision, sign, prefix)
           figures == FiguresOf(v, base, upper, precision)
<1>1. /\ v \in Nat /\ upper \in BOOLEAN /\ left \in BOOLEAN /\ zero \in BOOLEAN
      /\ width \in Int /\ precision \in Int /\ left = IsLeft(f) /\ width = Wide(f)
  BY DEF Asked, IsLeft
<1>2. base \in Bases /\ base = BaseOf(f) /\ (IF upper THEN Upper ELSE Lower) = TableOf(f)
  BY BaseIs DEF Asked, TableOf
<1>3. sign \in Glyphs /\ prefix \in Glyphs
  <2>1. sign \in Signs \cup {<<" ">>}
    BY DEF Asked
  <2>2. prefix \in Marks \cup {<<"0">>}
    BY DEF Asked, Marks
  <2> QED
    BY <2>1, <2>2, SignsAre, MarksAre
<1>4. PICK a0 \in Nat, b \in Nat, k \in Nat :
        LaidOut(t, a0, sign, prefix, k, figures, b, left, zero, width, precision)
  <2>1. t = linx_format_uint(v, base, upper, left, zero, width, precision, sign, prefix)
        /\ figures = FiguresOf(v, base, upper, precision)
    OBVIOUS
  <2>2. /\ base \in Bases /\ v \in Nat /\ upper \in BOOLEAN /\ left \in BOOLEAN /\ zero \in BOOLEAN
        /\ width \in Int /\ precision \in Int /\ sign \in Glyphs /\ prefix \in Glyphs
    BY <1>1, <1>2, <1>3
  <2> HIDE DEF t, figures
  <2>3. LaysOut(t, sign, prefix, figures, left, zero, width, precision)
    BY <2>1, <2>2, FormatIs
  <2> QED
    BY <2>3 DEF LaysOut
<1> DEFINE a == IF SpaceSign(f) THEN a0 + 1 ELSE a0
           sg == IF SpaceSign(f) THEN <<>> ELSE sign
           octal == prefix = <<"0">>
           mark == IF octal THEN <<>> ELSE prefix
           zeros == IF octal THEN k + 1 ELSE k
           row == Repeat("0", zeros) \o figures
           long == LongOf(a0, sign, prefix, k, figures, b)
<1>5. figures \in Glyphs
  BY <1>1, <1>2, FiguresType
<1>6. LaidOutAs(f, a0, sign, prefix, k, figures, b, a, sg, mark, zeros)
  <2> HIDE DEF figures
  <2> QED
    BY <1>5, Unspaced
<1>7. zeros \in Nat /\ a \in Nat
  OBVIOUS
<1>8. RowHas(row, zeros, figures, v, base, upper, precision)
  <2>1. row = Repeat("0", zeros) \o figures /\ figures = FiguresOf(v, base, upper, precision)
    OBVIOUS
  <2>2. base \in Bases /\ v \in Nat /\ upper \in BOOLEAN /\ precision \in Int /\ zeros \in Nat
    BY <1>1, <1>2, <1>7
  <2> HIDE DEF zeros, row, figures
  <2> QED
    BY <2>1, <2>2, RowOf
<1> HIDE DEF figures, row, t
<1>9. IsFigures(row)
  BY <1>2, <1>8, RowFigures DEF Reads, RowHas
<1> DEFINE w == sg \o (mark \o row)
<1>10. /\ w \in Glyphs /\ \A i \in 1 .. Len(w) : w[i] # Blank
       /\ Len(w) = Len(sg) + (Len(mark) + Len(row))
  <2> HIDE DEF sg, mark
  <2> QED
    BY <1>6, <1>9, MarksRead DEF LaidOutAs
<1>11. t = (Repeat(Blank, a) \o w) \o Repeat(Blank, b)
  BY <1>4, <1>6 DEF LaidOut, LaidOutAs, row
<1> HIDE DEF w, sg, mark
<1>12. Spaced(t, a, w, b)
  <2> HIDE DEF a
  <2> QED
    BY <1>7, <1>10, <1>11, SpacedIs
<1>13. Len(t) = long
  <2>1. Len(t) = a + Len(w) + b
    BY <1>12 DEF Spaced
  <2>2. Len(sign) \in Nat /\ Len(prefix) \in Nat
    BY <1>3, Joined
  <2>3. long = a0 + (Len(sign) + (Len(prefix) + (k + Len(figures)))) + b
    BY DEF LongOf
  <2> DEFINE s1 == Len(sign)
             p1 == Len(prefix)
             f1 == Len(figures)
             s2 == Len(sg)
             m2 == Len(mark)
             r2 == Len(row)
             w2 == Len(w)
  <2>4. /\ s1 \in Nat /\ p1 \in Nat /\ f1 \in Nat /\ s2 \in Nat /\ m2 \in Nat
        /\ a0 + s1 = a + s2 /\ p1 + k = m2 + zeros /\ r2 = zeros + f1 /\ w2 = s2 + (m2 + r2)
        /\ Len(t) = a + w2 + b /\ long = a0 + (s1 + (p1 + (k + f1))) + b
        /\ a \in Nat /\ zeros \in Nat
    BY <1>6, <1>7, <1>8, <1>10, <2>1, <2>2, <2>3 DEF LaidOutAs, RowHas
  <2> HIDE DEF a, zeros, s1, p1, f1, s2, m2, r2, w2, long
  <2> QED
    BY <2>4
<1>14. /\ long >= width /\ (long > width => a0 = 0 /\ b = 0)
       /\ (left => a0 = 0) /\ (~left => b = 0)
       /\ \/ k = Longer(precision, Len(figures))
          \/ /\ zero /\ ~left /\ precision < 0 /\ k >= Longer(precision, Len(figures))
             /\ long = width
  BY <1>4 DEF LaidOut
<1> HIDE DEF long
<1>15. Fills(f, t, a, b)
  BY <1>1, <1>13, <1>14 DEF Fills, SignSpace
<1>16. SignShown(f, sg)
  BY DEF Asked, sg
<1>17. mark # <<>> <=> HexMark(f)
  <2>1. CASE OctalMark(f)
    BY <2>1 DEF Asked, mark
  <2>2. CASE ~OctalMark(f)
    <3>1. prefix \in Marks /\ (prefix # <<>> <=> HexMark(f))
      BY <2>2 DEF Asked
    <3>2. <<"0">> \notin Marks
      <4>1. Len(<<"0">>) = 1 /\ Len(<<>>) = 0 /\ Len(<<"0", "x">>) = 2 /\ Len(<<"0", "X">>) = 2
        OBVIOUS
      <4> QED
        BY <4>1 DEF Marks
    <3> QED
      BY <3>1, <3>2 DEF mark
  <2> QED
    BY <2>1, <2>2
<1>18. octal <=> OctalMark(f) /\ (v # 0 \/ precision = 0)
  <2>1. <<"0">> # <<>> /\ <<"0">> \notin Marks
    <3>1. Len(<<"0">>) = 1 /\ Len(<<>>) = 0 /\ Len(<<"0", "x">>) = 2 /\ Len(<<"0", "X">>) = 2
      OBVIOUS
    <3> QED
      BY <3>1 DEF Marks
  <2>2. CASE OctalMark(f)
    BY <2>1, <2>2 DEF Asked
  <2>3. CASE ~OctalMark(f)
    BY <2>1, <2>3 DEF Asked
  <2> QED
    BY <2>2, <2>3
<1>19. /\ precision >= 0 => LeastDigits(f) = precision
       /\ precision < 0 => LeastDigits(f) = 1 /\ PrecisionOf(f) < 0 /\ (zero => "0" \in f.flags) /\ f.conv # "p"
  BY DEF Asked
<1> DEFINE len == Len(figures)
           m == Longer(precision, len)
<1>20. /\ m \in Nat /\ len + m >= precision /\ (m > 0 => len + m = precision)
       /\ (precision < 0 => m = 0) /\ len \in Nat
  BY <1>1, <1>8, LongerIs DEF RowHas
<1>21. k >= m
  BY <1>14, <1>20
<1> HIDE DEF m, len, octal
<1>22. Len(row) = (IF octal THEN k + 1 ELSE k) + len
  BY <1>8 DEF len, RowHas
<1>23. Len(row) >= LeastDigits(f)
  <2>1. CASE precision >= 0
    BY <1>1, <1>19, <1>20, <1>21, <1>22, <2>1
  <2>2. CASE precision < 0
    <3>1. len >= 1
      BY <1>1, <1>8, <2>2 DEF len, RowHas
    <3> QED
      BY <1>1, <1>19, <1>20, <1>21, <1>22, <2>2, <3>1
  <2> QED
    BY <1>1, <2>1, <2>2
<1>24. ASSUME Len(row) > LeastDigits(f), row[1] = "0", ~OctalMark(f)
       PROVE  ZeroPads(f) /\ Len(t) = Wide(f)
  <2>1. zeros = k /\ Len(row) = k + len
    BY <1>18, <1>22, <1>24
  <2>2. CASE k = m
    <3>1. CASE k > 0
      <4>1. precision >= 0 /\ len + m = precision
        BY <1>1, <1>20, <2>2, <3>1
      <4> QED
        BY <1>19, <1>20, <1>24, <2>1, <2>2, <4>1
    <3>2. CASE k = 0
      <4>1. row = figures /\ Len(row) = len
        BY <1>8, <1>20, <2>1, <3>2 DEF RowHas
      <4>2. v = 0
        BY <1>8, <1>24, <4>1 DEF RowHas
      <4>3. CASE precision >= 0
        <5>1. len > precision
          BY <1>19, <1>24, <4>1, <4>3
        <5>2. precision # 0
          BY <1>8, <1>20, <4>2, <5>1 DEF len, RowHas
        <5>3. len = 1
          BY <1>8, <4>2, <5>2 DEF len, RowHas
        <5> QED
          BY <1>1, <4>3, <5>1, <5>2, <5>3
      <4>4. CASE precision < 0
        <5>1. len = 1 /\ LeastDigits(f) = 1
          BY <1>1, <1>8, <1>19, <4>2, <4>4 DEF len, RowHas
        <5> QED
          BY <1>24, <4>1, <5>1
      <4> QED
        BY <1>1, <4>3, <4>4
    <3> QED
      BY <3>1, <3>2
  <2>3. CASE k # m
    <3>1. zero /\ ~left /\ precision < 0 /\ long = width
      BY <1>14, <2>3 DEF m, len
    <3> QED
      BY <1>1, <1>13, <1>19, <3>1 DEF ZeroPads
  <2> QED
    BY <2>2, <2>3
<1>25. ASSUME OctalMark(f) PROVE row # <<>> /\ row[1] = "0"
  <2>1. CASE octal
    <3>1. zeros > 0 /\ Len(row) > 0
      BY <1>20, <1>22, <2>1
    <3> QED
      BY <1>8, <3>1 DEF RowHas
  <2>2. CASE ~octal
    <3>1. v = 0 /\ precision # 0 /\ zeros = k
      BY <1>18, <1>25, <2>2
    <3>2. len = 1 /\ figures[1] = "0"
      BY <1>8, <3>1 DEF len, RowHas
    <3>3. Len(row) > 0
      BY <1>20, <1>22, <2>2, <3>2
    <3>4. row[1] = "0"
      <4>1. zeros > 0 \/ zeros = 0
        BY <1>7
      <4> QED
        BY <1>8, <3>2, <4>1 DEF RowHas
    <3> QED
      BY <3>3, <3>4
  <2> QED
    BY <2>1, <2>2
<1>26. RowIs(f, t, row)
  <2>1. Reads(row, WithoutSign(Value(f)), BaseOf(f), TableOf(f))
    BY <1>2, <1>8 DEF Asked, RowHas
  <2> QED
    BY <1>23, <1>24, <1>25, <2>1 DEF RowIs
<1>27. NumberIs(f, t, a, sg, mark, row, b)
  <2> HIDE DEF a
  <2> QED
    BY <1>6, <1>12, <1>15, <1>16, <1>17, <1>26 DEF NumberIs, w, LaidOutAs
<1> QED
  BY <1>27 DEF t

-----------------------------------------------------------------------------
(* What FormatAssumption says of the conversion of a format.                *)
IsField(f) ==
  /\ f.conv \in Fields
  /\ f.width \in Seq(Int) /\ Len(f.width) <= 1
  /\ f.precision \in Seq(Int) /\ Len(f.precision) <= 1
  /\ f.conv \in Numbers => f.v \in Int
  /\ f.conv = "p" => f.v >= 0
  /\ f.conv = "s" => f.text \in Seq(STRING \ {Blank})
  /\ f.conv = "c" => f.char \in STRING \ {Blank}

(* Width and precision are integers.                                        *)
LEMMA Dimensions ==
  ASSUME NEW f, IsField(f)
  PROVE  /\ WidthOf(f) \in Int /\ PrecisionOf(f) \in Int
         /\ PrecisionOf(f) < 0 <=> PrecisionOf(f) = -1
         /\ IsLeft(f) \in BOOLEAN
<1>1. ASSUME NEW s \in Seq(Int), s # <<>> PROVE s[1] \in Int
  <2>1. Len(s) \in Nat /\ Len(s) # 0
    BY <1>1, EmptySeq, LenProperties
  <2>2. 1 \in 1 .. Len(s)
    BY <2>1
  <2> QED
    BY <2>2, ElementOfSeq
<1>2. f.width # <<>> => f.width[1] \in Int
  BY <1>1 DEF IsField
<1>3. f.precision # <<>> => f.precision[1] \in Int
  BY <1>1 DEF IsField
<1>4. WidthOf(f) \in Int
  BY <1>2 DEF WidthOf, WithoutSign
<1>5. PrecisionOf(f) \in Int /\ (PrecisionOf(f) < 0 <=> PrecisionOf(f) = -1)
  BY <1>3 DEF PrecisionOf
<1>6. IsLeft(f) \in BOOLEAN
  BY DEF IsLeft
<1> QED
  BY <1>4, <1>5, <1>6

(* It prints what it is asked for.                                          *)
LEMMA AskedAndPrinted ==
  ASSUME NEW base, NEW v, NEW upper, NEW left, NEW zero, NEW width, NEW precision, NEW sign, NEW prefix,
         NEW f, Asked(f, base, v, upper, left, zero, width, precision, sign, prefix)
  PROVE  LET t == linx_format_uint(v, base, upper, left, zero, width, precision, sign, prefix)
         IN FitsWidth(f, t) /\ MarkedAsAsked(f, t) /\ ReadsBack(f, t)
<1> DEFINE t == linx_format_uint(v, base, upper, left, zero, width, precision, sign, prefix)
<1>1. \E a, sg, mark, row, b : NumberIs(f, t, a, sg, mark, row, b)
  BY NumberShape
<1>2. f.conv \in Numbers /\ Wide(f) \in Int
  BY DEF Asked
<1> HIDE DEF t
<1>3. FitsWidth(f, t) /\ MarkedAsAsked(f, t) /\ ReadsBack(f, t)
  BY <1>1, <1>2, NumberKeeps
<1> QED
  BY <1>3 DEF t

(* The number is as asked for.                                              *)
PrintsNumber(f, t) == FitsWidth(f, t) /\ MarkedAsAsked(f, t) /\ ReadsBack(f, t)

(* %d prints as asked for.                                                  *)
LEMMA SignedPrints ==
  ASSUME NEW f, IsField(f), f.conv = "d"
  PROVE  PrintsNumber(f, SignedText(f))
<1>1. f.v \in Int
  BY DEF IsField, Numbers
<1>2. /\ f.conv \in Numbers /\ 10 = BaseOf(f)
      /\ WithoutSign(f.v) = WithoutSign(Value(f)) /\ WithoutSign(f.v) \in Nat
      /\ FALSE = (f.conv = "X") /\ WidthOf(f) = Wide(f)
  BY <1>1 DEF Numbers, BaseOf, Value, Wide, WithoutSign
<1>3. /\ WidthOf(f) \in Int /\ PrecisionOf(f) \in Int
      /\ PrecisionOf(f) >= 0 => LeastDigits(f) = PrecisionOf(f)
      /\ PrecisionOf(f) < 0 => LeastDigits(f) = 1 /\ f.conv # "p"
  BY Dimensions DEF LeastDigits
<1>4. IF SpaceSign(f) THEN SignOf(f) = <<" ">> /\ SignShown(f, <<>>)
      ELSE SignOf(f) \in Signs /\ SignShown(f, SignOf(f))
  <2>1. CASE f.v < 0
    <3>1. SignOf(f) = <<"-">> /\ ~SpaceSign(f)
      BY <1>1, <2>1 DEF SignOf, SpaceSign
    <3>2. <<"-">> \in Signs /\ SignShown(f, <<"-">>)
      BY <2>1 DEF Signs, SignShown
    <3> QED
      BY <3>1, <3>2
  <2>2. CASE ~(f.v < 0) /\ "+" \in f.flags
    <3>1. SignOf(f) = <<"+">> /\ ~SpaceSign(f)
      BY <2>2 DEF SignOf, SpaceSign
    <3>2. <<"+">> \in Signs /\ SignShown(f, <<"+">>)
      BY <2>2 DEF Signs, SignShown
    <3> QED
      BY <3>1, <3>2
  <2>3. CASE ~(f.v < 0) /\ "+" \notin f.flags
    <3>1. SignShown(f, <<>>) /\ <<>> \in Signs
      BY <2>3 DEF Signs, SignShown
    <3>2. SpaceSign(f) <=> " " \in f.flags
      <4>1. f.v >= 0
        BY <1>1, <2>3
      <4> QED
        BY <2>3, <4>1 DEF SpaceSign, Blank
    <3>3. SignOf(f) = IF " " \in f.flags THEN <<" ">> ELSE <<>>
      BY <2>3 DEF SignOf
    <3>4. CASE " " \in f.flags
      BY <3>1, <3>2, <3>3, <3>4
    <3>5. CASE " " \notin f.flags
      <4>1. SignOf(f) = <<>> /\ ~SpaceSign(f)
        BY <3>2, <3>3, <3>5
      <4> QED
        BY <3>1, <4>1
    <3> QED
      BY <3>4, <3>5
  <2> QED
    BY <2>1, <2>2, <2>3
<1>5. ~OctalMark(f) /\ ~HexMark(f) /\ <<>> \in Marks
  BY DEF OctalMark, HexMark, Marks
<1> DEFINE v == WithoutSign(f.v)
           sign == SignOf(f)
           zero == "0" \in f.flags
           none == <<>>
<1>6. zero \in BOOLEAN /\ (zero => "0" \in f.flags)
  OBVIOUS
<1>7. none \in Marks /\ (none # <<>> <=> HexMark(f)) /\ ~OctalMark(f)
  BY <1>5
<1>8. v = WithoutSign(Value(f)) /\ v \in Nat
  BY <1>2
<1> HIDE DEF v, sign, zero, none
<1>9. Asked(f, 10, v, FALSE, IsLeft(f), zero, WidthOf(f), PrecisionOf(f), sign, none)
  <2>1. IF SpaceSign(f) THEN sign = <<" ">> /\ SignShown(f, <<>>) ELSE sign \in Signs /\ SignShown(f, sign)
    BY <1>4 DEF sign
  <2>2. WidthOf(f) = Wide(f) /\ WidthOf(f) \in Int /\ PrecisionOf(f) \in Int
    BY <1>2, <1>3
  <2>3. PrecisionOf(f) < 0 => PrecisionOf(f) < 0
    OBVIOUS
  <2> QED
    BY <1>2, <1>3, <1>6, <1>7, <1>8, <2>1, <2>2 DEF Asked
<1> QED
  BY <1>9, AskedAndPrinted DEF PrintsNumber, SignedText, v, sign, zero, none

(* %u, %o, %x and %X print as asked for.                                    *)
LEMMA UnsignedPrints ==
  ASSUME NEW f, IsField(f), f.conv \in {"u", "o", "x", "X"}
  PROVE  PrintsNumber(f, UnsignedText(f))
<1> DEFINE upper == f.conv = "X"
           alt == "#" \in f.flags /\ f.conv # "u"
           prefix == PrefixOf(UArg(f), BaseOf(f), upper, alt, PrecisionOf(f))
<1>1. f.v \in Int
  BY DEF IsField, Numbers
<1>2. UArg(f) \in Nat
  <2>1. 2^IntBits \in Nat /\ 2^IntBits >= 1
    BY StdioAssumption, PwPositive DEF Pw
  <2> DEFINE m == 2^IntBits
  <2> HIDE DEF m
  <2>2. f.v % m \in Nat
    BY <1>1, <2>1 DEF m
  <2> QED
    BY <2>2 DEF UArg, m
<1>3. /\ f.conv \in Numbers
      /\ UArg(f) = WithoutSign(Value(f))
      /\ WidthOf(f) = Wide(f)
  <2>1. Value(f) = UArg(f)
    BY DEF Value, UArg
  <2>2. WithoutSign(Value(f)) = UArg(f)
    BY <1>2, <2>1 DEF WithoutSign
  <2> QED
    BY <2>2 DEF Numbers, Wide
<1>4. /\ WidthOf(f) \in Int /\ PrecisionOf(f) \in Int
      /\ PrecisionOf(f) >= 0 => LeastDigits(f) = PrecisionOf(f)
      /\ PrecisionOf(f) < 0 => LeastDigits(f) = 1 /\ f.conv # "p"
  BY Dimensions DEF LeastDigits
<1>5. ~SpaceSign(f) /\ <<>> \in Signs /\ SignShown(f, <<>>)
  BY DEF SpaceSign, Signs, SignShown
<1>6. IF OctalMark(f)
      THEN prefix = (IF UArg(f) # 0 \/ PrecisionOf(f) = 0 THEN <<"0">> ELSE <<>>) /\ ~HexMark(f)
      ELSE prefix \in Marks /\ (prefix # <<>> <=> HexMark(f))
  <2>1. Value(f) = UArg(f)
    BY DEF Value, UArg
  <2>2. CASE f.conv = "o"
    BY <2>2 DEF OctalMark, HexMark, PrefixOf, BaseOf, Marks
  <2>3. CASE f.conv = "u"
    BY <2>3 DEF OctalMark, HexMark, PrefixOf, BaseOf, Marks
  <2>4. CASE f.conv = "x"
    BY <2>1, <2>4 DEF OctalMark, HexMark, PrefixOf, BaseOf, Marks
  <2>5. CASE f.conv = "X"
    BY <2>1, <2>5 DEF OctalMark, HexMark, PrefixOf, BaseOf, Marks
  <2> QED
    BY <2>2, <2>3, <2>4, <2>5
<1> HIDE DEF prefix
<1>7. Asked(f, BaseOf(f), UArg(f), upper, IsLeft(f), "0" \in f.flags, WidthOf(f), PrecisionOf(f),
            <<>>, prefix)
  BY <1>2, <1>3, <1>4, <1>5, <1>6 DEF Asked
<1>8. UnsignedText(f) = linx_format_uint(UArg(f), BaseOf(f), upper, IsLeft(f), "0" \in f.flags,
                                         WidthOf(f), PrecisionOf(f), <<>>, prefix)
  BY DEF UnsignedText, prefix
<1> QED
  BY <1>7, <1>8, AskedAndPrinted DEF PrintsNumber

(* %p prints as asked for.                                                  *)
LEMMA PointerPrints ==
  ASSUME NEW f, IsField(f), f.conv = "p"
  PROVE  PrintsNumber(f, PointerText(f))
<1> DEFINE width == IF WidthOf(f) >= 0 THEN WidthOf(f) ELSE PtrDigits + 2
           precision == IF PrecisionOf(f) >= 0 THEN PrecisionOf(f) ELSE PtrDigits
<1>1. f.v \in Nat
  BY DEF IsField, Numbers
<1>2. /\ f.conv \in Numbers /\ 16 = BaseOf(f) /\ f.v = WithoutSign(Value(f))
      /\ FALSE = (f.conv = "X")
  BY <1>1 DEF Numbers, BaseOf, Value, WithoutSign
<1>3. PtrDigits \in Nat
  BY StdioAssumption
<1>4. /\ width = Wide(f) /\ width \in Int /\ precision \in Int /\ precision >= 0
      /\ LeastDigits(f) = precision
  BY <1>3, Dimensions DEF Wide, LeastDigits
<1>5. ~SpaceSign(f) /\ <<>> \in Signs /\ SignShown(f, <<>>)
  BY DEF SpaceSign, Signs, SignShown
<1>6. ~OctalMark(f) /\ HexMark(f) /\ <<"0", "x">> \in Marks /\ <<"0", "x">> # <<>>
  BY DEF OctalMark, HexMark, Marks
<1> HIDE DEF width, precision
<1>7. Asked(f, 16, f.v, FALSE, IsLeft(f), TRUE, width, precision, <<>>, <<"0", "x">>)
  BY <1>1, <1>2, <1>4, <1>5, <1>6 DEF Asked
<1> QED
  BY <1>7, AskedAndPrinted DEF PrintsNumber, PointerText, width, precision

(* A text without spaces, padded.                                           *)
LEMMA PaddedIs ==
  ASSUME NEW f, IsField(f), f.conv \in {"s", "c"}, NEW text \in Seq(STRING \ {Blank})
  PROVE  FitsWidth(f, Padded(f, text)) /\ Core(Padded(f, text)) = text
<1> DEFINE len == Len(text)
           n == Longer(WidthOf(f), len)
           R(k) == Repeat(Blank, k)
           t == Padded(f, text)
<1>1. text \in Glyphs /\ len \in Nat /\ \A i \in 1 .. len : text[i] # Blank
  <2>1. len \in Nat /\ \A i \in 1 .. len : text[i] \in STRING \ {Blank}
    BY ElementOfSeq, LenProperties
  <2>2. STRING \ {Blank} \subseteq Glyph
    BY DEF Glyph
  <2>3. text \in Glyphs
    BY <2>2 DEF Glyphs
  <2> QED
    BY <2>1, <2>3
<1>2. WidthOf(f) \in Int /\ Wide(f) = WidthOf(f) /\ ~SpaceSign(f)
  BY Dimensions DEF Wide, SpaceSign
<1>3. n \in Nat /\ len + n >= WidthOf(f) /\ (n > 0 => len + n = WidthOf(f))
  <2> HIDE DEF len
  <2> QED
    BY <1>1, <1>2, LongerIs
<1>4. t = IF IsLeft(f) THEN text \o R(n) ELSE R(n) \o text
  BY DEF Padded, Blank
<1> HIDE DEF t
<1>5. Blank \in Glyph
  BY DEF Blank, Glyph
<1>6. R(n) \in Glyphs /\ R(0) = <<>>
  BY <1>3, <1>5, RepeatIs, RepeatNone
<1> HIDE DEF n
<1>7. R(n) \o text \in Glyphs
  <2> HIDE DEF R
  <2> QED
    BY <1>1, <1>6, Joined
<1>8. CASE IsLeft(f)
  <2>1. t = R(0) \o text \o R(n)
    <3> HIDE DEF R
    <3>1. R(0) \o text = text
      BY <1>1, <1>6, Joined
    <3> QED
      BY <1>4, <1>8, <3>1
  <2>2. 0 \in Nat
    OBVIOUS
  <2>3. Spaced(R(0) \o text \o R(n), 0, text, n)
    BY <1>1, <1>3, <2>2, SpacedIs
  <2>4. Spaced(t, 0, text, n)
    <3> HIDE DEF R
    <3> QED
      BY <2>1, <2>3
  <2>5. Len(t) = 0 + Len(text) + n
    BY <2>4 DEF Spaced
  <2>6. Fills(f, t, 0, n)
    BY <1>1, <1>2, <1>3, <1>8, <2>5 DEF Fills, SignSpace
  <2> QED
    BY <1>2, <2>4, <2>6, CoreIs, FillsWidth DEF t
<1>9. CASE ~IsLeft(f)
  <2>1. t = R(n) \o text \o R(0)
    <3> DEFINE u == R(n) \o text
    <3>1. u \in Glyphs /\ t = u
      BY <1>4, <1>7, <1>9
    <3> HIDE DEF u, R
    <3>2. u \o R(0) = u
      BY <1>6, <3>1, Joined
    <3> QED
      BY <3>1, <3>2 DEF u
  <2>2. 0 \in Nat
    OBVIOUS
  <2>3. Spaced(R(n) \o text \o R(0), n, text, 0)
    BY <1>1, <1>3, <2>2, SpacedIs
  <2>4. Spaced(t, n, text, 0)
    <3> HIDE DEF R
    <3> QED
      BY <2>1, <2>3
  <2>5. Len(t) = n + Len(text) + 0
    BY <2>4 DEF Spaced
  <2>6. Fills(f, t, n, 0)
    BY <1>1, <1>2, <1>3, <1>9, <2>5 DEF Fills, SignSpace
  <2> QED
    BY <1>2, <2>4, <2>6, CoreIs, FillsWidth DEF t
<1> QED
  BY <1>8, <1>9

(* %c prints as asked for.                                                  *)
LEMMA CharacterPrints ==
  ASSUME NEW f, IsField(f), f.conv = "c"
  PROVE  FitsWidth(f, Padded(f, <<f.char>>)) /\ TextAsAsked(f, Padded(f, <<f.char>>))
<1> DEFINE text == <<f.char>>
           t == Padded(f, text)
<1>1. f.char \in STRING \ {Blank}
  BY DEF IsField
<1>2. text \in Seq(STRING \ {Blank}) /\ Len(text) = 1
  BY <1>1
<1>3. SubSeq(text, 1, 1) = text
  BY <1>2, SubSeqFull
<1> HIDE DEF text
<1>4. FitsWidth(f, t) /\ Core(t) = text
  BY <1>2, PaddedIs
<1> HIDE DEF t
<1>5. TextAsAsked(f, t)
  BY <1>2, <1>3, <1>4 DEF TextAsAsked, text
<1> QED
  BY <1>4, <1>5 DEF t, text

(* %s prints as asked for, cut to the precision.                            *)
LEMMA TextPrints ==
  ASSUME NEW f, IsField(f), f.conv = "s"
  PROVE  FitsWidth(f, StringText(f)) /\ TextAsAsked(f, StringText(f))
<1> DEFINE n == PrecisionOf(f)
           whole == f.text
           text == IF n >= 0 /\ n < Len(whole) THEN SubSeq(whole, 1, n) ELSE whole
           t == Padded(f, text)
<1>1. whole \in Seq(STRING \ {Blank})
  BY DEF IsField
<1>2. n \in Int /\ Len(whole) \in Nat
  BY <1>1, Dimensions, LenProperties
<1> HIDE DEF n
<1>3. /\ text \in Seq(STRING \ {Blank}) /\ Len(text) \in Nat
      /\ text = SubSeq(whole, 1, Len(text))
      /\ Len(text) < Len(whole) => Len(text) = n
      /\ n >= 0 => Len(text) <= n
  <2> HIDE DEF whole
  <2>1. CASE n >= 0 /\ n < Len(whole)
    <3>1. text = SubSeq(whole, 1, n) /\ 1 \in 1 .. n + 1 /\ n \in 0 .. Len(whole)
      BY <1>2, <2>1
    <3>2. SubSeq(whole, 1, n) \in Seq(STRING \ {Blank}) /\ Len(SubSeq(whole, 1, n)) = n
      BY <1>1, <1>2, <2>1
    <3> QED
      BY <1>2, <2>1, <3>1, <3>2
  <2>2. CASE ~(n >= 0 /\ n < Len(whole))
    <3>1. text = whole /\ SubSeq(whole, 1, Len(whole)) = whole
      BY <1>1, <2>2, SubSeqFull
    <3>2. n >= 0 => Len(whole) <= n
      BY <1>2, <2>2
    <3>3. ~(Len(whole) < Len(whole))
      BY <1>2
    <3> HIDE DEF text
    <3> QED
      BY <1>1, <1>2, <3>1, <3>2, <3>3, Zenon
  <2> QED
    BY <2>1, <2>2
<1>4. t = StringText(f)
  BY DEF StringText, n
<1> HIDE DEF text
<1>5. FitsWidth(f, t) /\ Core(t) = text
  BY <1>3, PaddedIs
<1> HIDE DEF t
<1>6. TextAsAsked(f, t)
  BY <1>3, <1>5 DEF TextAsAsked, n
<1> QED
  BY <1>4, <1>5, <1>6

(* What a conversion puts out is as asked for.                              *)
OutputKeeps(f, t) ==
  /\ FitsWidth(f, t)
  /\ f.conv \in Numbers => MarkedAsAsked(f, t) /\ ReadsBack(f, t)
  /\ f.conv \in {"s", "c"} => TextAsAsked(f, t)

(* Every conversion does.                                                   *)
LEMMA OutputPrints ==
  ASSUME NEW f, IsField(f)
  PROVE  OutputKeeps(f, OutputOf(f))
<1>1. CASE f.conv = "d"
  <2>1. OutputOf(f) = SignedText(f)
    BY <1>1 DEF OutputOf
  <2> QED
    BY <1>1, <2>1, SignedPrints DEF OutputKeeps, PrintsNumber
<1>2. CASE f.conv \in {"u", "o", "x", "X"}
  <2>1. OutputOf(f) = UnsignedText(f)
    BY <1>2 DEF OutputOf
  <2> QED
    BY <1>2, <2>1, UnsignedPrints DEF OutputKeeps, PrintsNumber
<1>3. CASE f.conv = "p"
  <2>1. OutputOf(f) = PointerText(f)
    BY <1>3 DEF OutputOf
  <2> QED
    BY <1>3, <2>1, PointerPrints DEF OutputKeeps, PrintsNumber
<1>4. CASE f.conv = "s"
  <2>1. OutputOf(f) = StringText(f)
    BY <1>4 DEF OutputOf
  <2>2. f.conv \notin Numbers
    BY <1>4 DEF Numbers
  <2> QED
    BY <1>4, <2>1, <2>2, TextPrints DEF OutputKeeps
<1>5. CASE f.conv = "c"
  <2>1. OutputOf(f) = Padded(f, <<f.char>>)
    BY <1>5 DEF OutputOf
  <2>2. f.conv \notin Numbers
    BY <1>5 DEF Numbers
  <2> QED
    BY <1>5, <2>1, <2>2, CharacterPrints DEF OutputKeeps
<1> QED
  BY <1>1, <1>2, <1>3, <1>4, <1>5 DEF IsField, Fields, Numbers

-----------------------------------------------------------------------------
(* How far the format has been read, and what it has put out since.         *)
Plain == printCall.format[2]
Counter == printCall.format[3]
Whole == OutputOf(Field) \o OutputOf(Plain)

AtField == items = printCall.format /\ todo = <<>> /\ said = <<>>
AtPlain == Len(items) = 2 /\ items[1] = Plain /\ items[2] = Counter /\ said \o todo = OutputOf(Field)
AtCounter == Len(items) = 1 /\ items[1] = Counter /\ said \o todo = Whole
AtEnd == items = <<>> /\ todo = <<>> /\ said = Whole /\ stored = <<AsInt(Len(said))>>

OutputInv ==
  /\ printCall.format \in Format
  /\ AtField \/ AtPlain \/ AtCounter \/ AtEnd
  /\ printed # <<>> => printed = <<linx_size_to_int(Len(said))>>

(* A format is a conversion, one other character, and %n.                   *)
LEMMA FormatParts ==
  ASSUME printCall.format \in Format
  PROVE  /\ printCall.format \in Seq(Item) /\ Len(printCall.format) = 3
         /\ OutputOf(Field) \in Seq(STRING) /\ OutputOf(Plain) \in Seq(STRING) /\ Len(OutputOf(Plain)) = 1
         /\ Counter.conv = "n" /\ OutputOf(Counter) = <<>>
         /\ Field.conv \in Fields => IsField(Field)
<1>1. /\ printCall.format \in Seq(Item) /\ Len(printCall.format) = 3
      /\ Plain.conv = "plain" /\ Counter.conv = "n"
  BY StdioAssumption, FormatAssumption DEF Plain, Counter
<1>2. Field \in Item /\ Plain \in Item
  BY <1>1, ElementOfSeq DEF Field, Plain
<1>3. OutputOf(Plain) = <<Plain.char>> /\ OutputOf(Counter) = <<>>
  BY <1>1 DEF OutputOf
<1>4. OutputOf(Field) \in Seq(STRING) /\ OutputOf(Plain) \in Seq(STRING)
  BY <1>2, OutputAssumption
<1>5. Field.conv \in Fields => IsField(Field)
  <2>1. SUFFICES ASSUME Field.conv \in Fields PROVE IsField(Field)
    OBVIOUS
  <2> DEFINE f == Field
  <2>2. /\ \A w \in {f.width, f.precision} : w \in Seq(Int) /\ Len(w) <= 1
        /\ f.conv \in Numbers => f.v \in Int
        /\ f.conv = "p" => f.v >= 0
        /\ f.conv = "s" => f.text \in Seq(STRING \ {Blank})
        /\ f.conv = "c" => f.char \in STRING \ {Blank}
    BY <2>1, FormatAssumption DEF Field
  <2> QED
    BY <2>1, <2>2 DEF IsField
<1> QED
  BY <1>1, <1>3, <1>4, <1>5

(* Nothing is put out at first.                                             *)
LEMMA OutputBegins == StdioInit => OutputInv
BY DEF StdioInit, OutputInv, AtField

(* An item is read: what it puts out follows what has been put out.         *)
LEMMA ItemRead == ASSUME StdioInv, OutputInv, NextItem PROVE OutputInv'
<1>1. /\ printCall' = printCall /\ said' = said /\ printed' = printed /\ count = Len(said)
      /\ items # <<>> /\ todo = <<>> /\ items \in Seq(Item) /\ said \in Seq(STRING)
      /\ printCall.format \in Format
  BY DEF NextItem, StdioInv, StdioTypes, BufferHoldsBeginning, OutputInv
<1>2. /\ Len(items) \in Nat /\ Head(items) = items[1] /\ Tail(items) \in Seq(Item)
      /\ Len(Tail(items)) = Len(items) - 1
      /\ \A i \in 1 .. Len(items) - 1 : Tail(items)[i] = items[i + 1]
  BY <1>1, HeadTailProperties, LenProperties
<1>3. /\ items' = Tail(items) /\ todo' = OutputOf(items[1])
      /\ stored' = IF items[1].conv = "n" THEN <<AsInt(count)>> ELSE stored
  BY <1>2 DEF NextItem
<1>4. Field' = Field /\ Plain' = Plain /\ Counter' = Counter /\ Whole' = Whole
      /\ OutputOf(Field)' = OutputOf(Field)
  BY <1>1 DEF Field, Plain, Counter, Whole
<1>5. /\ said \o <<>> = said /\ \A s \in Seq(STRING) : <<>> \o s = s
  BY <1>1, ConcatEmptySeq
<1>6. CASE AtField
  <2>1. Len(items) = 3 /\ items[1] = Field /\ items[2] = Plain /\ items[3] = Counter /\ said = <<>>
    BY <1>1, <1>6, FormatParts DEF AtField, Field, Plain, Counter
  <2>2. Len(items') = 2 /\ items'[1] = Plain /\ items'[2] = Counter
    <3> DEFINE r == Tail(items)
    <3>1. Len(r) = 2 /\ \A i \in 1 .. 2 : r[i] = items[i + 1]
      BY <1>2, <2>1
    <3> HIDE DEF r
    <3>2. 1 \in 1 .. 2 /\ 2 \in 1 .. 2 /\ 1 + 1 = 2 /\ 2 + 1 = 3
      OBVIOUS
    <3>3. r[1] = items[2] /\ r[2] = items[3]
      BY <3>1, <3>2
    <3> QED
      BY <1>3, <2>1, <3>1, <3>3 DEF r
  <2>3. said' \o todo' = OutputOf(Field)
    BY <1>1, <1>3, <1>5, <2>1, FormatParts
  <2>4. AtPlain'
    BY <1>4, <2>2, <2>3 DEF AtPlain
  <2> QED
    BY <1>1, <2>4 DEF OutputInv
<1>7. CASE AtPlain
  <2>1. Len(items) = 2 /\ items[1] = Plain /\ items[2] = Counter /\ said = OutputOf(Field)
    BY <1>1, <1>5, <1>7 DEF AtPlain
  <2>2. Len(items') = 1 /\ items'[1] = Counter
    BY <1>2, <1>3, <2>1
  <2>3. said' \o todo' = Whole
    BY <1>1, <1>3, <2>1 DEF Whole
  <2>4. AtCounter'
    BY <1>4, <2>2, <2>3 DEF AtCounter
  <2> QED
    BY <1>1, <2>4 DEF OutputInv
<1>8. CASE AtCounter
  <2>1. Len(items) = 1 /\ items[1] = Counter /\ said = Whole
    BY <1>1, <1>5, <1>8 DEF AtCounter
  <2>2. items' = <<>>
    BY <1>2, <1>3, <2>1, EmptySeq
  <2>3. todo' = <<>> /\ stored' = <<AsInt(Len(said))>>
    BY <1>1, <1>3, <2>1, FormatParts
  <2>4. AtEnd'
    <3>1. AsInt(Len(said))' = AsInt(Len(said))
      BY <1>1 DEF AsInt, IntLimit
    <3> QED
      BY <1>1, <1>4, <2>1, <2>2, <2>3, <3>1 DEF AtEnd
  <2> QED
    BY <1>1, <2>4 DEF OutputInv
<1>9. CASE AtEnd
  BY <1>1, <1>9 DEF AtEnd
<1> QED
  BY <1>6, <1>7, <1>8, <1>9 DEF OutputInv

(* A character is put out: it goes over from what is to be put out.         *)
LEMMA CharacterOut == ASSUME StdioInv, OutputInv, linx_outc PROVE OutputInv'
<1>1. /\ printCall' = printCall /\ items' = items /\ printed' = printed
      /\ todo # <<>> /\ todo \in Seq(STRING) /\ said \in Seq(STRING)
      /\ printCall.format \in Format
      /\ said' = Append(said, Head(todo)) /\ todo' = Tail(todo)
      /\ printed = <<>>
  BY DEF linx_outc, StdioInv, StdioTypes, OutputInv
<1>2. said' \o todo' = said \o todo
  <2> DEFINE c == Head(todo)
             r == Tail(todo)
  <2>1. c \in STRING /\ r \in Seq(STRING) /\ todo = <<c>> \o r
    <3>1. /\ c \in STRING /\ c = todo[1] /\ r \in Seq(STRING) /\ Len(todo) \in Nat /\ Len(r) = Len(todo) - 1
          /\ \A i \in 1 .. Len(r) : r[i] = todo[i + 1]
      BY <1>1, HeadTailProperties, LenProperties
    <3> HIDE DEF c, r
    <3> DEFINE w == <<c>>
               t == w \o r
    <3>2. w \in Seq(STRING) /\ Len(w) = 1 /\ w[1] = c
      BY <3>1
    <3> HIDE DEF w
    <3>3. /\ t \in Seq(STRING) /\ Len(t) = Len(todo)
          /\ \A i \in 1 .. Len(todo) : t[i] = IF i <= 1 THEN w[i] ELSE r[i - 1]
      <4>1. /\ t \in Seq(STRING) /\ Len(t) = Len(w) + Len(r)
            /\ \A i \in 1 .. Len(w) + Len(r) : t[i] = IF i <= Len(w) THEN w[i] ELSE r[i - Len(w)]
        <5>1. w \in Seq(STRING) /\ r \in Seq(STRING)
          BY <3>1, <3>2
        <5> QED
          BY <5>1, ConcatProperties, Zenon
      <4>2. Len(w) = 1 /\ Len(w) + Len(r) = Len(todo)
        BY <3>1, <3>2
      <4> HIDE DEF t
      <4>3. ASSUME NEW i \in 1 .. Len(todo) PROVE t[i] = IF i <= 1 THEN w[i] ELSE r[i - 1]
        <5>1. i \in 1 .. Len(w) + Len(r)
          BY <4>2, Zenon
        <5>2. t[i] = IF i <= Len(w) THEN w[i] ELSE r[i - Len(w)]
          BY <4>1, <5>1, Zenon
        <5> QED
          BY <4>2, <5>2, Zenon
      <4> QED
        BY <4>1, <4>2, <4>3, Zenon
    <3> HIDE DEF t
    <3>4. ASSUME NEW i \in 1 .. Len(todo) PROVE t[i] = todo[i]
      <4>1. CASE i = 1
        BY <3>1, <3>2, <3>3, <4>1
      <4>2. CASE i # 1
        <5>1. i - 1 \in 1 .. Len(r) /\ (i - 1) + 1 = i /\ ~(i <= 1)
          BY <3>1, <4>2
        <5> QED
          BY <3>1, <3>3, <5>1
      <4> QED
        BY <4>1, <4>2
    <3>5. t = todo
      BY <1>1, <3>3, <3>4, SeqEqual
    <3> QED
      BY <3>1, <3>5 DEF t, w
  <2> HIDE DEF c, r
  <2>2. Append(said, c) = said \o <<c>> /\ <<c>> \in Seq(STRING)
    BY <1>1, <2>1, AppendIsConcat
  <2>3. (said \o <<c>>) \o r = said \o (<<c>> \o r)
    BY <1>1, <2>1, <2>2, ConcatAssociative
  <2> QED
    BY <1>1, <2>1, <2>2, <2>3 DEF c, r
<1>3. Field' = Field /\ Plain' = Plain /\ Counter' = Counter /\ Whole' = Whole
      /\ OutputOf(Field)' = OutputOf(Field)
  BY <1>1 DEF Field, Plain, Counter, Whole
<1>4. AtPlain \/ AtCounter
  BY <1>1 DEF OutputInv, AtField, AtEnd
<1>5. AtPlain => AtPlain'
  BY <1>1, <1>2, <1>3 DEF AtPlain
<1>6. AtCounter => AtCounter'
  BY <1>1, <1>2, <1>3 DEF AtCounter
<1> QED
  BY <1>1, <1>4, <1>5, <1>6 DEF OutputInv

(* The result counts what has been put out. *)
LEMMA CountReturned == ASSUME StdioInv, OutputInv, PrintReturn PROVE OutputInv'
<1>1. /\ printCall' = printCall /\ items' = items /\ todo' = todo /\ said' = said /\ stored' = stored
      /\ items = <<>> /\ printed' = <<linx_size_to_int(count)>> /\ count = Len(said)
      /\ printCall.format \in Format
  BY DEF PrintReturn, StdioInv, StdioTypes, OutputInv, BufferHoldsBeginning
<1>2. AtEnd
  <2>1. Len(items) = 0
    BY <1>1
  <2>2. ~AtField
    <3>1. Len(printCall.format) = 3
      BY <1>1, FormatParts
    <3> QED
      BY <2>1, <3>1 DEF AtField
  <2> QED
    BY <2>1, <2>2 DEF OutputInv, AtPlain, AtCounter
<1>3. AtEnd'
  BY <1>1, <1>2 DEF AtEnd, Whole, Field, Plain, AsInt, IntLimit
<1>4. printed' = <<linx_size_to_int(Len(said'))>>
  BY <1>1
<1> QED
  BY <1>1, <1>3, <1>4 DEF OutputInv, linx_size_to_int, IntLimit

(* Every step keeps that.                                                   *)
LEMMA OutputKept == StdioInv /\ OutputInv /\ [StdioNext]_stdioVars => OutputInv'
<1>1. ASSUME OutputInv, UNCHANGED stdioVars PROVE OutputInv'
  BY <1>1 DEF stdioVars, OutputInv, AtField, AtPlain, AtCounter, AtEnd, Whole, Field, Plain, Counter,
              AsInt, IntLimit, linx_size_to_int
<1> QED
  BY <1>1, ItemRead, CharacterOut, CountReturned DEF StdioNext

(* The int that %n stores is the count, if it fits. *)
LEMMA CountFits == ASSUME NEW n \in Nat, n <= IntLimit PROVE AsInt(n) = n
<1> DEFINE m == 2^IntBits
           h == 2^(IntBits - 1)
<1>1. IntBits \in Nat /\ IntBits - 1 \in Nat /\ (IntBits - 1) + 1 = IntBits
  BY StdioAssumption
<1>2. h \in Nat /\ m = h + h
  <2> DEFINE k == IntBits - 1
  <2>1. Pw(k) \in Nat /\ Pw(k + 1) = Pw(k) + Pw(k)
    BY <1>1, PwBasics
  <2>2. Pw(k) = h /\ Pw(k + 1) = m
    BY <1>1 DEF Pw
  <2> QED
    BY <2>1, <2>2
<1> HIDE DEF m, h
<1>3. n < h
  BY <1>2 DEF IntLimit, h
<1>4. n % m = n
  BY <1>2, <1>3
<1>5. ~(n > IntLimit)
  BY <1>2 DEF IntLimit, h
<1>6. n % 2^IntBits = n
  BY <1>4 DEF m
<1> QED
  BY <1>5, <1>6 DEF AsInt

(* At the return, the conversion has been put out.                          *)
LEMMA OutputAsAsked == StdioInv /\ OutputInv => PrintsAsAsked
<1> SUFFICES ASSUME StdioInv, OutputInv, printed # <<>> PROVE
       /\ printed[1] = (IF Len(said) > IntLimit THEN IntLimit ELSE Len(said))
       /\ Len(said) <= IntLimit => stored = <<Len(said)>>
       /\ Field.conv \in Fields => FitsWidth(Field, Printed)
       /\ Field.conv \in Numbers => MarkedAsAsked(Field, Printed) /\ ReadsBack(Field, Printed)
       /\ Field.conv \in {"s", "c"} => TextAsAsked(Field, Printed)
  BY DEF StdioInv, PrintsAsAsked
<1>1. printed[1] = linx_size_to_int(Len(said)) /\ printCall.format \in Format /\ said \in Seq(STRING)
  BY DEF OutputInv, StdioInv, StdioTypes
<1>2. AtEnd
  <2>1. items = <<>> /\ Len(items) = 0
    BY DEF StdioInv, StdioTypes
  <2>2. ~AtField
    <3>1. Len(printCall.format) = 3
      BY <1>1, FormatParts
    <3> QED
      BY <2>1, <3>1 DEF AtField
  <2> QED
    BY <2>1, <2>2 DEF OutputInv, AtPlain, AtCounter
<1>3. Len(said) <= IntLimit => stored = <<Len(said)>>
  BY <1>1, <1>2, CountFits, LenProperties DEF AtEnd
<1>4. Printed = OutputOf(Field)
  <2> DEFINE x == OutputOf(Field)
             y == OutputOf(Plain)
             s == SubSeq(said, 1, Len(said) - 1)
  <2>1. x \in Seq(STRING) /\ y \in Seq(STRING) /\ Len(y) = 1 /\ said = x \o y
    BY <1>1, <1>2, FormatParts DEF AtEnd, Whole
  <2> HIDE DEF x, y
  <2>2. Len(x) \in Nat /\ Len(said) = Len(x) + 1 /\ \A i \in 1 .. Len(x) : said[i] = x[i]
    <3>1. Len(x) \in Nat /\ Len(y) = 1
      BY <2>1, LenProperties
    <3>2. /\ Len(x \o y) = Len(x) + Len(y)
          /\ \A i \in 1 .. Len(x) + Len(y) : (x \o y)[i] = IF i <= Len(x) THEN x[i] ELSE y[i - Len(x)]
      BY <2>1, ConcatProperties
    <3>3. \A i \in 1 .. Len(x) : i \in 1 .. Len(x) + Len(y) /\ i <= Len(x)
      BY <3>1
    <3>4. \A i \in 1 .. Len(x) : (x \o y)[i] = x[i]
      BY <3>2, <3>3, Zenon
    <3>5. Len(x \o y) = Len(x) + 1
      BY <3>1, <3>2
    <3> QED
      BY <2>1, <3>1, <3>4, <3>5, Zenon
  <2>3. /\ Len(said) - 1 = Len(x)
        /\ \A i \in 1 .. Len(x) : said[i] \in STRING
    BY <2>1, <2>2, ElementOfSeq
  <2>4. /\ SubSeq(said, 1, Len(x)) \in Seq(STRING) /\ Len(SubSeq(said, 1, Len(x))) = Len(x)
        /\ \A i \in 1 .. Len(x) : SubSeq(said, 1, Len(x))[i] = x[i]
    BY <2>1, <2>2, <2>3
  <2>5. SubSeq(said, 1, Len(x)) = x
    BY <2>1, <2>4, SeqEqual
  <2> QED
    BY <2>3, <2>5 DEF Printed, x
<1>5. Field.conv \in Fields => OutputKeeps(Field, Printed)
  BY <1>1, <1>4, FormatParts, OutputPrints
<1>6. Field.conv \in Numbers \cup {"s", "c"} => Field.conv \in Fields
  BY DEF Fields
<1> QED
  BY <1>1, <1>3, <1>5, <1>6 DEF OutputKeeps, linx_size_to_int

(* Whatever the flags, width and precision, every conversion of printf prints *)
(* its argument so that it reads back, as wide and as precise as asked for,   *)
(* and the result and %n count what is put out, up to the largest int         *)
(* (stdio.c: linx_vformat, linx_format_uint, linx_utoa_rev).                  *)
THEOREM PrintsAsAskedAll == StdioSpec => []PrintsAsAsked
<1>1. StdioInit => StdioInv /\ OutputInv
  BY StdioBegins, OutputBegins
<1>2. StdioInv /\ OutputInv /\ [StdioNext]_stdioVars => StdioInv' /\ OutputInv'
  BY StdioKept, OutputKept
<1> QED
  BY <1>1, <1>2, OutputAsAsked, PTL DEF StdioSpec

-----------------------------------------------------------------------------
(* A step of the run is a step of the heap and of the exit functions, or    *)
(* none of them.                                                            *)
LEMMA LibcSteps == [LibcNext]_libcVars => [HeapNext]_heapVars /\ [ExitNext]_exitVars
BY DEF LibcNext, HeapPart, ExitPart, FloatPart, StringPart, PrintPart, libcVars

(* The run behaves as the heap and as the exit functions.                   *)
LEMMA LibcHasParts == LibcSpec => HeapSpec /\ ExitSpec
<1>1. LibcInit => HeapInit /\ ExitInit
  BY DEF LibcInit
<1>2. LibcSpec => HeapSpec
  BY <1>1, LibcSteps, PTL DEF LibcSpec, HeapSpec
<1>3. LibcSpec => ExitSpec
  BY <1>1, LibcSteps, PTL DEF LibcSpec, ExitSpec
<1> QED
  BY <1>2, <1>3

(* The parts of the library side by side keep the types of the heap and of   *)
(* the table of handlers.                                                    *)
THEOREM LibcTypesHold == LibcSpec => []LibcTypeOK
<1>1. HeapTypeOK /\ ExitTypeOK => LibcTypeOK
  BY DEF LibcTypeOK
<1> QED
  BY <1>1, LibcHasParts, HeapTypesHold, ExitTypesHold, PTL

(* A call of a string function or of a print function is made in its part    *)
(* alone.                                                                    *)
TextInv ==
  /\ part \in {"heap", "exit", "float", "string", "print"}
  /\ IF part = "string" THEN StringInv ELSE NoText
  /\ IF part = "print" THEN StdioInv /\ OutputInv ELSE NoPrint

(* It holds at first. *)
LEMMA TextBegins == LibcInit => TextInv
BY StringInductive, StdioBegins, OutputBegins DEF LibcInit, TextInv

(* Every step keeps it. *)
LEMMA TextKept == TextInv /\ [LibcNext]_libcVars => TextInv'
<1> SUFFICES ASSUME TextInv, [LibcNext]_libcVars PROVE TextInv'
  OBVIOUS
<1>1. part' = part
  BY DEF LibcNext, HeapPart, ExitPart, FloatPart, StringPart, PrintPart, libcVars
<1>2. IF part = "string" THEN StringInv' ELSE NoText'
  <2>1. CASE part = "string"
    <3>1. [StringReturn]_stringVars
      BY DEF LibcNext, HeapPart, ExitPart, FloatPart, StringPart, PrintPart, libcVars
    <3> QED
      BY <2>1, <3>1, StringInductive DEF TextInv
  <2>2. CASE part # "string"
    <3>1. UNCHANGED stringVars
      BY <2>2 DEF LibcNext, HeapPart, ExitPart, FloatPart, StringPart, PrintPart, libcVars
    <3> QED
      BY <2>2, <3>1 DEF TextInv, NoText, stringVars
  <2> QED
    BY <2>1, <2>2
<1>3. IF part = "print" THEN StdioInv' /\ OutputInv' ELSE NoPrint'
  <2>1. CASE part = "print"
    <3>1. [StdioNext]_stdioVars
      BY DEF LibcNext, HeapPart, ExitPart, FloatPart, StringPart, PrintPart, libcVars
    <3> QED
      BY <2>1, <3>1, StdioKept, OutputKept DEF TextInv
  <2>2. CASE part # "print"
    <3>1. UNCHANGED stdioVars
      BY <2>2 DEF LibcNext, HeapPart, ExitPart, FloatPart, StringPart, PrintPart, libcVars
    <3> QED
      BY <2>2, <3>1 DEF TextInv, NoPrint, stdioVars
  <2> QED
    BY <2>1, <2>2
<1> QED
  BY <1>1, <1>2, <1>3 DEF TextInv

(* Floats are computed with in their part alone.                            *)
FloatPartInv == IF part = "float" THEN call \in Calls /\ FloatInv ELSE NoCall

(* It holds at first. *)
LEMMA FloatBegins == LibcInit => FloatPartInv
BY DEF LibcInit, FloatPartInv, FloatInit, FloatInv

(* Every step keeps it. *)
LEMMA FloatKept == FloatPartInv /\ [LibcNext]_libcVars => FloatPartInv'
<1> SUFFICES ASSUME FloatPartInv, [LibcNext]_libcVars PROVE FloatPartInv'
  OBVIOUS
<1>1. part' = part
  BY DEF LibcNext, HeapPart, ExitPart, FloatPart, StringPart, PrintPart, libcVars
<1>2. CASE part = "float"
  <2>1. [FloatReturn]_floatVars
    BY DEF LibcNext, HeapPart, ExitPart, FloatPart, StringPart, PrintPart, libcVars
  <2> QED
    BY <1>1, <1>2, <2>1, ReturnKeeps DEF FloatPartInv
<1>3. CASE part # "float"
  <2>1. UNCHANGED floatVars
    BY <1>3 DEF LibcNext, HeapPart, ExitPart, FloatPart, StringPart, PrintPart, libcVars
  <2> QED
    BY <1>1, <1>3, <2>1 DEF FloatPartInv, NoCall, floatVars
<1> QED
  BY <1>2, <1>3

(* Where no call is made there is nothing to ask of a result.               *)
LEMMA NoCallNoResult == NoCall => FloatInv
BY DEF NoCall, FloatInv

(* What the run checks of these parts, in the run: blocks stay whole,        *)
(* handlers run in reverse and all of them, the finisher is told of the      *)
(* latest request, floats are compared, converted and computed with as they  *)
(* should, strings keep their contracts, and printf prints as asked for and   *)
(* overflows no buffer.                                                      *)
THEOREM LibcInvariantsHold ==
  LibcSpec => [](/\ BlocksStayWhole
                 /\ LatestRunsFirst /\ NoneLeftBehind /\ StatusOfLatestRequest
                 /\ ArithmeticIsRounded /\ ComparisonsOrder /\ ConversionsRound
                 /\ StringsKeepContracts /\ PrintsAsAsked)
<1>1. TextInv => StringsKeepContracts
  <2>1. NoText => StringsKeepContracts
    BY DEF NoText, StringsKeepContracts
  <2> QED
    BY <2>1, InvKeepsContracts DEF TextInv
<1>2. TextInv => PrintsAsAsked
  <2>1. NoPrint => PrintsAsAsked
    <3> SUFFICES ASSUME NoPrint PROVE PrintsAsAsked
      OBVIOUS
    <3>1. ~Bounded /\ Kept = 0 /\ Len(said) = 0
      BY DEF NoPrint, Bounded, Kept
    <3>2. \A a \in BufAddr : ~(a < 0)
      BY StdioAssumption
    <3>3. BufferHoldsBeginning
      BY <3>1, <3>2 DEF NoPrint, BufferHoldsBeginning
    <3> QED
      BY <3>3 DEF NoPrint, PrintsAsAsked
  <2> QED
    BY <2>1, OutputAsAsked DEF TextInv
<1>3. LibcSpec => []TextInv
  BY TextBegins, TextKept, PTL DEF LibcSpec
<1>4. FloatPartInv => ArithmeticIsRounded /\ ComparisonsOrder /\ ConversionsRound
  BY InvRounds, InvCompares, InvConverts, NoCallNoResult DEF FloatPartInv
<1>5. LibcSpec => []FloatPartInv
  BY FloatBegins, FloatKept, PTL DEF LibcSpec
<1> QED
  BY <1>1, <1>2, <1>3, <1>4, <1>5, LibcHasParts, BlocksLieApart, HandlersRunInReverse, HandlersAllRun, FinisherIsTold, PTL
=============================================================================
