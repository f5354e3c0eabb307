------------------------------ MODULE LibcHeap ------------------------------
(***************************************************************************)
(* The heap of the freestanding C library (avs/runtime/freestanding/src/    *)
(* stdlib/stdlib.c): a bump allocator over the array linx_heap.  A size_t   *)
(* header before each block holds the requested size; free does nothing and *)
(* realloc copies into a new block.  Sizes and offsets are size_t, modulo   *)
(* SizeMod.  A pointer is an offset into linx_heap, 0 stands for NULL: no   *)
(* block starts there.                                                      *)
(*                                                                          *)
(* A cell of memory holds one byte, but for the first cell of a header,     *)
(* which holds the size.  The program stores bytes into its own blocks      *)
(* only (external).                                                         *)
(***************************************************************************)
EXTENDS Integers

CONSTANTS
  HeapSize,       \* LINX_HEAP_SIZE
  Header,         \* sizeof(size_t)
  Align,          \* _Alignof(max_align_t)
  SizeMod,        \* 2 to the number of bits of size_t
  Request,        \* sizes the program asks for
  Byte            \* bytes the program stores

ASSUME HeapAssumption ==
  /\ HeapSize \in Nat /\ SizeMod \in Nat /\ Header \in Nat \ {0} /\ Align \in Nat \ {0}
  /\ HeapSize + Header + Align <= SizeMod
  /\ SizeMod % Align = 0
  /\ Request \subseteq 0 .. SizeMod - 1
  /\ Byte \subseteq Int

VARIABLES
  off,            \* linx_heap_off
  mem,            \* linx_heap, cell by cell
  blocks,         \* the size asked for behind each pointer handed out
  ret             \* what the last call returned

heapVars == <<off, mem, blocks, ret>>

NULL == 0

HeapInit ==
  /\ off = 0
  /\ mem = [c \in 0 .. HeapSize - 1 |-> 0]
  /\ blocks = [p \in {} |-> 0]
  /\ ret = NULL

(* linx_align_up: the mask of the code drops the remainder by a power of    *)
(* two.                                                                     *)
AlignUp(v) ==
  LET sum == (v + Align - 1) % SizeMod IN sum - (sum % Align)

User == AlignUp((off + Header) % SizeMod)

(* Mutant: the sum is compared with the heap. *)
Fits_Sum(size) == size # 0 /\ (User + size) % SizeMod <= HeapSize

(* size is compared with the room left, not User + size with the heap: the  *)
(* sum may wrap.                                                            *)
Fits(size) == size # 0 /\ ~(User > HeapSize \/ size > (HeapSize - User) % SizeMod)

BumpTo(size) == (User + size) % SizeMod

(* A block is handed out: the header is written and the offset moves on.    *)
(* filled is memory with the bytes that the caller copies into the block.   *)
HandOut(size, filled) ==
  /\ mem' = [filled EXCEPT ![User - Header] = size]
  /\ off' = BumpTo(size)
  /\ blocks' = [p \in DOMAIN blocks \cup {User} |-> IF p = User THEN size ELSE blocks[p]]
  /\ ret' = User

Fails == ret' = NULL /\ UNCHANGED <<off, mem, blocks>>

Malloc ==
  \E size \in Request : IF Fits(size) THEN HandOut(size, mem) ELSE Fails

(* linx_min_size *)
MinSize(a, b) == IF a < b THEN a ELSE b

(* Mutant: as many bytes are copied as were asked for. *)
Copied_AsAsked(old, size) ==
  [c \in DOMAIN mem |->
     IF c \in User .. User + size - 1 THEN mem[old + (c - User)] ELSE mem[c]]

(* memcpy of the old block into the new one. *)
Copied(old, size) ==
  [c \in DOMAIN mem |->
     IF c \in User .. User + MinSize(mem[old - Header], size) - 1
     THEN mem[old + (c - User)] ELSE mem[c]]

(* realloc of a block; of NULL it is malloc. *)
Realloc ==
  \E old \in DOMAIN blocks, size \in Request :
    IF Fits(size) THEN HandOut(size, Copied(old, size)) ELSE Fails

(* Stores of the program into its own blocks. *)
StoreByte ==
  \E p \in DOMAIN blocks : \E i \in 0 .. blocks[p] - 1, v \in Byte :
    /\ mem' = [mem EXCEPT ![p + i] = v]
    /\ UNCHANGED <<off, blocks, ret>>

(* free is empty. *)
Free == \E p \in DOMAIN blocks : UNCHANGED heapVars

HeapNext == Malloc \/ Realloc \/ StoreByte \/ Free

HeapSpec == HeapInit /\ [][HeapNext]_heapVars

-----------------------------------------------------------------------------
(* The cells of a block and of its header. *)
Extent(p) == p - Header .. p + blocks[p] - 1

(* Types: offsets are within the heap, and a block is aligned to Align      *)
(* relative to the array.                                                   *)
HeapTypeOK ==
  /\ off \in 0 .. HeapSize
  /\ mem \in [0 .. HeapSize - 1 -> Int]
  /\ DOMAIN blocks \subseteq 1 .. HeapSize
  /\ \A p \in DOMAIN blocks : blocks[p] \in Nat \ {0} /\ p % Align = 0
  /\ ret \in {NULL} \cup DOMAIN blocks

Apart ==
  /\ \A p \in DOMAIN blocks : Extent(p) \subseteq 0 .. off - 1
  /\ \A p, q \in DOMAIN blocks : p # q => Extent(p) \cap Extent(q) = {}
HeadersHoldSizes == \A p \in DOMAIN blocks : mem[p - Header] = blocks[p]

(* However large the requests and in whatever order, every block with its   *)
(* header lies in the part of the heap already handed out and no two share  *)
(* a cell; and what the program stores never reaches a header: the size     *)
(* that realloc will read from memory is the size that was asked for.       *)
BlocksStayWhole == Apart /\ HeadersHoldSizes

(* The array behaves as separate objects: a new one is zero, as no memory   *)
(* is handed out twice, a store changes one of them, and realloc's result   *)
(* begins with the bytes of the old object.                                 *)
ObjectsOf ==
  [p \in DOMAIN blocks |-> [i \in 0 .. blocks[p] - 1 |-> mem[p + i]]]

Objects == INSTANCE ObjectStore WITH
  Pointer <- 1 .. HeapSize, Size <- Request \ {0}, Byte <- Byte, objects <- ObjectsOf

ObjectSpec == Objects!Spec
=============================================================================
