------------------------------ MODULE LibcString ------------------------------
(***************************************************************************)
(* Memory and string functions of the freestanding C library                *)
(* (avs/runtime/freestanding/src/string: mem.c, str.c).  Memory is a byte   *)
(* for each address from 0; NULL stands for no address.  A behaviour is one *)
(* call, with memory as it is before and after.                             *)
(***************************************************************************)
EXTENDS Integers, FiniteSets

CONSTANTS
  MemSize,        \* bound: bytes of memory in calls of mem functions
  TextSize,       \* bound: bytes of memory in calls of str functions
  WordBytes,      \* bytes that memcpy copies at once: 4
  Image,          \* contents of memory in calls of mem functions
  Char            \* bytes of the strings, 0 among them

ASSUME StringAssumption ==
  /\ {MemSize, TextSize, WordBytes} \subseteq Nat \ {0}
  /\ Image \subseteq [0 .. MemSize - 1 -> Nat]
  /\ Char \subseteq Nat /\ 0 \in Char

VARIABLES strCall, before, after, returned

stringVars == <<strCall, before, after, returned>>

Null == -1

(* k bytes from s to d, the first one first. *)
Upward(m, d, s, k) ==
  LET done[i \in 0 .. k] ==
        IF i = 0 THEN m ELSE [done[i - 1] EXCEPT ![d + i - 1] = done[i - 1][s + i - 1]]
  IN done[k]

(* k bytes from s to d, the last one first. *)
Downward(m, d, s, k) ==
  LET done[i \in 0 .. k] ==
        IF i = 0 THEN m ELSE [done[i - 1] EXCEPT ![d + k - i] = done[i - 1][s + k - i]]
  IN done[k]

(* A word is read before it is stored. *)
CopyWord(m, d, s) ==
  [a \in DOMAIN m |-> IF a \in d .. d + WordBytes - 1 THEN m[s + a - d] ELSE m[a]]

Smallest(S) == CHOOSE x \in S : \A y \in S : x <= y

(* How many words the middle loop of memcpy copies. *)
Words(d, s, n) == IF s % WordBytes = 0 /\ d % WordBytes = 0 THEN n \div WordBytes ELSE 0

(* Bytes up to the alignment of d, words while s is aligned too, the rest   *)
(* byte by byte.                                                            *)
memcpy(m, d, s, n) ==
  LET ahead == Smallest({k \in 0 .. n : (d + k) % WordBytes = 0 \/ k = n})
      words == Words(d + ahead, s + ahead, n - ahead)
      body[i \in 0 .. words] ==
        IF i = 0 THEN Upward(m, d, s, ahead)
        ELSE CopyWord(body[i - 1], d + ahead + (i - 1) * WordBytes, s + ahead + (i - 1) * WordBytes)
      copied == ahead + words * WordBytes
  IN Upward(body[words], d + copied, s + copied, n - copied)

(* Mutant: always upward. *)
memmove_Up(m, d, s, n) == Upward(m, d, s, n)

memmove(m, d, s, n) == IF d <= s THEN Upward(m, d, s, n) ELSE Downward(m, d, s, n)

memset(m, d, c, n) == [a \in DOMAIN m |-> IF a \in d .. d + n - 1 THEN c ELSE m[a]]

(* The first place below n where the bytes differ decides. *)
memcmp(m, a, b, n) ==
  LET differ == {i \in 0 .. n - 1 : m[a + i] # m[b + i]}
  IN IF differ = {} THEN 0 ELSE m[a + Smallest(differ)] - m[b + Smallest(differ)]

-----------------------------------------------------------------------------
(* Strings end within memory. *)
strlen(m, s) == Smallest({i \in DOMAIN m : i >= s /\ m[i] = 0}) - s

strcpy(m, d, s) == Upward(m, d, s, strlen(m, s) + 1)

CopyLen(len, size) == IF len >= size THEN size - 1 ELSE len

strlcpy(m, d, s, size) ==
  LET copy_len == CopyLen(strlen(m, s), size)
  IN IF size > 0 THEN [Upward(m, d, s, copy_len) EXCEPT ![d + copy_len] = 0] ELSE m

(* Up to n bytes, filled with zeros. *)
strncpy(m, d, s, n) ==
  LET len == IF strlen(m, s) < n THEN strlen(m, s) ELSE n
  IN memset(Upward(m, d, s, len), d + len, 0, n - len)

(* Where the loops of strcmp and strncmp stop: at the end of a string or    *)
(* where they differ.                                                       *)
Stop(m, a, b) ==
  Smallest({i \in DOMAIN m : /\ {a + i, b + i} \subseteq DOMAIN m
                             /\ m[a + i] = 0 \/ m[a + i] # m[b + i]})

strcmp(m, a, b) == LET i == Stop(m, a, b) IN m[a + i] - m[b + i]

(* n may run out first. *)
strncmp(m, a, b, n) == IF Stop(m, a, b) >= n THEN 0 ELSE strcmp(m, a, b)

(* Places of c in a string; the loops end before the terminator, so 0 is    *)
(* found nowhere.                                                           *)
PlacesOf(m, s, c) == {i \in s .. s + strlen(m, s) - 1 : m[i] = c}

strchr(m, s, c) == IF PlacesOf(m, s, c) = {} THEN Null ELSE Smallest(PlacesOf(m, s, c))

strrchr(m, s, c) ==
  IF PlacesOf(m, s, c) = {} THEN Null
  ELSE CHOOSE i \in PlacesOf(m, s, c) : \A j \in PlacesOf(m, s, c) : j <= i

(* Where the outer loop of strstr looks. *)
Starts(m, h) == h .. h + strlen(m, h) - 1

strstr(m, h, nd) ==
  LET found == {i \in Starts(m, h) : Stop(m, nd, i) = strlen(m, nd)}
  IN IF strlen(m, nd) = 0 THEN h ELSE IF found = {} THEN Null ELSE Smallest(found)

-----------------------------------------------------------------------------
(* One call (external): ranges lie in memory, strings end in it, and what   *)
(* is copied from and to lies apart, but for memmove.                       *)
Disjoint(d, n, s, k) == d + n <= s \/ s + k <= d

MemCalls ==
  {c \in [fn : {"memcpy", "memmove", "memcmp", "memset"}, a : 0 .. MemSize, b : 0 .. MemSize,
          n : 0 .. MemSize] :
     /\ c.a + c.n <= MemSize /\ c.b + c.n <= MemSize
     /\ c.fn = "memcpy" => Disjoint(c.a, c.n, c.b, c.n)}

TextCalls ==
  [fn : {"strcmp", "strstr", "strcpy"}, a : 0 .. TextSize - 1, b : 0 .. TextSize - 1, n : {0}]
    \cup [fn : {"strncmp", "strncpy", "strlcpy"}, a : 0 .. TextSize - 1, b : 0 .. TextSize - 1,
          n : 0 .. TextSize]
    \cup [fn : {"strchr", "strrchr"}, a : 0 .. TextSize - 1, b : {0}, n : Char]

MayCopy(m, c) ==
  /\ c.a + c.n <= TextSize /\ Disjoint(c.a, c.n, c.b, strlen(m, c.b) + 1)
  /\ c.fn = "strcpy" => /\ c.a + strlen(m, c.b) < TextSize
                        /\ Disjoint(c.a, strlen(m, c.b) + 1, c.b, strlen(m, c.b) + 1)

StringInit ==
  /\ \/ strCall \in MemCalls /\ before \in Image
     \/ /\ strCall \in TextCalls
        /\ before \in {m \in [0 .. TextSize - 1 -> Char] : m[TextSize - 1] = 0}
        /\ strCall.fn \in {"strcpy", "strncpy", "strlcpy"} => MayCopy(before, strCall)
  /\ after = before /\ returned = <<>>

Writes(fn) == fn \in {"memcpy", "memmove", "memset", "strcpy", "strncpy", "strlcpy"}

MemoryAfter(m, c) ==
  CASE c.fn = "memcpy"  -> memcpy(m, c.a, c.b, c.n)
    [] c.fn = "memmove" -> memmove(m, c.a, c.b, c.n)
    [] c.fn = "memset"  -> memset(m, c.a, 0, c.n)
    [] c.fn = "strcpy"  -> strcpy(m, c.a, c.b)
    [] c.fn = "strncpy" -> strncpy(m, c.a, c.b, c.n)
    [] c.fn = "strlcpy" -> strlcpy(m, c.a, c.b, c.n)
    [] OTHER -> m

Answered(m, c) ==
  CASE c.fn = "memcmp"  -> memcmp(m, c.a, c.b, c.n)
    [] c.fn = "strcmp"  -> strcmp(m, c.a, c.b)
    [] c.fn = "strncmp" -> strncmp(m, c.a, c.b, c.n)
    [] c.fn = "strchr"  -> strchr(m, c.a, c.n)
    [] c.fn = "strrchr" -> strrchr(m, c.a, c.n)
    [] c.fn = "strstr"  -> strstr(m, c.a, c.b)
    [] c.fn = "strlcpy" -> strlen(m, c.b)
    [] OTHER -> c.a

StringReturn ==
  /\ returned = <<>>
  /\ after' = MemoryAfter(before, strCall)
  /\ returned' = <<Answered(before, strCall)>>
  /\ UNCHANGED <<strCall, before>>

StringSpec == StringInit /\ [][StringReturn]_stringVars

-----------------------------------------------------------------------------
(* The n bytes at a, and the string at a, as they were before the call.     *)
Block(a, n) == [i \in 0 .. n - 1 |-> before[a + i]]
Str(a) ==
  CHOOSE t \in {Block(a, n) : n \in 0 .. TextSize - 1 - a} :
    /\ \A i \in DOMAIN t : t[i] # 0
    /\ before[a + Cardinality(DOMAIN t)] = 0
Length(t) == Cardinality(DOMAIN t)
Beginning(t, n) == [i \in {j \in DOMAIN t : j < n} |-> t[i]]
Filled(t, n) == [i \in 0 .. n - 1 |-> IF i \in DOMAIN t THEN t[i] ELSE 0]

(* Bytes t are at d, and all others are as they were. *)
Placed(d, t) ==
  after = [a \in DOMAIN before |-> IF a - d \in DOMAIN t THEN t[a - d] ELSE before[a]]

(* t comes before u in the order of a dictionary. *)
Precedes(t, u) ==
  \E i \in DOMAIN u : /\ Beginning(t, i) = Beginning(u, i)
                      /\ i \notin DOMAIN t \/ t[i] < u[i]

Orders(n, t, u) == (n < 0 <=> Precedes(t, u)) /\ (n > 0 <=> Precedes(u, t))

Occurs(u, i, t) == \A j \in DOMAIN u : i + j \in DOMAIN t /\ t[i + j] = u[j]

FirstOf(S) == IF S = {} THEN Null ELSE CHOOSE x \in S : \A y \in S : x <= y
LastOf(S) == IF S = {} THEN Null ELSE CHOOSE x \in S : \A y \in S : y <= x

(* Copies, also of overlapping blocks and by words, leave the bytes that     *)
(* were read at their target and every other byte alone; strlcpy ends its    *)
(* text within its size and tells when it was too long; comparisons follow  *)
(* the order of texts and searches find the first, or last, place.  strchr  *)
(* and strrchr do not find the terminator, as they should in C.             *)
StringsKeepContracts ==
  returned # <<>> =>
    LET c == strCall  r == returned[1]
    IN CASE c.fn \in {"memcpy", "memmove"} -> Placed(c.a, Block(c.b, c.n))
         [] c.fn = "memset"  -> Placed(c.a, [i \in 0 .. c.n - 1 |-> 0])
         [] c.fn = "strcpy"  -> Placed(c.a, Filled(Str(c.b), Length(Str(c.b)) + 1))
         [] c.fn = "strncpy" -> Placed(c.a, Filled(Str(c.b), c.n))
         [] c.fn = "strlcpy" ->
              LET kept == Beginning(Str(c.b), c.n - 1)
              IN /\ Placed(c.a, IF c.n = 0 THEN Block(0, 0) ELSE Filled(kept, Length(kept) + 1))
                 /\ r < c.n <=> c.n > 0 /\ kept = Str(c.b)
         [] c.fn = "memcmp"  -> Orders(r, Block(c.a, c.n), Block(c.b, c.n))
         [] c.fn = "strcmp"  -> Orders(r, Str(c.a), Str(c.b))
         [] c.fn = "strncmp" -> Orders(r, Beginning(Str(c.a), c.n), Beginning(Str(c.b), c.n))
         [] c.fn = "strchr"  -> r = FirstOf({c.a + i : i \in {j \in DOMAIN Str(c.a) : Str(c.a)[j] = c.n}})
         [] c.fn = "strrchr" -> r = LastOf({c.a + i : i \in {j \in DOMAIN Str(c.a) : Str(c.a)[j] = c.n}})
         [] c.fn = "strstr"  -> r = FirstOf({c.a + i : i \in {j \in 0 .. Length(Str(c.a)) : Occurs(Str(c.b), j, Str(c.a))}})
=============================================================================
