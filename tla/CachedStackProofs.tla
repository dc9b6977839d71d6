------------------------- MODULE CachedStackProofs -------------------------
(***************************************************************************)
(* While no sum wraps around, reserve_stack keeps its promise, and nothing *)
(* the client was given is ever unmapped under it.  Clients that ask for   *)
(* one size and place less than a page leave nothing mapped.               *)
(***************************************************************************)
EXTENDS CachedStack, TLAPS

(* Arithmetic modulo SizeMod is the identity on values that fit.           *)
LEMMA ModSmall ==
  ASSUME NEW m \in Nat \ {0}, NEW x \in Nat, x < m
  PROVE  x % m = x
OBVIOUS

(* Division by the page size.                                              *)
LEMMA DivMod ==
  ASSUME NEW P \in Nat \ {0}, NEW x \in Nat
  PROVE  x \div P \in Nat /\ (x \div P) * P <= x /\ x < (x \div P) * P + P
OBVIOUS

LEMMA DivMono ==
  ASSUME NEW P \in Nat \ {0}, NEW x \in Nat, NEW y \in Nat, x <= y
  PROVE  x \div P <= y \div P
<1> DEFINE a == x \div P
           b == y \div P
<1>1. a \in Nat /\ a * P <= x /\ b \in Nat /\ y < b * P + P
  BY DivMod
<1> HIDE DEF a, b
<1>2. ASSUME a >= b + 1 PROVE FALSE
  <2>1. a * P >= (b + 1) * P /\ (b + 1) * P = b * P + P
    BY <1>1, <1>2
  <2>2. a * P \in Nat /\ b * P \in Nat
    BY <1>1
  <2> QED BY <1>1, <2>1, <2>2
<1>3. a <= b
  BY <1>1, <1>2
<1> QED BY <1>3 DEF a, b

(* A shorter stretch of memory has fewer pages, an empty one has none.     *)
LEMMA PagesMono ==
  ASSUME NEW a \in Nat, NEW m \in Nat, NEW n \in Nat, m <= n
  PROVE  Pages(a, m) \subseteq Pages(a, n)
<1> USE StackAssumption
<1>1. /\ m + PageSz - 1 \in Nat /\ n + PageSz - 1 \in Nat
      /\ m + PageSz - 1 <= n + PageSz - 1
  OBVIOUS
<1>2. (m + PageSz - 1) \div PageSz <= (n + PageSz - 1) \div PageSz
  BY <1>1, DivMono
<1>3. /\ a \div PageSz \in Nat
      /\ (m + PageSz - 1) \div PageSz \in Nat
      /\ (n + PageSz - 1) \div PageSz \in Nat
  BY <1>1, DivMod
<1> QED BY <1>2, <1>3 DEF Pages

LEMMA NoPages == Pages(0, 0) = {}
<1> USE StackAssumption
<1> DEFINE q == (PageSz - 1) \div PageSz
           z == 0 \div PageSz
<1>1. q \in Nat /\ q * PageSz <= PageSz - 1
  BY DivMod
<1>2. z \in Nat
  BY DivMod
<1>3. Pages(0, 0) = z .. z + q - 1
  <2>1. 0 + PageSz - 1 = PageSz - 1
    OBVIOUS
  <2> QED BY <2>1 DEF Pages
<1> HIDE DEF q, z
<1>4. q = 0
  <2>1. ASSUME q >= 1 PROVE FALSE
    <3>1. q * PageSz >= PageSz
      BY <1>1, <2>1
    <3> QED BY <1>1, <3>1
  <2> QED BY <1>1, <2>1
<1> QED BY <1>2, <1>3, <1>4

(* align rounds up, by less than a page.                                   *)
LEMMA AlignRoundsUp ==
  ASSUME NEW sz \in Nat, sz + PageSz <= SizeMod
  PROVE  Align(sz) \in sz .. sz + PageSz - 1
<1> USE StackAssumption
<1> DEFINE r == sz % PageSz
<1>1. r \in 0 .. PageSz - 1
  OBVIOUS
<1> DEFINE x == sz + (IF r # 0 THEN PageSz - r ELSE 0)
<1>2. x \in sz .. sz + PageSz - 1
  BY <1>1
<1>3. Align(sz) = x % SizeMod
  BY DEF Align
<1> HIDE DEF x
<1>4. x \in Nat /\ x < SizeMod
  BY <1>2
<1> QED BY <1>2, <1>3, <1>4, ModSmall

(* The stack reserve_stack computes is large enough.                       *)
LEMMA StackSizeEnough ==
  ASSUME NoWrap, NEW r \in Requests
  PROVE  /\ StackSize(r[1], r[2]) \in 0 .. SizeMod - 1
         /\ StackSize(r[1], r[2]) >= Needed(r[1], r[2])
<1> USE StackAssumption
<1> DEFINE a == r[1] + Extra
           b == r[2] + ArgsSz
<1>1. r[1] \in Nat /\ r[2] \in Nat
  OBVIOUS
<1>2. a \in Nat /\ b \in Nat /\ a + b + 2 * PageSz <= SizeMod
  BY <1>1 DEF NoWrap, Needed
<1>3. StackSize(r[1], r[2]) = Align((Align(a % SizeMod) + (b % SizeMod)) % SizeMod)
  BY DEF StackSize
<1>4. Needed(r[1], r[2]) = a + b
  BY <1>1 DEF Needed
<1> HIDE DEF a, b
<1>5. a % SizeMod = a /\ b % SizeMod = b
  BY <1>2, ModSmall
<1>6. Align(a) \in a .. a + PageSz - 1
  BY <1>2, AlignRoundsUp
<1> DEFINE y == Align(a) + b
<1>7. y \in Nat /\ y < SizeMod /\ y + PageSz <= SizeMod /\ y >= a + b
  BY <1>2, <1>6
<1>8. StackSize(r[1], r[2]) = Align(y % SizeMod)
  BY <1>3, <1>5
<1> HIDE DEF y
<1>9. Align(y) \in y .. y + PageSz - 1
  BY <1>7, AlignRoundsUp
<1>10. y % SizeMod = y
  BY <1>7, ModSmall
<1>11. Align(y) \in 0 .. SizeMod - 1 /\ Align(y) >= a + b
  BY <1>2, <1>7, <1>9
<1> QED BY <1>4, <1>8, <1>10, <1>11

LEMMA ResizeKeeps ==
  ASSUME StackInv, live, NEW len \in 0 .. SizeMod - 1, Resize(len)
  PROVE  /\ addr' \in Nat /\ size' = len /\ top' \in Nat
         /\ mapped' \subseteq Memory
         /\ addr' + size' <= top' /\ Pages(addr', top' - addr') \subseteq mapped'
<1> USE StackAssumption DEF StackInv, CachedStackTypeOK
<1>1. ASSUME NEW a \in Nat, Place(a, len), Pages(a, len) \subseteq mapped',
             mapped' \subseteq Memory
      PROVE  /\ addr' \in Nat /\ size' = len /\ top' \in Nat
             /\ mapped' \subseteq Memory
             /\ addr' + size' <= top' /\ Pages(addr', top' - addr') \subseteq mapped'
  <2>1. top' - addr' = len
    BY <1>1 DEF Place
  <2> QED BY <1>1, <2>1 DEF Place
<1>2. CASE addr # 0
  <2>1. Mremap(len)
    BY <1>2 DEF Resize
  <2>2. CASE /\ Pages(addr, len) \ Pages(addr, size) \subseteq Memory \ mapped
             /\ mapped' = mapped \cup Pages(addr, len)
             /\ Place(addr, len)
    <3>1. Pages(addr, size) \subseteq mapped
      <4>1. Pages(addr, top - addr) \subseteq mapped /\ addr + size <= top
        BY DEF MemoryMapped
      <4>2. Pages(addr, size) \subseteq Pages(addr, top - addr)
        <5>1. size \in Nat /\ top - addr \in Nat /\ size <= top - addr
          BY <4>1
        <5> QED BY <5>1, PagesMono
      <4> QED BY <4>1, <4>2
    <3>2. mapped' \subseteq Memory
      BY <2>2, <3>1
    <3> QED BY <1>1, <2>2, <3>2
  <2>3. CASE \E p \in Memory :
               /\ Free(p * PageSz, len)
               /\ mapped' = (mapped \ Pages(addr, size)) \cup Pages(p * PageSz, len)
               /\ Place(p * PageSz, len)
    <3>1. PICK p \in Memory :
               /\ Free(p * PageSz, len)
               /\ mapped' = (mapped \ Pages(addr, size)) \cup Pages(p * PageSz, len)
               /\ Place(p * PageSz, len)
      BY <2>3
    <3>2. p * PageSz \in Nat
      OBVIOUS
    <3> QED BY <1>1, <3>1, <3>2 DEF Free
  <2> QED BY <2>1, <2>2, <2>3 DEF Mremap
<1>3. CASE addr = 0
  <2>1. PICK p \in Memory : /\ Free(p * PageSz, len)
                            /\ mapped' = mapped \cup Pages(p * PageSz, len)
                            /\ Place(p * PageSz, len)
    BY <1>3 DEF Resize, Mmap
  <2>2. p * PageSz \in Nat
    OBVIOUS
  <2> QED BY <1>1, <2>1, <2>2 DEF Free
<1> QED BY <1>2, <1>3

LEMMA StackInvInductive ==
  ASSUME NoWrap, StackInv, [Next]_vars
  PROVE  StackInv'
<1> USE StackAssumption DEF StackInv, CachedStackTypeOK
<1>1. CASE InitCachedStack
  <2>1. Pages(addr', top' - addr') = Pages(0, 0)
    BY <1>1 DEF InitCachedStack
  <2> QED BY <1>1, <2>1, NoPages DEF InitCachedStack, MemoryMapped, EnoughStack
<1>2. ASSUME NEW r \in Requests, ReserveStack(r[1], r[2])
      PROVE  StackInv'
  <2> DEFINE len == StackSize(r[1], r[2])
  <2>1. len \in 0 .. SizeMod - 1 /\ len >= Needed(r[1], r[2])
    BY StackSizeEnough
  <2>2. /\ Needed(r[1], r[2]) \in Nat /\ r[2] \in 0 .. SizeMod - 1
        /\ r[2] <= Needed(r[1], r[2])
    BY DEF Needed
  <2>3. live /\ live'
    BY <1>2 DEF ReserveStack
  <2> HIDE DEF len
  <2>4. CASE /\ ret' = "ok" /\ room' = r[2] /\ promise' = Needed(r[1], r[2])
             /\ size >= len /\ UNCHANGED <<addr, size, mapped, top>>
    <3>1. MemoryMapped'
      BY <2>3, <2>4 DEF MemoryMapped
    <3> QED BY <2>1, <2>2, <2>3, <2>4, <3>1 DEF EnoughStack
  <2>5. CASE /\ ret' = "ok" /\ room' = r[2] /\ promise' = Needed(r[1], r[2])
             /\ Resize(len)
    <3>1. /\ addr' \in Nat /\ size' = len /\ top' \in Nat
          /\ mapped' \subseteq Memory
          /\ addr' + size' <= top' /\ Pages(addr', top' - addr') \subseteq mapped'
      BY <2>1, <2>3, <2>5, ResizeKeeps
    <3>2. MemoryMapped'
      BY <3>1 DEF MemoryMapped
    <3>3. EnoughStack' /\ (live => room <= promise)'
      BY <2>1, <2>2, <2>5, <3>1 DEF EnoughStack
    <3>4. CachedStackTypeOK'
      BY <2>1, <2>2, <2>3, <2>5, <3>1
    <3> QED BY <3>2, <3>3, <3>4
  <2>6. CASE Fails
    <3>1. MemoryMapped'
      BY <2>3, <2>6 DEF Fails, MemoryMapped
    <3> QED BY <2>3, <2>6, <3>1 DEF Fails, EnoughStack
  <2> QED BY <1>2, <2>4, <2>5, <2>6 DEF ReserveStack, len
<1>3. ASSUME NEW r \in Requests, AllocateObj(r[2])
      PROVE  StackInv'
  <2>1. r[2] \in Nat /\ r[2] <= room /\ live
    BY <1>3 DEF AllocateObj, Carve
  <2>2. size - r[2] \in Nat /\ size - r[2] < SizeMod
    BY <2>1 DEF EnoughStack
  <2>3. size' = size - r[2]
    BY <1>3, <2>2, ModSmall DEF AllocateObj, Carve
  <2>4. MemoryMapped'
    BY <1>3, <2>1, <2>3 DEF AllocateObj, Carve, MemoryMapped
  <2> QED BY <1>3, <2>1, <2>2, <2>3, <2>4 DEF AllocateObj, Carve, EnoughStack
<1>4. CASE CleanupStack
  BY <1>4 DEF CleanupStack, Fails, MemoryMapped, EnoughStack
<1>5. CASE UNCHANGED vars
  BY <1>5 DEF vars, MemoryMapped, EnoughStack
<1> QED BY <1>1, <1>2, <1>3, <1>4, <1>5 DEF Next

(* StackInv holds throughout.                                              *)
LEMMA StackInvHolds ==
  ASSUME NoWrap
  PROVE  Spec => []StackInv
<1>1. Init => StackInv
  <2> SUFFICES ASSUME Init PROVE StackInv
    OBVIOUS
  <2>1. CachedStackTypeOK
    <3>1. 0 \in 0 .. SizeMod - 1
      BY StackAssumption
    <3>2. live \in BOOLEAN /\ ret \in {"ok", "err"} /\ mapped \subseteq Memory
      BY DEF Init
    <3> QED BY <3>1, <3>2 DEF Init, CachedStackTypeOK
  <2> QED BY <2>1 DEF Init, StackInv, MemoryMapped, EnoughStack
<1>2. StackInv /\ [Next]_vars => StackInv'
  BY StackInvInductive
<1> QED BY <1>1, <1>2, PTL DEF Spec

(* Type correctness of CachedStack; among it, that the recorded size is    *)
(* never taken below 0 and so around the end of size_t.                    *)
THEOREM StackTypeCorrect ==
  ASSUME NoWrap
  PROVE  Spec => []CachedStackTypeOK
BY StackInvHolds, PTL DEF StackInv

(* Whatever reserve_stack grows, moves or fails to grow, the stack and the *)
(* objects carved out of it lie in mapped memory.                          *)
THEOREM MemoryStaysMapped ==
  ASSUME NoWrap
  PROVE  Spec => []MemoryMapped
BY StackInvHolds, PTL DEF StackInv

(* Whatever a client reserves, allocates and reserves again, the child has *)
(* the stack it was promised, as long as the sizes fit into size_t.        *)
THEOREM ReserveKeepsItsPromise ==
  ASSUME NoWrap
  PROVE  Spec => []EnoughStack
BY StackInvHolds, PTL DEF StackInv
-----------------------------------------------------------------------------
(* Requests for which allocate_stack computes the same size, with objects  *)
(* that stay below a page.                                                 *)
SameSize(L) ==
  \A r \in Requests : StackSize(r[1], r[2]) = L /\ r[2] < PageSz

(* The mapping is what was asked for, and the recorded size never falls    *)
(* short of it by a page, even when all objects have been allocated.       *)
Covered(L) ==
  /\ \E k \in Nat \ {0} : L = k * PageSz
  /\ addr # 0 /\ mapped = Pages(addr, L)
  /\ size <= L /\ size - room > L - PageSz

CoverInv(L) ==
  /\ ~live => mapped = {}
  /\ live => (addr = 0 /\ mapped = {}) \/ Covered(L)

(* The quotient is determined by its bounds.                               *)
LEMMA DivUnique ==
  ASSUME NEW P \in Nat \ {0}, NEW k \in Nat, NEW x \in Nat,
         k * P <= x, x < k * P + P
  PROVE  x \div P = k
<1> DEFINE q == x \div P
<1>1. q \in Nat /\ q * P <= x /\ x < q * P + P
  BY DivMod
<1> HIDE DEF q
<1>2. q * P \in Nat /\ k * P \in Nat
  BY <1>1
<1>3. ASSUME q >= k + 1 PROVE FALSE
  <2>1. q * P >= (k + 1) * P /\ (k + 1) * P = k * P + P
    BY <1>1, <1>3
  <2> QED BY <1>1, <1>2, <2>1
<1>4. ASSUME k >= q + 1 PROVE FALSE
  <2>1. k * P >= (q + 1) * P /\ (q + 1) * P = q * P + P
    BY <1>1, <1>4
  <2> QED BY <1>1, <1>2, <2>1
<1>5. q = k
  BY <1>1, <1>3, <1>4
<1> QED BY <1>5 DEF q

(* align rounds up to whole pages.                                         *)
LEMMA AlignWhole ==
  ASSUME NEW sz \in Nat, sz + PageSz <= SizeMod
  PROVE  \E k \in Nat : Align(sz) = k * PageSz
<1> USE StackAssumption
<1> DEFINE q == sz \div PageSz
           r == sz % PageSz
           x == sz + (IF r # 0 THEN PageSz - r ELSE 0)
<1>1. q \in Nat /\ r \in 0 .. PageSz - 1 /\ sz = q * PageSz + r
  OBVIOUS
<1>2. Align(sz) = x % SizeMod
  BY DEF Align
<1> HIDE DEF q, r
<1>3. x \in Nat /\ x < SizeMod
  BY <1>1
<1>4. x = q * PageSz \/ x = (q + 1) * PageSz
  <2>1. (q + 1) * PageSz = q * PageSz + PageSz /\ q * PageSz \in Nat
    BY <1>1
  <2> QED BY <1>1, <2>1
<1>5. q + 1 \in Nat
  BY <1>1
<1> HIDE DEF x
<1>6. Align(sz) = x
  BY <1>2, <1>3, ModSmall
<1> QED BY <1>1, <1>4, <1>5, <1>6

(* reserve_stack asks for whole pages.                                     *)
LEMMA StackSizeWhole ==
  ASSUME NoWrap, NEW r \in Requests
  PROVE  \E k \in Nat : StackSize(r[1], r[2]) = k * PageSz
<1> USE StackAssumption
<1> DEFINE a == r[1] + Extra
           b == r[2] + ArgsSz
           y == Align(a) + b
<1>1. r[1] \in Nat /\ r[2] \in Nat
  OBVIOUS
<1>2. a \in Nat /\ b \in Nat /\ a + b + 2 * PageSz <= SizeMod
  BY <1>1 DEF NoWrap, Needed
<1>3. StackSize(r[1], r[2]) = Align((Align(a % SizeMod) + (b % SizeMod)) % SizeMod)
  BY DEF StackSize
<1> HIDE DEF a, b
<1>4. a % SizeMod = a /\ b % SizeMod = b
  BY <1>2, ModSmall
<1>5. Align(a) \in a .. a + PageSz - 1
  BY <1>2, AlignRoundsUp
<1>6. y \in Nat /\ y < SizeMod /\ y + PageSz <= SizeMod
  BY <1>2, <1>5
<1>7. StackSize(r[1], r[2]) = Align(y % SizeMod)
  BY <1>3, <1>4
<1> HIDE DEF y
<1>8. y % SizeMod = y
  BY <1>6, ModSmall
<1> QED BY <1>6, <1>7, <1>8, AlignWhole

(* The kernel rounds a size that is short by less than a page up again.    *)
LEMMA SamePages ==
  ASSUME NEW k \in Nat, NEW len \in Nat, NEW a \in Nat,
         len <= k * PageSz, k * PageSz < len + PageSz
  PROVE  Pages(a, len) = Pages(a, k * PageSz)
<1> USE StackAssumption
<1>1. (len + PageSz - 1) \div PageSz = k
  <2>1. len + PageSz - 1 \in Nat /\ k * PageSz \in Nat
    OBVIOUS
  <2>2. k * PageSz <= len + PageSz - 1 /\ len + PageSz - 1 < k * PageSz + PageSz
    BY <2>1
  <2> QED BY <2>1, <2>2, DivUnique
<1>2. (k * PageSz + PageSz - 1) \div PageSz = k
  <2>1. k * PageSz + PageSz - 1 \in Nat /\ k * PageSz \in Nat
    OBVIOUS
  <2>2. /\ k * PageSz <= k * PageSz + PageSz - 1
        /\ k * PageSz + PageSz - 1 < k * PageSz + PageSz
    BY <2>1
  <2> QED BY <2>1, <2>2, DivUnique
<1> QED BY <1>1, <1>2 DEF Pages

(* Every size the struct may record covers the mapping.                    *)
LEMMA CoveredPages ==
  ASSUME NEW L, StackInv, Covered(L)
  PROVE  /\ L \in Nat /\ size \in Nat /\ size - room > 0
         /\ Pages(addr, size) = mapped
<1> USE StackAssumption
<1>1. PICK k \in Nat \ {0} : L = k * PageSz
  BY DEF Covered
<1>2. L \in Nat /\ L >= PageSz
  BY <1>1
<1>3. size \in Nat /\ addr \in Nat /\ room \in Nat
  BY DEF StackInv, CachedStackTypeOK
<1>4. size <= L /\ L < size + PageSz /\ size - room > 0
  BY <1>2, <1>3 DEF Covered
<1>5. Pages(addr, size) = mapped
  BY <1>1, <1>3, <1>4, SamePages DEF Covered
<1> QED BY <1>2, <1>3, <1>4, <1>5

(* mmap maps L bytes; mremap, told a size that is short by less than a     *)
(* page, stays where it is.                                                *)
LEMMA ResizeCovers ==
  ASSUME StackInv, live, NEW k \in Nat, NEW L, L = k * PageSz, CoverInv(L),
         NEW obj \in Nat, obj < PageSz, room' = obj, Resize(L)
  PROVE  Covered(L)'
<1> USE StackAssumption
<1>1. L \in Nat /\ (L # 0 => k \in Nat \ {0}) /\ L - obj > L - PageSz
  OBVIOUS
<1>2. CASE addr = 0 /\ mapped = {}
  <2>1. PICK p \in Memory : /\ mapped' = mapped \cup Pages(p * PageSz, L)
                            /\ Place(p * PageSz, L)
    BY <1>2 DEF Resize, Mmap
  <2>2. L # 0
    BY <1>2 DEF Resize, Mmap
  <2>3. p * PageSz \in Nat /\ p * PageSz # 0
    BY SMT
  <2>4. addr' = p * PageSz /\ size' = L
    BY <2>1 DEF Place
  <2> QED BY <1>1, <1>2, <2>1, <2>2, <2>3, <2>4 DEF Covered
<1>3. CASE Covered(L)
  <2>1. addr # 0 /\ Pages(addr, size) = mapped /\ mapped = Pages(addr, L)
    BY <1>3, CoveredPages DEF Covered
  <2>2. mapped' = mapped \cup Pages(addr, L) /\ Place(addr, L)
    BY <2>1 DEF Resize, Mremap
  <2>3. addr' = addr /\ size' = L /\ mapped' = Pages(addr, L)
    BY <2>1, <2>2 DEF Place
  <2>4. \E n \in Nat \ {0} : L = n * PageSz
    BY <1>3 DEF Covered
  <2> QED BY <1>1, <2>1, <2>3, <2>4 DEF Covered
<1> QED BY <1>2, <1>3 DEF CoverInv

LEMMA NextCovers ==
  ASSUME NoWrap, NEW L, SameSize(L)
  PROVE  StackInv /\ CoverInv(L) /\ [Next]_vars => CoverInv(L)'
<1> SUFFICES ASSUME StackInv, CoverInv(L), [Next]_vars PROVE CoverInv(L)'
  OBVIOUS
<1> USE StackAssumption
<1>1. CASE InitCachedStack
  BY <1>1 DEF InitCachedStack, CoverInv
<1>2. ASSUME NEW r \in Requests, ReserveStack(r[1], r[2]) PROVE CoverInv(L)'
  <2>1. PICK k \in Nat : L = k * PageSz
    BY StackSizeWhole DEF SameSize
  <2>2. L = StackSize(r[1], r[2]) /\ r[2] \in Nat /\ r[2] < PageSz
    BY DEF SameSize
  <2>3. live /\ live' = live
    BY <1>2 DEF ReserveStack
  <2>4. CASE Fails
    BY <2>3, <2>4 DEF Fails, CoverInv, Covered
  <2>5. CASE room' = r[2] /\ Resize(L)
    BY <2>1, <2>2, <2>3, <2>5, ResizeCovers DEF CoverInv
  <2>6. CASE /\ addr # 0 /\ size >= L /\ room' = r[2]
             /\ UNCHANGED <<addr, size, mapped, top>>
    <3>1. Covered(L) /\ L \in Nat /\ size \in Nat
      BY <2>3, <2>6, CoveredPages DEF CoverInv
    <3>2. size' = L /\ L - r[2] > L - PageSz
      BY <2>2, <2>6, <3>1 DEF Covered
    <3> QED BY <2>3, <2>6, <3>1, <3>2 DEF CoverInv, Covered
  <2> QED BY <1>2, <2>2, <2>4, <2>5, <2>6 DEF ReserveStack
<1>3. ASSUME NEW r \in Requests, AllocateObj(r[2]) PROVE CoverInv(L)'
  <2>1. /\ live /\ live' = live /\ addr # 0 /\ addr' = addr
        /\ mapped' = mapped /\ r[2] <= room /\ room' = room - r[2]
        /\ size' = (size - r[2]) % SizeMod
    BY <1>3 DEF AllocateObj, Carve
  <2>2. Covered(L)
    BY <2>1 DEF CoverInv
  <2>3. /\ L \in Nat /\ size \in 0 .. SizeMod - 1 /\ room \in Nat
        /\ r[2] \in Nat /\ size - room > 0
    BY <2>2, CoveredPages DEF StackInv, CachedStackTypeOK
  <2>4. size - r[2] \in Nat /\ size - r[2] < SizeMod
    BY <2>1, <2>3
  <2>5. size' = size - r[2]
    BY <2>1, <2>4, ModSmall
  <2>6. size' <= L /\ size' - room' > L - PageSz
    BY <2>1, <2>2, <2>3, <2>5 DEF Covered
  <2> QED BY <2>1, <2>2, <2>6 DEF CoverInv, Covered
<1>4. CASE CleanupStack
  <2>1. CASE addr = 0 /\ mapped = {}
    BY <1>4, <2>1 DEF CleanupStack, CoverInv
  <2>2. CASE Covered(L)
    <3>1. size # 0 /\ addr # 0 /\ Pages(addr, size) = mapped
      <4>1. size \in Nat /\ room \in Nat /\ size - room > 0
        BY <2>2, CoveredPages DEF StackInv, CachedStackTypeOK
      <4> QED BY <2>2, <4>1, CoveredPages DEF Covered
    <3>2. CASE UNCHANGED <<addr, size, mapped, room, live>>
      BY <3>2 DEF CoverInv, Covered
    <3>3. CASE live' = FALSE /\ mapped' = mapped \ Pages(addr, size)
      BY <3>1, <3>3 DEF CoverInv
    <3> QED BY <1>4, <3>1, <3>2, <3>3 DEF CleanupStack, Fails
  <2> QED BY <1>4, <2>1, <2>2 DEF CleanupStack, CoverInv
<1>5. CASE UNCHANGED vars
  BY <1>5 DEF vars, CoverInv, Covered
<1> QED BY <1>1, <1>2, <1>3, <1>4, <1>5 DEF Next

(* cleanup_stack gives back every page of a client that keeps to one size  *)
(* and places less than a page, as test_aspawn.c and the benchmark do, in  *)
(* any order and however often mmap and mremap fail: the size that         *)
(* allocate_obj_on_stack shrinks still covers the mapping.  Run stack_leak *)
(* shows what other clients lose.                                          *)
THEOREM NothingIsLost ==
  ASSUME NoWrap, NEW CONSTANT L, SameSize(L)
  PROVE  Spec => []NoLeak
<1>1. Init => CoverInv(L)
  BY DEF Init, CoverInv
<1>2. CoverInv(L) => NoLeak
  BY DEF CoverInv, NoLeak
<1> QED BY <1>1, <1>2, NextCovers, StackInvHolds, PTL DEF Spec
=============================================================================
