---------------------------- MODULE CachedStack ----------------------------
(***************************************************************************)
(* One struct Stack_t and the memory behind it: init_cached_stack,         *)
(* reserve_stack, allocate_obj_on_stack and cleanup_stack (aspawn.c,       *)
(* cached_stack/cached_stack.c), on an architecture whose stacks grow      *)
(* down, and the mmap, mremap and munmap they call.                        *)
(*                                                                         *)
(* Addresses are byte addresses, memory is mapped in pages.  The arithmetic *)
(* on sizes wraps around at SizeMod, as that of size_t does.               *)
(***************************************************************************)
EXTENDS Integers

CONSTANTS
  PageSz,     \* psys_get_pagesz()
  SizeMod,    \* size_t is 0 .. SizeMod - 1
  Extra,      \* 32 * 1024 in reserve_stack
  ArgsSz,     \* sizeof(struct aspawn_child_args)
  Memory,     \* pages of the address space free for stacks; page 0 is not
  Requests    \* the <<reserved_stack_sz, obj_to_place_on_stack_len>> used

ASSUME StackAssumption ==
  /\ PageSz \in Nat \ {0} /\ SizeMod \in Nat \ {0} /\ SizeMod % PageSz = 0
  /\ Extra \in Nat /\ ArgsSz \in Nat
  /\ Memory \subseteq Nat \ {0}
  /\ Requests \subseteq (0 .. SizeMod - 1) \X (0 .. SizeMod - 1)

VARIABLES
  addr, size,  \* the struct Stack_t; addr is 0 for NULL
  mapped,      \* pages mapped for this stack and not unmapped since
  live,        \* between init_cached_stack and cleanup_stack
  ret,         \* what the last reserve_stack or cleanup_stack returned
  room,        \* bytes the client may still allocate as objects
  top,         \* history: end of the memory the last mapping returned
  promise      \* history: bytes the client may count on below top

vars == <<addr, size, mapped, live, ret, room, top, promise>>

(* What reserve_stack owes its caller, as an unbounded number.             *)
Needed(rsv, obj) == rsv + Extra + obj + ArgsSz

Init ==
  /\ addr = 0 /\ size = 0 /\ mapped = {} /\ live = FALSE
  /\ ret = "ok" /\ room = 0 /\ top = 0 /\ promise = 0
-----------------------------------------------------------------------------
(* align(sz, PageSz).                                                      *)
Align(sz) ==
  LET remnant == sz % PageSz
  IN (sz + (IF remnant # 0 THEN PageSz - remnant ELSE 0)) % SizeMod

(* Mutant: no room for the argument block.                                 *)
StackSize_NoArgs(rsv, obj) ==
  Align((Align((rsv + Extra) % SizeMod) + obj) % SizeMod)

(* Mutant: the sum is aligned once instead of the parts.                   *)
StackSize_AlignOnce(rsv, obj) == Align((rsv + Extra + obj + ArgsSz) % SizeMod)

(* The size reserve_stack and allocate_stack compute.                      *)
StackSize(rsv, obj) ==
  LET reserved == (rsv + Extra) % SizeMod
      objects == (obj + ArgsSz) % SizeMod
  IN Align((Align(reserved) + objects) % SizeMod)

(* The pages of len bytes at page-aligned address a.                       *)
Pages(a, len) ==
  LET first == a \div PageSz
  IN first .. first + ((len + PageSz - 1) \div PageSz) - 1

(* len bytes can be mapped at address a.                                   *)
Free(a, len) == Pages(a, len) \subseteq Memory \ mapped

(* A system call that fails leaves everything as it was.                   *)
Fails ==
  /\ ret' = "err"
  /\ UNCHANGED <<addr, size, mapped, room, top, promise>>

(* The struct after a successful mmap or mremap.                           *)
Place(a, len) == addr' = a /\ size' = len /\ top' = a + len

(* mmap(NULL, len): anywhere; len = 0 is an error.                         *)
Mmap(len) ==
  /\ len # 0
  /\ \E p \in Memory :
       /\ Free(p * PageSz, len)
       /\ mapped' = mapped \cup Pages(p * PageSz, len)
       /\ Place(p * PageSz, len)

(* mremap(addr, size, len, MREMAP_MAYMOVE): the kernel rounds size up to   *)
(* pages; it grows the mapping where it is if the pages behind it are      *)
(* free, and else moves those pages, and no others, to a larger free       *)
(* place.  A size of 0 is an error for a private mapping.                  *)
Mremap(len) ==
  LET old == Pages(addr, size)
  IN /\ size # 0
     /\ \/ /\ Pages(addr, len) \ old \subseteq Memory \ mapped
           /\ mapped' = mapped \cup Pages(addr, len)
           /\ Place(addr, len)
        \/ /\ ~(Pages(addr, len) \ old \subseteq Memory \ mapped)
           /\ \E p \in Memory :
                /\ Free(p * PageSz, len)
                /\ mapped' = (mapped \ old) \cup Pages(p * PageSz, len)
                /\ Place(p * PageSz, len)

(* Mutant: a stack that is too small is replaced without unmapping it.     *)
Resize_Fresh(len) == Mmap(len)

(* Mutant: the result is not compared with MAP_FAILED.                     *)
Resize_Unchecked(len) ==
  IF addr # 0 THEN Place(addr, len) /\ UNCHANGED mapped ELSE Mmap(len)

(* The (re)allocation of allocate_stack.                                   *)
Resize(len) == IF addr # 0 THEN Mremap(len) ELSE Mmap(len)
-----------------------------------------------------------------------------
InitCachedStack ==
  /\ ~live
  /\ live' = TRUE /\ addr' = 0 /\ size' = 0
  /\ room' = 0 /\ top' = 0 /\ promise' = 0
  /\ UNCHANGED <<mapped, ret>>

(* reserve_stack(stack, rsv, obj).                                         *)
ReserveStack(rsv, obj) ==
  LET len == StackSize(rsv, obj)
      Granted == /\ ret' = "ok" /\ room' = obj
                 /\ promise' = Needed(rsv, obj)
  IN /\ live
     /\ \/ /\ addr # 0 /\ size >= len
           /\ Granted
           /\ UNCHANGED <<addr, size, mapped, top>>
        \/ /\ addr = 0 \/ size < len
           /\ (Granted /\ Resize(len)) \/ Fails
     /\ UNCHANGED live

(* allocate_obj_on_stack(stack, len).                                      *)
Carve(len) ==
  /\ live /\ addr # 0
  /\ size' = (size - len) % SizeMod
  /\ room' = room - len
  /\ promise' = promise - len
  /\ UNCHANGED <<addr, mapped, live, ret, top>>

(* Mutant: the client allocates more than it has reserved.                 *)
AllocateObj_Overrun(len) == Carve(len)

(* allocate_obj_on_stack by a client that keeps to what it reserved.       *)
AllocateObj(len) == len <= room /\ Carve(len)

(* cleanup_stack(stack): the struct is const.  munmap may fail, for want   *)
(* of memory to split a mapping; the stack is then what it was.            *)
CleanupStack ==
  /\ live
  /\ \/ /\ live' = FALSE /\ ret' = "ok"
        /\ mapped' = IF addr # 0 /\ size # 0 THEN mapped \ Pages(addr, size)
                                             ELSE mapped
        /\ UNCHANGED <<addr, size, room, top, promise>>
     \/ addr # 0 /\ size # 0 /\ Fails /\ UNCHANGED live

Next ==
  \/ InitCachedStack
  \/ \E r \in Requests : ReserveStack(r[1], r[2])
  \/ \E r \in Requests : r[2] # 0 /\ AllocateObj(r[2])
  \/ CleanupStack

Spec == Init /\ [][Next]_vars
-----------------------------------------------------------------------------
(* Type correctness; among it, the size field never wraps below 0 when     *)
(* allocate_obj_on_stack shrinks it, and room never becomes negative.      *)
CachedStackTypeOK ==
  /\ addr \in Nat
  /\ size \in 0 .. SizeMod - 1
  /\ mapped \subseteq Memory
  /\ live \in BOOLEAN
  /\ ret \in {"ok", "err"}
  /\ room \in 0 .. SizeMod - 1
  /\ top \in Nat
  /\ promise \in Int

(* From the last successful reserve_stack on, the stack, the argument      *)
(* block and every object carved out of it lie in mapped memory, whatever  *)
(* reserve_stack grew, moved or failed to grow.                            *)
MemoryMapped ==
  live => /\ addr + size <= top
          /\ Pages(addr, top - addr) \subseteq mapped

(* After any sequence of reserve_stack and allocate_obj_on_stack the child *)
(* still has reserved_stack_sz + 32 KiB below its argument block and the   *)
(* objects not yet allocated.                                              *)
EnoughStack == live => size >= promise

(* The sums of reserve_stack and align do not wrap around.                 *)
NoWrap == \A r \in Requests : Needed(r[1], r[2]) + 2 * PageSz <= SizeMod

(* What the two properties above need to be inductive: the objects still   *)
(* to come are part of the promise.                                        *)
StackInv ==
  /\ CachedStackTypeOK
  /\ MemoryMapped
  /\ EnoughStack
  /\ live => room <= promise

(* cleanup_stack gives back every page the stack ever had.                 *)
NoLeak == ~live => mapped = {}
=============================================================================
