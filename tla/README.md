# A TLA+ verification of aspawn

aspawn is a C library that replaces `posix_spawn`: `aspawn` clones a child that
runs a function `fn` of the user in the memory of the parent (`CLONE_VM`), on a
stack the user has reserved, and returns at once with the read end of a
close-on-exec pipe. The user may touch the stack again when that descriptor
hangs up. This directory holds TLA+ modules that model the library, TLC runs
that check them, and TLAPS proofs. Paths such as `aspawn.c:130` are relative to
the root of the repository.

## 1. Inventory

| Component | State | Operations | Interacts with |
|---|---|---|---|
| core, `aspawn.c` | frame of `aspawn` / `aspawn_impl`; the static flag `does_not_have_clone_clear_sighand_internal`; the argument block at the top of the stack | `aspawn`, `aspawn_rec`, `aspawn_child`, `aspawn_child_clear_sighand` | everything below; the child reads the block the parent wrote |
| `signal/`, `syscall/signal.c` | signal masks and dispositions (kernel) | `sig_blockall`, `sig_setmask`, `psys_sig_clearall_handler` | called by the core, in the parent and in the child |
| `create_pipe/` | descriptor tables (kernel) | `create_cloexec_pipe` | the pipe is the only message from child to parent |
| `clone_internal/`, `syscall/clone.c`, `syscall/clone3.c` | none | `clone_internal`, `clone_clear_sighand_internal` | makes the child; `clone3` may be missing at compile time or at run time |
| `cached_stack/` and the stack functions of `aspawn.c` | `struct Stack_t` and the mapping behind it | `init_cached_stack`, `reserve_stack`, `allocate_obj_on_stack`, `cleanup_stack` | `mmap`, `mremap`, `munmap`; the core allocates its block with it, on a copy of the struct |
| `find_exe`, `handle_execve_err` in `syscall/syscall.c` | the pointer into PATH, the buffer, `got_eaccess` | one call per candidate | called in a loop by the `fn` of a client, in the child |
| clients: `test/`, `example/`, `benchmark/` | which stack is lent to which call; in the example also the bytes in the pipes and the wait statuses | reserve, spawn, poll, wait, read, close, reuse | the protocol that makes reuse safe lives here |
| wrappers `psys_*`, `pure_syscall`, `make_syscall.h` | registers | one system call each, `check_map_error` | used by all |
| `memory.c`, `errno_msgs`, `pstrerror`, `perr` | none | byte loops, a table of messages | used by `fn`, `find_exe` and debug builds |

What is hard here:

* **Concurrency without locks.** Threads of one process, children in the same
  memory and children of children run at the same time. Every `clone` copies
  the whole descriptor table, so it also copies the pipe ends of calls that
  other threads are in the middle of.
* **A hang-up as the only licence.** Nothing but `POLLHUP` tells the parent that
  a stack may be overwritten. It must never come early, and it has to come.
* **Error paths.** `rt_sigprocmask`, `pipe2`, `clone3` and `clone` may fail, at
  different depths, and the mask, the cancelability and the descriptors have to
  be put back in each case.
* **A fallback discovered at run time**, by several callers at once.
* **Bookkeeping of sizes.** `allocate_obj_on_stack` shrinks the recorded size
  that `mremap` and `munmap` are later given.
* **Boundaries** of PATH parsing into a fixed buffer.
* **A pipe nobody reads.** The example's `fn` writes its error message into the
  pipe while the parent polls for `POLLHUP` only.
* **Registers.** The wrappers are inline assembly; what a wrapper does not load
  is what an earlier call left, and errors and addresses share one word.

`hazards` in `PROJECT.json` lists these at their lines, with the properties that
are about them.

## 2. Modules

| Module | Role |
|---|---|
| `Aspawn` | the concurrent model: callers, children, clients, kernel |
| `StackLease` | abstract specification: what the library promises about stacks |
| `AspawnLease` | the refinement mapping from `Aspawn` to `StackLease` |
| `AspawnInv` | the inductive invariants `IInv` and `CallerInv` of `Aspawn` |
| `AspawnProofs` | `IInv` is inductive, and five properties follow |
| `AspawnCallerProofs` | `CallerInv` is inductive: mask, cancelability and descriptors are put back |
| `AspawnRefines` | `Aspawn` implements `StackLease`; children never share a stack |
| `MCAspawn` | instances for TLC |
| `CachedStack`, `CachedStackProofs`, `MCCachedStack` | one `struct Stack_t` and its memory |
| `FindExe`, `FindExeProofs`, `MCFindExe` | the search for an executable |
| `Example`, `ExampleProofs`, `MCExample` | `example/naive_example.c` from start to end, on top of `CachedStack` |
| `Syscall`, `SyscallProofs`, `MCSyscall` | the system call wrappers and their registers |

### Aspawn

An element of `Call` is one activation of `aspawn_impl`, together with its pipe
and its child. `pc[c]` is the next statement of the activation, in the order of
the source:

| `pc` | Action | Code |
|---|---|---|
| `idle` | `Aspawn`, `AspawnRec` | `aspawn.c:134-137`, `151-155` |
| `blockall` | `SigBlockAll` | `aspawn.c:139-142`, `signal/signal.c:11-16` |
| `pipe` | `CreatePipe` | `aspawn.c:84-87` |
| `args` | `WriteArgs` | `aspawn.c:89-102` |
| `load` | `LoadFlag` | `aspawn.c:104-108` |
| `clone3` | `Clone3` | `aspawn.c:109-112` |
| `store` | `StoreFlag` | `aspawn.c:113-114` |
| `clone` | `Clone` | `aspawn.c:102-103`, `116-119` |
| `closerd`, `closewr` | `CloseRead`, `CloseWrite` | `aspawn.c:122-133` |
| `setmask` | `SigSetMask` | `aspawn.c:144` |
| `uncancel` | `RestoreCancel` | `aspawn.c:147` |
| `return` | `Return` | `aspawn.c:149-150` |
| `returned` | `Reuse`, `CloseResult` | the clients: `poll` for `POLLHUP`, then `close` |

`cpc[c]` is the child: `clear` (`ClearHandler`, one step per signal), `close`
(`CloseReadInChild`), `fn`, `perr`, then `exec` or `exit`. In `fn` the child may
restore the mask it was handed, spawn with `aspawn_rec`, exec or return. The
kernel leaves the shared memory first and closes the descriptors after that, in
`execve` (`exec`, then `prog`) and in `exit`; this order is what makes a hang-up
mean something. A child may be killed by a signal anywhere (`Kill`).

Descriptor tables map descriptor numbers to pipe ends, one table per process;
`pipe2` takes the two lowest free numbers and fails when fewer are left, or for
another reason. `mem[s]` is the argument block on stack `s`, which the child
reads by reference at every use, so that a block overwritten too early is seen.
Builds without `SYS_clone3` and kernels without it are values of `host`. With
`NDEBUG` the `perr` branch is not compiled; the model has it and shows that it
is never taken. Cancellation is asynchronous, the worst case: a thread may be
cancelled as soon as `RestoreCancel` has run, before it returns.

`Clone3` may answer `-ENOSYS` or `-EINVAL` also on a kernel that has `clone3`, so
that children of both paths live in one process. `SigBlockAll` may fail;
`SigSetMask` may not: both are `rt_sigprocmask`, which fails for a bad `how`, a
bad size or an unmapped pointer, and when line 144 is reached, a call with the
same size and a pointer to the same variable has succeeded.

The client protocol is the one of `test_aspawn.c:47-54`,
`naive_example.c:121-129` and the benchmark: a stack is lent to one call and
taken back when the call failed or its descriptor hung up. The history variable
`kin[p]` holds the calls whose children are `p` or an ancestor of `p`.

External behaviour, modelled from its use: `poll`, close-on-exec, exit,
`CLONE_CLEAR_SIGHAND`, fatal signals, `pthread_cancel`.

### StackLease

Three steps of a spawn (`Lend`, `Start`, `End`) and `TakeBack`, which is only
allowed when the child of the lease is not running. `AspawnLease` maps the
frames and children of `Aspawn` to it.

### CachedStack

Sizes are byte counts modulo `SizeMod` (the width of `size_t`), memory is a set
of pages. `mremap` grows in place when the pages behind are free and otherwise
moves the pages it was told about, and no others. `mapped` is what the stack
really owns, `addr` and `size` what the struct says. The history variables
`top` and `promise` are the end of the last mapping and what the client was
promised. `AllocateObj` requires `len <= room`, the precondition of
`aspawn.h:40`. `mmap`, `mremap` and the `munmap` of `cleanup_stack` may fail. The model takes the branch for stacks that grow down.

### FindExe

PATH is a sequence of characters, `pos` the pointer into it, `buf` the buffer.
`FindExe` gives the result of one call, the cells it writes (also when it
fails) and the new pointer; `Execve` chooses the outcome of `execve` and applies
`handle_execve_err`. `Entry`, `Join` and `Before` say what a PATH means without
scanning it: its entries are the maximal stretches without a colon, each is
joined to the name with one slash. `TriesInOrder` compares the two.

### Example

`Example` composes `CachedStack` (as `S`, with `INSTANCE`) with the rest of
`naive_example.c`. `ppc` is the next statement of `main`, `i` its loop variable:
`Reserve`, `PlaceArgs`, `Spawn` and `Poll` for every job (`:107-129`), then `Wait`
and `Read` for every job (`:131-155`), then `Cleanup`. `child[j]` is the child of
a job: in `fn` (`find`, then `put` while it sends a message), the executed
program, or its wait status. `Put` is one `write` of `psys_put_impl`, of any part
of what is left that fits into the pipe; it blocks while the pipe is full.
`Kill` and `Interrupted` (a failing `poll`, `waitpid` or `read`) are the faults;
`Read` and `Cleanup` have the branches for a failing `write` and `munmap`.
`PlaceArgs` uses `Carve`,
`allocate_obj_on_stack` without the client's precondition, because `main`
places `sizeof(struct Args)` bytes more than it has reserved. The variable
`ample` picks, once, whether `mmap` and `mremap` always succeed; when they do
not, `main` goes on all the same, since it ignores the result of
`reserve_stack`, and crashes if it has no stack at all. `room[j]` is what the
child of `j` found below its argument block. A hang-up is `~InFn(j)`: that it
means this is what `Aspawn` shows. The search of `fn` is `FindExe`.

### Syscall

A value in a register is named `<<call, parameter>>`, with the names of the
headers. `Passed` lists, for every wrapper, the arguments it gives to
`INTERNAL_SYSCALL`; `Wanted` (external) what the parameters of the system call
have to be for a caller who keeps to the headers. The two differ for
`epoll_pwait` and for `setpriority`. `Load` is `internal_syscall0` to
`internal_syscall6`: `n` arguments go to the first `n` of `rdi rsi rdx r10 r8 r9`,
the other registers keep what they had. The kernel answers in `rax`. `Return`
models the wrapper's result: `check_map_error`, whose comparison is made modulo
the constant `WordMod` (2^64 in the code), as the unsigned one in C is; the
conversion to `int` (`ToInt`, `IntHalf` is 2^31 in the code) for all wrappers but
those in `LongCalls`. `EnterChild` and `FnReturns` are the child side of
`psys_clone` and `psys_clone3`, which also test the converted result.

## 3. Runs

| Run | Configuration | Bounds | Result |
|---|---|---|---|
| `aspawn` | `MCAspawn.cfg` | 2 threads, 2 calls, 2 stacks, 4 descriptors, 2 signals, all 4 hosts | 8 invariants and the refinement hold, about 1,002,000 states |
| `nested` | `MCAspawnNested.cfg` | 1 thread, 3 calls, 3 stacks, 4 descriptors, build without `clone3` | holds, about 1,000,000 states |
| `live` | `MCAspawnLive.cfg` | as `aspawn`, 1 signal, no cancellation, kernel without `clone3` | both liveness properties hold, about 272,000 states |
| `foreign` | `MCAspawnForeign.cfg` | as `aspawn`, 1 signal, build without `clone3` | violated, finding 1 |
| `stack_mixed` | `MCCachedStackMixed.cfg` | four different requests, 25 pages | holds, about 64,000 states |
| `stack_leak` | `MCCachedStackLeak.cfg` | as `stack_mixed` | violated, finding 2 |
| `find_exe` | `MCFindExe.cfg` | every PATH up to 7 characters over `:`, `/`, `a`; `path_max_len` 4 | holds, about 50,000 states |
| `find_exe_continue` | `MCFindExeContinue.cfg` | 4 characters, the loop continues on -1 | violated, finding 3 |
| `example` | `MCExample.cfg` | 3 jobs, messages of 3 bytes, pipes of 3, 33 pages, memory granted or refused | 4 invariants, an action property and termination hold, about 69,000 states |
| `example_message` | `MCExampleMessage.cfg` | as `example` | violated, finding 4 |
| `syscall` | `MCSyscall.cfg` | all 34 wrappers but `epoll_pwait` and `setpriority`, in any order, 6 answers | holds, about 848,000 states |
| `syscall_epoll` | `MCSyscallEpoll.cfg` | all wrappers but `setpriority` | violated, finding 5 |

What the runs of `Example` and `Syscall` show. `ChildHasStack`: the eight bytes
that `naive_example.c:112` places beyond the reservation never cost a child the
stack `main` asked for, because `allocate_stack` aligns the reserved size on its
own before it adds the objects; with a single alignment the property fails.
`MemoryReturned`: three jobs that shrink the recorded size and resize the stack
still leave a size that covers the mapping at `cleanup_stack`, as long as
`struct Args` with PATH in it is shorter than a page; a longer PATH leaks pages in
this very program (finding 2), and the property does not speak of it. `StackLeftAlone`:
`main` moves, carves and unmaps only when no child is in `fn`. `MessageInOrder`
and `MainEnds`: however `write` splits a message, what arrives is a prefix of it
and `main`, which polls without reading, ends. `MainEnds` needs
`Message <= Capacity`: with a pipe of 2 bytes and a message of 3, parent and
child wait for each other for ever. `KernelSeesArgs` and `AnswerTold`: no wrapper
but two gives the kernel something else than the header says or depends on what
earlier calls left in the registers, no error is taken for an address, and no
answer is cut short.

Why the bounds are enough to be interesting. Two threads give every overlap of
two calls; two calls also give a child that spawns; three calls give a chain of
three and siblings below a child. Four descriptors hold two pipes, so that
`EMFILE`, reuse of numbers and inherited foreign ends occur. Signal 1 has a
handler and signal 2 is ignored; one thread starts with nothing blocked and may
be cancelled, the other with signal 1 blocked and cancellation off. The 25 pages
are in two stretches of 13 and 12, so that a stack of 9 to 12 pages grows in
place, moves, or finds no room. A PATH of 7 characters has up to four entries,
with empty ones, trailing slashes, and entries at, below and above the limit.
`SizeMod` is 2^29 instead of 2^64; no request of the runs gets near it.
In `example`, the page, block and `PATH_MAX` sizes are real; with `PathSz` 3943 the
outer of the two alignments adds one byte, so that only the inner one makes up for
the eight (a single alignment would add none); the 33 pages are three stretches of 11, so
that a stack of 11 pages fits into each of them and has to move when it grows;
three jobs give a stack that has been carved twice before it is used again. A
message of 3 bytes can be split in every way that matters (first, middle, last
part). In `syscall` the word has 16 bits and an int 14; the answers are the largest
errno, another one, 0 (the child), a small number, an address that is no int and
`WordMod - 4096`, the last word that is no error.
`live` leaves cancellation to `aspawn`: a thread can be cancelled only when it has
closed what it will close, and `CallReturns` asks nothing of it then.
Calls and stacks are symmetric, which is sound for the safety runs; the
liveness runs do not use symmetry. Deadlock is not checked where the system may
stop: calls are bounded, programs end, a search ends.

Fairness (`LibraryFairness`): a thread inside `aspawn` and a child before `fn`
run straight-line code with no blocking call, so weak fairness of their next
step is what a scheduler gives; so it is for the kernel finishing an `execve` or
`exit` it has begun. `FnFairness` is the obligation of the user: `fn` execs or
returns. `HupEventually` needs it, `foreign` is checked without it. Nothing is
assumed of programs after `execve`, of signals or of clients. `FindExe` is
sequential code: weak fairness of its next step. `Example` has weak fairness of
`main` and of each child: both are straight-line code between blocking calls, a
blocked call is a disabled action, and the programs of the example (`echo`, `ls`,
`uname`) end. Kills, failing `poll`s and `waitpid`s are not fair.

### Findings

1. **A stranger can delay a hang-up** (`aspawn.c:130`). While one thread is
   between `pipe2` and the close of the write end, another may clone; its child
   inherits the write end and keeps it until its own execve or exit. The README
   of the library presents the descriptor as telling about "the child process".
   Reuse stays safe: `HupMeansStackFree` holds and is proved.
2. **Pages are leaked once objects take a page or more**
   (`cached_stack.c:80`, `61`, `21`). Smaller objects are harmless, because the
   kernel rounds the shrunk size up again (`MemoryReturned`).
3. **Continuing on -1 loops for ever** (`syscall.c:233`), though
   `syscall.h:203-205` offers it.
4. **The example never shows a message** (`naive_example.c:141`). A child with a
   message exits with 1, and `main` calls `errx` for that status before it gets
   to the loop commented "Check fds[i] for error message".
5. **`psys_epoll_pwait` leaves out `sigsetsize`** (`syscall.c:75`). The kernel
   reads it from `r9`; with a mask it answers `-EINVAL` unless `r9` happens to
   be 8.

Further observations, without a run of their own:

* `reserve_stack` wraps around for sizes near `SIZE_MAX` (`aspawn.c:49`) and
  reports success. `NoWrap` excludes this in the theorems.
* `find_exe` writes into `constructed_path` before it finds that an entry is too
  long (`syscall.c:224`); `syscall.h:165` says it "will only be changed on
  success". `FindExe` models these writes.
* `main` of the example ignores the result of `reserve_stack`
  (`naive_example.c:110`). Without `ample`, `ChildHasStack` fails: after two
  refused `mremap`s the third child gets 33051 bytes where 36865 were asked for.
* The stack pointer given to `clone` need not be a multiple of 16: the line that
  rounded it is commented out (`clone.c:62`).
* `perr` exits with 1 whatever its parameter `exit_status` says (`syscall.c:34`)
  and makes one line out of six `write`s.
* `psys_setpriority` (`syscall.c:176-179`) hands its third argument to the kernel
  as it is and calls it `unice`; `syscall.h:134-138` calls it `knice`, in [40, 1],
  the scale of `psys_getpriority`'s result, with `unice = 20 - knice`. So
  `KernelSeesArgs` fails for this wrapper: with `setpriority` in `Wrappers` TLC shows
  it in one step. The runs leave the wrapper out.
* `aspawn` restores the cancelability at `aspawn.c:147` and returns at line 149. A
  thread with asynchronous cancellation that is cancelled in between loses the
  descriptor of a child that runs. `NoDescriptorLeak` allows exactly this.

## 4. Proofs

Every invariant and every action property of the passing runs but
`KernelSeesArgs` is a theorem, for arbitrary values of the constants. What is assumed of the constants:

| Assumption | Says |
|---|---|
| `ConstantsAssumption` | the sets are disjoint where the code keeps them apart, `None` is none of the values |
| `StackAssumption`, `ExampleAssumption` | sizes are natural numbers, a page is not empty, page 0 is never mapped |
| `SizesAssumption` | the sums of `reserve_stack` fit into `size_t`; `PATH_MAX + 1 + 32 KiB` leaves `sizeof(struct Args)` free in its last page (with 4 KiB pages it uses one byte of it) |
| `FindExeAssumption` | the name is not empty, the null byte is no character of it or of PATH |
| `WrappersAssumption`, `AnswersAssumption` | only wrappers of `syscall/` are called; an answer is an errno (-4095 .. -1) or a value up to -4096UL, which is the ABI of Linux; an int holds every errno |

TLC evaluates them in the runs. Some theorems have hypotheses of their own,
because what they state is false without them: those on `CachedStack` (`NoWrap`,
and one size for `NothingIsLost`). In `MemoryReturned` the hypothesis, that
`struct Args` and PATH take less than a page, is part of the property.

### Aspawn

`HupMeansStackFree` is not inductive: that no write end is left says nothing by
itself about children. `IInv` adds where things are at every point:

* `FrameInv`: a call that has begun has a caller and a stack, a caller is in one
  call at a time, a child exists exactly after a successful clone;
* `LeaseInv`: whoever is being spawned or runs has its stack on lease;
* `ArgsInv`: the block on that stack is the one its call wrote;
* `FdInv`: the caller has both ends until it closes them; a child that still
  has descriptors holds the write end of **every** call it descends from, under
  the number that end had in the caller;
* `SignalInv`: a thread inside `aspawn_impl` has everything blocked; a child in
  its prologue catches only signals that are blocked and not yet cleared; after
  it, none;
* `ChildCloseSucceeds` itself.

The argument: a child in the shared memory still holds descriptors, so by
`FdInv` it holds the write end of its call and of all its ancestors'; so if the
pipe of `c` hung up, no descendant of `c` is in the memory (`HupIsLicence`). So
the client's `Reuse` takes back only a stack whose child is gone (`ReuseIsSafe`),
so the lease of a running child stays, so nobody writes over its block
(`OwnArgs`), so it closes the right descriptor (`CloseSucceeds`) and keeps its
write end. The five facts hold each other up, which is why they are proved
together. `HandlersStayHome` follows from `SignalInv`. `Refinement` maps every
action: the two entry points to `Lend`, a successful clone to `Start`, execve,
exit and kill to `End`, `Reuse` to `TakeBack`, everything else to a stutter.
`NoSharedStack` follows from `LeaseInv`.

`CallerInv` is inductive relative to `IInv` and is about what a call owes its
caller. That a thread outside of `aspawn` has its mask and its cancelability
back (`CallerGetsBack`) needs to know where they are meanwhile:

* `ThreadInv`: a thread inside a call, up to `RestoreCancel`, is alive and cannot
  be cancelled; its frame holds the cancelability it came with, and at `return`
  it has it back; before `sig_blockall` and after `sig_setmask` its mask is the
  one it came with;
* `OldsetInv`: in between, that mask is in `oldset`, and a nested call has the
  `oldset` of the child that makes it;
* `RootInv`: an end of a pipe in the root process belongs to a call of a thread,
  is there under the number in that call's frame, and only until the call closes
  it, or for good if it is the result of a call that succeeded.

`MaskIsHandedDown` joins `OldsetInv` with `ArgsInv`: the mask was in the frame, and
the block on the stack is still a copy of it. `NothingLeaks` joins `RootInv` with
`ThreadInv`: because a thread between `pipe2` and `close` cannot be cancelled,
each end in the table has a live thread that will close it. `RootInv` names the
numbers because `close` takes one: the end that a call still has in the table is
under the number it closes.

### CachedStack

If no sum wraps around (`NoWrap`), then for every page size, set of requests and
memory the types are right (`StackTypeCorrect`), the stack and its objects stay
mapped (`MemoryStaysMapped`) and the client has what it was promised
(`ReserveKeepsItsPromise`). None of the three is inductive alone. That
`size - len` does not wrap needs `EnoughStack` and that the objects still to come
are part of the promise; that a grown mapping covers the old one needs
`MemoryMapped`. `StackInv` has all of it, and `StackInvHolds` proves it once. The
lemmas are about `Align` (it rounds up to a multiple), about `StackSize` (at
least what was asked for) and about `Pages`.

`NothingIsLost` is the other side of finding 2: if all requests of a client need
the same size and its objects stay below a page, `cleanup_stack` unmaps all. The
invariant `CoverInv` says that the mapping has exactly that size and that
`size - room`, the size still recorded when all objects have been allocated, is
short of it by less than a page. So the kernel, which rounds up, always means
all of the mapping (`SamePages`), `mremap` never moves and `munmap` misses
nothing. Equal sizes are needed because a smaller request is granted without
setting the recorded size back, and the next objects shrink it further.

### Example

* `PolledFor`: a child in `fn` is the one `main` polls for, or `main` is gone;
  with `NotYetSpawned`, which says that the jobs to come have no child. From it
  `StackIsLeftAlone`, an action property.
* `MessageInv`: a pipe holds the first `sent[j]` bytes of the message, and only
  children that failed to execute have sent anything, so `main`, which reads
  after status 0 only, never takes a byte away. From it `MessagesArriveInOrder`
  and, with the other parts, `ExampleTypeCorrect`.
* `RoomInv`: while memory is granted, the size is `StackLen` when the arguments are
  placed and short of it by the objects when the child is spawned. The heart of
  `ChildrenHaveStack` is the lemma `StackLenFacts`: what `align` adds to the
  reservation is at least `sizeof(struct Args)`.
* `HeldInv`: from the first job to the last, the same pages are mapped; the
  shrunk size still covers them. From it `MemoryIsReturned`. `main` places more
  than it has reserved, so this is not an instance of `NothingIsLost`.

### FindExe

`AtEntry` is what makes the types inductive: between two calls the pointer is at
the beginning of PATH, behind a colon or at the end. `FindExeOutcomes` splits a
call into its three outcomes (end of PATH, too long, a candidate) and says what
is written in each; `CellsFit` bounds it, and `StringInBuffer` shows that what
`execve` reads up to the null byte is the candidate, although the buffer still
has bytes of longer ones behind it. `DiagnosisInv` relates `got_eaccess` and the
end of the search to the results. `CandidatesInOrder` rests on `SearchInv`: there
is a list of entries that matches `tried` one to one, and the entries that begin
before the pointer are exactly those in the list. A call appends the entry it
found (`ThisIsEntry`, `WholeIsJoin`), skips none (`NothingSkipped`, `NextEntry`)
and reports the end only when all are behind it (`AllSeen`).

### Syscall

`AnswersAreTold` rests on two pieces of arithmetic. `UnsignedComparison` is that
of `check_map_error`: modulo any word size above 8192, `result > -4096UL` is true
of -4095 .. -1 and of no other answer. `IntKeeps` is the conversion: what fits into
an int goes through it unchanged. The invariant says that between the kernel's
answer and the return, `rax` is such an answer.

### Only model-checked

`CallReturns`, `HupEventually`, `HupFollowsOwnChild`, `Terminates` and `MainEnds` are
liveness under fairness, which TLAPS does not do. `KernelSeesArgs` compares two
finite tables, wrapper by wrapper, which TLC does exhaustively; a proof would add
nothing. `NoLeak`, `KernelSeesArgs` with `epoll_pwait` and `MessageShown` are
false, and TLC shows how.

## 5. Not modelled

* What the kernel does for the wrappers the library itself does not use
  (`epoll_*`, `setresuid`, `sched_*`, `prlimit`): `Syscall` stops at the registers.
  Memory clobbers and the compiler's register allocation are outside; with it
  that the child of `psys_clone` and `psys_clone3` finds `fn` and `arg` in `r13` and
  `r12` after its stack has been exchanged (they are no operands of the asm
  statement), and `RESET_EBP`.
* The bytes sent through the pipe in `Aspawn` (they are in `Example`), `pid`.
* `fn` beyond restoring the mask, `aspawn_rec`, exec and return. A `fn` that
  closes or duplicates descriptors, or changes `*old_sigset`, is outside.
* Stacks that grow up; the alignment of the stack pointer (listed as a hazard).
* Short writes to standard error at `naive_example.c:149`: the loop is reached
  only for children that have sent nothing (finding 4).
* `pstrerror`, `perr`, the message table, `memory.c`: bounded look-ups, byte
  loops and output without a state. The tests of the wrappers are sequential
  assertions. In the test and the benchmark, counting and timing.

## 6. Plan

Done: the models of all parts in section 1 that change state, their runs, and
proofs of every invariant and action property of the passing runs but one (a
comparison of tables). Left:

1. Shorten the proofs: `CachedStackProofs` and `ExampleProofs` share lemmas on
   division and on pages that could be stated once.
2. State what a call of `aspawn` promises about descriptors as an abstract
   specification next to `StackLease`, and prove that `Aspawn` implements it.
3. Prove that `Example` keeps to `StackLease`, with one stack for all jobs.
