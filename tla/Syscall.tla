------------------------------ MODULE Syscall ------------------------------
(***************************************************************************)
(* The psys_* wrappers of syscall/ and the macro INTERNAL_SYSCALL below    *)
(* them, on x86-64: which values the kernel finds in which registers and   *)
(* what the wrappers make of its answer.  A value is <<call, what it is>>, *)
(* an argument being called what syscall.h, clone.h and clone3.h call the  *)
(* parameter of the wrapper.                                               *)
(***************************************************************************)
EXTENDS Integers, Sequences

CONSTANTS
  Wrappers,  \* the system calls the program makes
  Answers,   \* what the kernel may answer, negative for -errno
  WordMod,   \* 2^64 in the code
  IntHalf    \* 2^31 in the code: an int is -IntHalf .. IntHalf - 1

VARIABLES
  pc,     \* "user", "kernel", "return", "child" or "gone"
  call,   \* the system call being made
  regs,   \* the registers the kernel takes arguments from
  rax,    \* the kernel's answer
  ret,    \* what the wrapper has returned
  errno   \* what psys_mmap and psys_mremap have stored in *errno_v, or 0

vars == <<pc, call, regs, rax, ret, errno>>

ArgRegs == <<"rdi", "rsi", "rdx", "r10", "r8", "r9">>
MapFailed == -1
Junk == <<"none", "junk">>
Spawns == {"clone", "clone3"}
Maps == {"mmap", "mremap"}

(* The wrappers that do not make an int (or a pid_t) of the answer.        *)
LongCalls == Maps \cup {"read", "write", "pure_syscall"}

(* What the parameters of the system calls have to be, in their order, for *)
(* a caller who keeps to the headers.  setpriority takes the nice value    *)
(* that belongs to knice; the pid 0 of prlimit64 is the caller itself.     *)
Wanted ==
  [pure_syscall |-> <<"arg1", "arg2", "arg3", "arg4", "arg5", "arg6">>,
   openat |-> <<"dirfd", "pathname", "flags", "mode">>,
   close |-> <<"fd">>, dup |-> <<"oldfd">>, chdir |-> <<"path">>,
   dup3 |-> <<"oldfd", "newfd", "flags">>, fchdir |-> <<"fd">>,
   pipe2 |-> <<"pipefd", "flag">>, epoll_create1 |-> <<"flags">>,
   epoll_ctl |-> <<"epfd", "op", "fd", "event">>,
   epoll_pwait |-> <<"epfd", "events", "maxevents", "timeout", "sigmask",
                     "NSIG_BYTES">>,
   write |-> <<"fd", "buf", "count">>, read |-> <<"fd", "buf", "count">>,
   mmap |-> <<"addr", "len", "prot", "flags", "fd", "off">>,
   munmap |-> <<"addr", "len">>,
   mremap |-> <<"old_addr", "old_len", "new_len", "flags", "new_addr">>,
   setresuid |-> <<"ruid", "euid", "suid">>,
   setresgid |-> <<"rgid", "egid", "sgid">>,
   setgroups |-> <<"size", "list">>, getpid |-> <<>>,
   sched_setparam |-> <<"pid", "param">>, sched_getscheduler |-> <<"pid">>,
   sched_getparam |-> <<"pid", "param">>,
   sched_setscheduler |-> <<"pid", "policy", "param">>,
   getpriority |-> <<"which", "who">>,
   setpriority |-> <<"which", "who", "20 - knice">>,
   prlimit64 |-> <<"0", "resource", "new_limit", "old_limit">>,
   exit |-> <<"status">>, execve |-> <<"pathname", "argv", "envp">>,
   execveat |-> <<"dirfd", "pathname", "argv", "envp", "flags">>,
   rt_sigaction |-> <<"signum", "act", "NULL", "NSIG_BYTES">>,
   rt_sigprocmask |-> <<"how", "set", "oldset", "NSIG_BYTES">>,
   clone |-> <<"flags", "stack", "parent_tid", "child_tid", "tls">>,
   clone3 |-> <<"cl_args", "size">>]

(* The arguments of the wrappers to INTERNAL_SYSCALL.                      *)
FileCalls ==
  [pure_syscall |-> <<"arg1", "arg2", "arg3", "arg4", "arg5", "arg6">>,
   openat |-> <<"dirfd", "pathname", "flags", "mode">>,
   close |-> <<"fd">>, dup |-> <<"oldfd">>, chdir |-> <<"path">>,
   dup3 |-> <<"oldfd", "newfd", "flags">>, fchdir |-> <<"fd">>,
   pipe2 |-> <<"pipefd", "flag">>, epoll_create1 |-> <<"flags">>,
   epoll_ctl |-> <<"epfd", "op", "fd", "event">>,
   epoll_pwait |-> <<"epfd", "events", "maxevents", "timeout", "sigmask">>,
   write |-> <<"fd", "buf", "count">>, read |-> <<"fd", "buf", "count">>]
MemoryCalls ==
  [mmap |-> <<"addr", "len", "prot", "flags", "fd", "off">>,
   munmap |-> <<"addr", "len">>,
   mremap |-> <<"old_addr", "old_len", "new_len", "flags", "new_addr">>]
(* The third parameter of psys_setpriority is knice in syscall.h and unice *)
(* in syscall.c, which passes it on as it is.                              *)
ProcessCalls ==
  [setresuid |-> <<"ruid", "euid", "suid">>,
   setresgid |-> <<"rgid", "egid", "sgid">>,
   setgroups |-> <<"size", "list">>, getpid |-> <<>>,
   sched_setparam |-> <<"pid", "param">>, sched_getscheduler |-> <<"pid">>,
   sched_getparam |-> <<"pid", "param">>,
   sched_setscheduler |-> <<"pid", "policy", "param">>,
   getpriority |-> <<"which", "who">>,
   setpriority |-> <<"which", "who", "knice">>,
   prlimit64 |-> <<"0", "resource", "new_limit", "old_limit">>,
   exit |-> <<"status">>, execve |-> <<"pathname", "argv", "envp">>,
   execveat |-> <<"dirfd", "pathname", "argv", "envp", "flags">>]
SignalCalls ==
  [rt_sigaction |-> <<"signum", "act", "NULL", "NSIG_BYTES">>,
   rt_sigprocmask |-> <<"how", "set", "oldset", "NSIG_BYTES">>]
CloneCalls ==
  [clone |-> <<"flags", "stack", "parent_tid", "child_tid", "tls">>,
   clone3 |-> <<"cl_args", "size">>]

(* f where it is defined, g elsewhere.                                     *)
Over(f, g) ==
  [x \in DOMAIN f \cup DOMAIN g |-> IF x \in DOMAIN f THEN f[x] ELSE g[x]]

Passed ==
  Over(FileCalls, Over(MemoryCalls,
    Over(ProcessCalls, Over(SignalCalls, CloneCalls))))

ASSUME WrappersAssumption == Wrappers \subseteq DOMAIN Passed

(* The kernel reports an error as -4095 .. -1, and no address or count it  *)
(* answers with lies in that range when read as an unsigned number.        *)
ASSUME AnswersAssumption ==
  /\ WordMod \in Nat /\ WordMod > 8192
  /\ IntHalf \in Nat /\ IntHalf >= 4096
  /\ Answers \subseteq -4095 .. WordMod - 4096

Init ==
  /\ pc = "user" /\ call = "none" /\ rax = 0 /\ ret = 0 /\ errno = 0
  /\ regs = [r \in {ArgRegs[n] : n \in 1 .. 6} |-> Junk]
-----------------------------------------------------------------------------
(* The registers that a sequence of arguments of w goes to.                *)
Into(w, args, names) ==
  [r \in {names[n] : n \in DOMAIN args} |->
     <<w, args[CHOOSE n \in DOMAIN args : names[n] = r]>>]

(* Mutant: the fourth argument stays where the C calling convention has it. *)
Load_CConvention(w) == Into(w, Passed[w], [ArgRegs EXCEPT ![4] = "rcx"])

(* internal_syscall0 .. internal_syscall6: the registers they load.        *)
Load(w) == Into(w, Passed[w], ArgRegs)

(* A wrapper up to the instruction syscall.                                *)
Invoke(w) ==
  /\ pc = "user"
  /\ pc' = "kernel" /\ call' = w
  /\ regs' = Over(Load(w), regs)
  /\ rax' = 0 /\ ret' = 0 /\ errno' = 0

(* psys_mmap with an offset that is not a multiple of the page size.       *)
MmapRejects ==
  /\ pc = "user" /\ "mmap" \in Wrappers
  /\ ret' = MapFailed /\ errno' = 22
  /\ UNCHANGED <<pc, call, regs, rax>>

(* The kernel answers in rax: only an address, a count or a system call    *)
(* made through pure_syscall may need more than an int.                    *)
Answer(a) ==
  /\ pc = "kernel" /\ call # "exit"
  /\ call \notin LongCalls => a < IntHalf
  /\ pc' = "return" /\ rax' = a
  /\ UNCHANGED <<call, regs, ret, errno>>

(* exit and a successful execve do not return.                             *)
Leave ==
  /\ pc = "kernel" /\ call \in {"exit", "execve", "execveat"}
  /\ pc' = "gone"
  /\ UNCHANGED <<call, regs, rax, ret, errno>>

(* Mutant: the comparison is one of signed numbers.                        *)
IsMapError_Signed(a) == a > -4096

(* result > -4096UL in check_map_error.                                    *)
IsMapError(a) == a % WordMod > (-4096) % WordMod

(* The conversion of a long to the int that most wrappers return, and to   *)
(* the variable result of psys_clone and psys_clone3.                      *)
ToInt(a) == ((a + IntHalf) % (2 * IntHalf)) - IntHalf

(* result == 0 in psys_clone and psys_clone3.                              *)
IsChild == call \in Spawns /\ ToInt(rax) = 0

(* The wrapper returns the answer as an int, as it is, or as what          *)
(* check_map_error makes of it.                                            *)
Return ==
  /\ pc = "return" /\ ~IsChild
  /\ pc' = "user"
  /\ IF call \in Maps /\ IsMapError(rax)
     THEN ret' = MapFailed /\ errno' = -rax
     ELSE /\ ret' = IF call \in LongCalls THEN rax ELSE ToInt(rax)
          /\ UNCHANGED errno
  /\ UNCHANGED <<call, regs, rax>>

(* The child calls fn(arg), on the new stack.                              *)
EnterChild ==
  /\ pc = "return" /\ IsChild
  /\ pc' = "child"
  /\ UNCHANGED <<call, regs, rax, ret, errno>>

(* fn has returned: psys_exit.                                             *)
FnReturns ==
  /\ pc = "child"
  /\ pc' = "kernel" /\ call' = "exit"
  /\ regs' = Over(Load("exit"), regs)
  /\ UNCHANGED <<rax, ret, errno>>

Next ==
  \/ \E w \in Wrappers : Invoke(w)
  \/ MmapRejects
  \/ \E a \in Answers : Answer(a)
  \/ Leave
  \/ Return
  \/ EnterChild
  \/ FnReturns

Spec == Init /\ [][Next]_vars
-----------------------------------------------------------------------------
(* The kernel finds in the registers, for every parameter of the system    *)
(* call, what a caller who keeps to the headers means by the arguments of  *)
(* the wrapper, whatever calls were made before and left behind.           *)
KernelSeesArgs ==
  pc = "kernel" =>
    \A n \in DOMAIN Wanted[call] :
      regs[ArgRegs[n]] = <<call, Wanted[call][n]>>

(* psys_mmap and psys_mremap return MAP_FAILED exactly when the kernel     *)
(* reported an error, and then *errno_v is that error; every other answer  *)
(* reaches the caller as it is, through an int where the wrapper has one.  *)
AnswerTold ==
  [][pc = "return" /\ pc' = "user" =>
       IF call \in Maps /\ rax < 0
       THEN ret' = MapFailed /\ errno' = -rax
       ELSE ret' = rax]_vars
=============================================================================
