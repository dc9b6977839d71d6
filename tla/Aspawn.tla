------------------------------- MODULE Aspawn -------------------------------
(***************************************************************************)
(* aspawn / aspawn_rec (aspawn.c) called concurrently by the threads of    *)
(* one process and by the children they have spawned, the children         *)
(* themselves, and the clients of the library as the repository's test and *)
(* example write them: a stack is lent to a call, and is used again only   *)
(* after the descriptor the call returned has hung up.                     *)
(*                                                                         *)
(* One element of Call stands for one activation of aspawn_impl, for the   *)
(* pipe it opens and for the child it clones.  The children run in the     *)
(* memory of the caller (CLONE_VM) but have descriptor tables, signal      *)
(* masks and signal dispositions of their own.                             *)
(***************************************************************************)
EXTENDS Integers

CONSTANTS
  Thread,      \* threads of the process that links the library
  Call,        \* activations of aspawn_impl (bounds the number of spawns)
  Stack,       \* reserved struct Stack_t objects
  Fd,          \* descriptor numbers of a process (RLIMIT_NOFILE)
  NSIG,        \* as in syscall/signal.c: signals are 1 .. NSIG - 1
  Hosts,       \* the builds and kernels considered, see HostType
  InitMask,    \* signal mask every thread runs its own code with
  InitCancel,  \* cancelability every thread runs its own code with
  InitDisp,    \* signal dispositions of the process
  Root,        \* the process of the threads
  None         \* no descriptor, no call, no stack, no argument block

Sig == 1 .. NSIG - 1

(* A process is the root or a child; a caller is a thread or a child.      *)
Proc == Call \cup {Root}
Caller == Thread \cup Call

(* build: SYS_clone3 was known to the compiler                             *)
(*        (HAS_CLONE_CLEAR_SIGHAND_INTERNAL);                              *)
(* kernel: the running kernel knows clone3 and CLONE_CLEAR_SIGHAND.        *)
HostType == [build : BOOLEAN, kernel : BOOLEAN]

(* The two ends of the pipe of a call.                                     *)
End == Call \X {"r", "w"}

(* struct aspawn_child_args, fn and arg standing for the call they serve.  *)
Args == [call : Call, rd : Fd, wr : Fd, oldset : SUBSET Sig]

ASSUME ConstantsAssumption ==
  /\ NSIG \in Nat \ {0} /\ Fd \subseteq Nat
  /\ Thread \cap Call = {}
  /\ Root \notin Call
  /\ None \notin Fd \cup Call \cup Stack \cup Thread
  /\ None \notin End
  /\ None \notin Args
  /\ Hosts \subseteq HostType
  /\ InitMask \in [Thread -> SUBSET Sig]
  /\ InitCancel \in [Thread -> {"enabled", "disabled"}]
  /\ InitDisp \in [Sig -> {"dfl", "ign", "handler"}]

VARIABLES
  (* The frame of a call in its caller. *)
  pc,        \* the next statement of aspawn / aspawn_impl
  caller,    \* who runs it
  stk,       \* the stack it was given
  rd, wr,    \* int pipefd[2]
  result,    \* "none" before the outcome is known, then "ok" or "err"
  oldset,    \* sigset_t oldset in aspawn, old_sigset in aspawn_rec
  oldstate,  \* int oldstate in aspawn
  (* Memory shared by every thread and by every child. *)
  flag,      \* does_not_have_clone_clear_sighand_internal
  mem,       \* the argument block at the top of every stack
  (* What the kernel keeps. *)
  host,      \* the build and the kernel, fixed in Init
  fdt,       \* descriptor table of every process
  mask,      \* signal mask of every thread and child
  disp,      \* signal dispositions of every process
  cancel,    \* cancelability of every thread (kept by the C library)
  dead,      \* threads that were cancelled
  (* The children. *)
  cpc,       \* what the child of a call does next
  sigi,      \* int sig of psys_sig_clearall_handler
  (* What the clients know, and a history variable. *)
  lease,     \* the call a stack is lent to
  kin        \* kin[p]: p and the children p descends from (history)

frame == <<pc, caller, stk, rd, wr, result, oldset, oldstate>>
vars == <<pc, caller, stk, rd, wr, result, oldset, oldstate, flag, mem, host,
          fdt, mask, disp, cancel, dead, cpc, sigi, lease, kin>>

FrameState == {"idle", "blockall", "pipe", "args", "load", "clone3", "store",
               "clone", "closerd", "closewr", "setmask", "uncancel",
               "return", "returned"}
ChildState == {"none", "clear", "close", "fn", "perr", "exec", "exit",
               "prog", "gone"}

(* The child executes in the shared memory, on the stack it was given.     *)
InVm(c) == cpc[c] \in {"clear", "close", "fn", "perr"}

(* Every write end of the pipe of c is closed: poll reports POLLHUP.       *)
PollHup(c) == \A p \in Proc, f \in Fd : fdt[p][f] # <<c, "w">>

ProcOf(a) == IF a \in Thread THEN Root ELSE a

(* A caller is sequential: it runs one call at a time.                     *)
InCall(a) == \E c \in Call : caller[c] = a /\ pc[c] \notin {"idle", "returned"}

Alive(a) == IF a \in Thread THEN a \notin dead ELSE cpc[a] = "fn"

At(c, l) == pc[c] = l /\ Alive(caller[c])

Goto(c, l) == pc' = [pc EXCEPT ![c] = l]
-----------------------------------------------------------------------------
Init ==
  /\ pc = [c \in Call |-> "idle"]
  /\ caller = [c \in Call |-> None]
  /\ stk = [c \in Call |-> None]
  /\ rd = [c \in Call |-> None]
  /\ wr = [c \in Call |-> None]
  /\ result = [c \in Call |-> "none"]
  /\ oldset = [c \in Call |-> {}]
  /\ oldstate = [c \in Call |-> "enabled"]
  /\ flag = FALSE
  /\ mem = [s \in Stack |-> None]
  /\ host \in Hosts
  /\ fdt = [p \in Proc |-> [f \in Fd |-> None]]
  /\ mask = [a \in Caller |-> IF a \in Thread THEN InitMask[a] ELSE {}]
  /\ disp = [p \in Proc |-> InitDisp]
  /\ cancel = InitCancel
  /\ dead = {}
  /\ cpc = [c \in Call |-> "none"]
  /\ sigi = [c \in Call |-> 1]
  /\ lease = [s \in Stack |-> None]
  /\ kin = [p \in Proc |-> {}]
-----------------------------------------------------------------------------
(* The caller's side.                                                      *)

(* A thread that is not inside a call lends a stack nobody uses to a new   *)
(* one; pthread_setcancelstate(PTHREAD_CANCEL_DISABLE, &oldstate).         *)
Aspawn(t, c, s) ==
  /\ t \notin dead /\ ~InCall(t)
  /\ pc[c] = "idle" /\ lease[s] = None
  /\ Goto(c, "blockall")
  /\ caller' = [caller EXCEPT ![c] = t]
  /\ stk' = [stk EXCEPT ![c] = s]
  /\ lease' = [lease EXCEPT ![s] = c]
  /\ oldstate' = [oldstate EXCEPT ![c] = cancel[t]]
  /\ cancel' = [cancel EXCEPT ![t] = "disabled"]
  /\ UNCHANGED <<rd, wr, result, oldset, flag, mem, host, fdt, mask, disp,
                 dead, cpc, sigi, kin>>

(* sig_blockall(&oldset): SIG_BLOCK with a full set.                       *)
SigBlockAll(c) ==
  /\ At(c, "blockall")
  /\ \/ /\ oldset' = [oldset EXCEPT ![c] = mask[caller[c]]]
        /\ mask' = [mask EXCEPT ![caller[c]] = @ \cup Sig]
        /\ Goto(c, "pipe")
        /\ UNCHANGED result
     \/ /\ result' = [result EXCEPT ![c] = "err"]
        /\ Goto(c, "uncancel")
        /\ UNCHANGED <<oldset, mask>>
  /\ UNCHANGED <<caller, stk, rd, wr, oldstate, flag, mem, host, fdt, disp,
                 cancel, dead, cpc, sigi, lease, kin>>

(* Mutant: the grandchild is handed the current mask of the child.         *)
AspawnRec_CurrentMask(p, c, s) ==
  /\ cpc[p] = "fn" /\ ~InCall(p)
  /\ pc[c] = "idle" /\ lease[s] = None
  /\ Goto(c, "pipe")
  /\ caller' = [caller EXCEPT ![c] = p]
  /\ stk' = [stk EXCEPT ![c] = s]
  /\ lease' = [lease EXCEPT ![s] = c]
  /\ oldset' = [oldset EXCEPT ![c] = mask[p]]
  /\ UNCHANGED <<rd, wr, result, oldstate, flag, mem, host, fdt, mask, disp,
                 cancel, dead, cpc, sigi, kin>>

(* The fn of child p spawns with the old_sigset it was handed.             *)
AspawnRec(p, c, s) ==
  /\ cpc[p] = "fn" /\ ~InCall(p)
  /\ pc[c] = "idle" /\ lease[s] = None
  /\ Goto(c, "pipe")
  /\ caller' = [caller EXCEPT ![c] = p]
  /\ stk' = [stk EXCEPT ![c] = s]
  /\ lease' = [lease EXCEPT ![s] = c]
  /\ oldset' = [oldset EXCEPT ![c] = mem[stk[p]].oldset]
  /\ UNCHANGED <<rd, wr, result, oldstate, flag, mem, host, fdt, mask, disp,
                 cancel, dead, cpc, sigi, kin>>

(* Mutant: the return after a failed pipe2 skips sig_setmask.              *)
AfterImpl_SkipSetMask(c) ==
  IF caller[c] \notin Thread THEN "returned"
  ELSE IF wr[c] = None THEN "uncancel" ELSE "setmask"

(* Where aspawn_impl returns to.                                           *)
AfterImpl(c) == IF caller[c] \in Thread THEN "setmask" ELSE "returned"

(* create_cloexec_pipe(pipefd): the two lowest free descriptors, or        *)
(* -EMFILE, -ENFILE.                                                       *)
CreatePipe(c) ==
  /\ At(c, "pipe")
  /\ \/ LET p == ProcOf(caller[c])
        IN \E r, w \in Fd :
             /\ r < w /\ fdt[p][r] = None /\ fdt[p][w] = None
             /\ \A f \in Fd : fdt[p][f] = None => f = r \/ f >= w
             /\ fdt' = [fdt EXCEPT ![p] = [@ EXCEPT ![r] = <<c, "r">>,
                                                    ![w] = <<c, "w">>]]
             /\ rd' = [rd EXCEPT ![c] = r]
             /\ wr' = [wr EXCEPT ![c] = w]
             /\ Goto(c, "args")
             /\ UNCHANGED result
     \/ /\ result' = [result EXCEPT ![c] = "err"]
        /\ Goto(c, AfterImpl(c))
        /\ UNCHANGED <<fdt, rd, wr>>
  /\ UNCHANGED <<caller, stk, oldset, oldstate, flag, mem, host, mask, disp,
                 cancel, dead, cpc, sigi, lease, kin>>

(* The argument block is written at the top of the stack of the call.      *)
WriteArgs(c) ==
  /\ At(c, "args")
  /\ mem' = [mem EXCEPT ![stk[c]] = [call |-> c, rd |-> rd[c], wr |-> wr[c],
                                     oldset |-> oldset[c]]]
  /\ Goto(c, IF host.build THEN "load" ELSE "clone")
  /\ UNCHANGED <<caller, stk, rd, wr, result, oldset, oldstate, flag, host,
                 fdt, mask, disp, cancel, dead, cpc, sigi, lease, kin>>

(* switch (atomic_load(&does_not_have_clone_clear_sighand_internal)).      *)
LoadFlag(c) ==
  /\ At(c, "load")
  /\ Goto(c, IF flag THEN "clone" ELSE "clone3")
  /\ UNCHANGED <<caller, stk, rd, wr, result, oldset, oldstate, flag, mem,
                 host, fdt, mask, disp, cancel, dead, cpc, sigi, lease, kin>>

(* What both system calls do when they succeed: the child of c starts at   *)
(* l with a copy of the descriptor table of its caller, the mask of its    *)
(* caller and the dispositions d.                                          *)
NewChild(c, l, d) ==
  LET p == ProcOf(caller[c])
  IN /\ cpc' = [cpc EXCEPT ![c] = l]
     /\ fdt' = [fdt EXCEPT ![c] = fdt[p]]
     /\ mask' = [mask EXCEPT ![c] = mask[caller[c]]]
     /\ disp' = [disp EXCEPT ![c] = d]
     /\ kin' = [kin EXCEPT ![c] = kin[p] \cup {c}]
     /\ result' = [result EXCEPT ![c] = "ok"]
     /\ Goto(c, "closewr")

(* Mutant: the read end is not closed when no child was made.              *)
CloneFails_KeepRead(c) ==
  /\ result' = [result EXCEPT ![c] = "err"]
  /\ Goto(c, "closewr")
  /\ UNCHANGED <<cpc, fdt, mask, disp, kin>>

CloneFails(c) ==
  /\ result' = [result EXCEPT ![c] = "err"]
  /\ Goto(c, "closerd")
  /\ UNCHANGED <<cpc, fdt, mask, disp, kin>>

(* CLONE_CLEAR_SIGHAND: caught signals go back to SIG_DFL, ignored ones    *)
(* stay ignored.                                                           *)
ClearSighand(d) == [s \in Sig |-> IF d[s] = "handler" THEN "dfl" ELSE d[s]]

(* clone_clear_sighand_internal: a child, -ENOSYS or -EINVAL, or another   *)
(* error.  A kernel that knows it may answer -EINVAL too, and the call     *)
(* then falls back as it does on one that does not.                        *)
Clone3(c) ==
  /\ At(c, "clone3")
  /\ \/ /\ host.kernel
        /\ NewChild(c, "close", ClearSighand(disp[ProcOf(caller[c])]))
     \/ /\ Goto(c, "store")
        /\ UNCHANGED <<cpc, fdt, mask, disp, kin, result>>
     \/ CloneFails(c)
  /\ UNCHANGED <<caller, stk, rd, wr, oldset, oldstate, flag, mem, host,
                 cancel, dead, sigi, lease>>

(* Mutant: the call goes back to the switch without storing the flag.      *)
StoreFlag_Retry(c) ==
  /\ At(c, "store")
  /\ Goto(c, "load")
  /\ UNCHANGED <<caller, stk, rd, wr, result, oldset, oldstate, flag, mem,
                 host, fdt, mask, disp, cancel, dead, cpc, sigi, lease, kin>>

(* Mutant: the read end is closed before the fallback to clone.            *)
StoreFlag_CloseRead(c) ==
  /\ At(c, "store")
  /\ flag' = TRUE
  /\ fdt' = [fdt EXCEPT ![ProcOf(caller[c])][rd[c]] = None]
  /\ Goto(c, "clone")
  /\ UNCHANGED <<caller, stk, rd, wr, result, oldset, oldstate, mem, host,
                 mask, disp, cancel, dead, cpc, sigi, lease, kin>>

(* atomic_store(&does_not_have_clone_clear_sighand_internal, 1).           *)
StoreFlag(c) ==
  /\ At(c, "store")
  /\ flag' = TRUE
  /\ Goto(c, "clone")
  /\ UNCHANGED <<caller, stk, rd, wr, result, oldset, oldstate, mem, host,
                 fdt, mask, disp, cancel, dead, cpc, sigi, lease, kin>>

(* Mutant: clone_internal is given aspawn_child.                           *)
Clone_NoClear(c) ==
  /\ At(c, "clone")
  /\ \/ NewChild(c, "close", disp[ProcOf(caller[c])])
     \/ CloneFails(c)
  /\ UNCHANGED <<caller, stk, rd, wr, oldset, oldstate, flag, mem, host,
                 cancel, dead, sigi, lease>>

(* clone_internal with aspawn_child_clear_sighand.                         *)
Clone(c) ==
  /\ At(c, "clone")
  /\ \/ NewChild(c, "clear", disp[ProcOf(caller[c])])
     \/ CloneFails(c)
  /\ UNCHANGED <<caller, stk, rd, wr, oldset, oldstate, flag, mem, host,
                 cancel, dead, sigi, lease>>

(* psys_close(pipefd[0]) when no child was made.                           *)
CloseRead(c) ==
  /\ At(c, "closerd")
  /\ fdt' = [fdt EXCEPT ![ProcOf(caller[c])][rd[c]] = None]
  /\ Goto(c, "closewr")
  /\ UNCHANGED <<caller, stk, rd, wr, result, oldset, oldstate, flag, mem,
                 host, mask, disp, cancel, dead, cpc, sigi, lease, kin>>

(* psys_close(pipefd[1]) and the return of aspawn_impl.                    *)
CloseWrite(c) ==
  /\ At(c, "closewr")
  /\ fdt' = [fdt EXCEPT ![ProcOf(caller[c])][wr[c]] = None]
  /\ Goto(c, AfterImpl(c))
  /\ UNCHANGED <<caller, stk, rd, wr, result, oldset, oldstate, flag, mem,
                 host, mask, disp, cancel, dead, cpc, sigi, lease, kin>>

(* sig_setmask(&oldset), whose result aspawn drops.  rt_sigprocmask fails  *)
(* for a wrong sigsetsize, a wrong how or a pointer the kernel cannot      *)
(* read: SIG_SETMASK is right, the size is the one with which sig_blockall *)
(* has succeeded, and the kernel has itself written oldset then.           *)
SigSetMask(c) ==
  /\ At(c, "setmask")
  /\ mask' = [mask EXCEPT ![caller[c]] = oldset[c]]
  /\ Goto(c, "uncancel")
  /\ UNCHANGED <<caller, stk, rd, wr, result, oldset, oldstate, flag, mem,
                 host, fdt, disp, cancel, dead, cpc, sigi, lease, kin>>

(* pthread_setcancelstate(oldstate, NULL): from here on the thread may be  *)
(* cancelled again, before its caller has the descriptor.                  *)
RestoreCancel(c) ==
  /\ At(c, "uncancel")
  /\ cancel' = [cancel EXCEPT ![caller[c]] = oldstate[c]]
  /\ Goto(c, "return")
  /\ UNCHANGED <<caller, stk, rd, wr, result, oldset, oldstate, flag, mem,
                 host, fdt, mask, disp, dead, cpc, sigi, lease, kin>>

(* return result in aspawn.                                                *)
Return(c) ==
  /\ At(c, "return")
  /\ Goto(c, "returned")
  /\ UNCHANGED <<caller, stk, rd, wr, result, oldset, oldstate, flag, mem,
                 host, fdt, mask, disp, cancel, dead, cpc, sigi, lease, kin>>
-----------------------------------------------------------------------------
(* The child's side.                                                       *)

(* Mutant: the loop runs up to and including NSIG.                         *)
ClearHandler_PastEnd(c) ==
  /\ cpc[c] = "clear"
  /\ IF sigi[c] <= NSIG
       THEN /\ disp' = [disp EXCEPT ![c][sigi[c]] = "dfl"]
            /\ sigi' = [sigi EXCEPT ![c] = @ + 1]
            /\ UNCHANGED cpc
       ELSE /\ cpc' = [cpc EXCEPT ![c] = "close"]
            /\ UNCHANGED <<disp, sigi>>
  /\ UNCHANGED <<frame, flag, mem, host, fdt, mask, cancel, dead, lease, kin>>

(* One iteration of psys_sig_clearall_handler, or its end.                 *)
ClearHandler(c) ==
  /\ cpc[c] = "clear"
  /\ IF sigi[c] < NSIG
       THEN /\ disp' = [disp EXCEPT ![c][sigi[c]] = "dfl"]
            /\ sigi' = [sigi EXCEPT ![c] = @ + 1]
            /\ UNCHANGED cpc
       ELSE /\ cpc' = [cpc EXCEPT ![c] = "close"]
            /\ UNCHANGED <<disp, sigi>>
  /\ UNCHANGED <<frame, flag, mem, host, fdt, mask, cancel, dead, lease, kin>>

(* Mutant: the child closes args->pipefd[1].                               *)
CloseReadInChild_WrongEnd(c) ==
  LET f == mem[stk[c]].wr
  IN /\ cpc[c] = "close"
     /\ fdt' = [fdt EXCEPT ![c][f] = None]
     /\ cpc' = [cpc EXCEPT ![c] = IF fdt[c][f] = None THEN "perr" ELSE "fn"]
     /\ UNCHANGED <<frame, flag, mem, host, mask, disp, cancel, dead, sigi,
                    lease, kin>>

(* aspawn_child: psys_close(args->pipefd[0]), perr if that fails, else fn. *)
CloseReadInChild(c) ==
  LET f == mem[stk[c]].rd
  IN /\ cpc[c] = "close"
     /\ fdt' = [fdt EXCEPT ![c][f] = None]
     /\ cpc' = [cpc EXCEPT ![c] = IF fdt[c][f] = None THEN "perr" ELSE "fn"]
     /\ UNCHANGED <<frame, flag, mem, host, mask, disp, cancel, dead, sigi,
                    lease, kin>>

(* fn: psys_sigprocmask(SIG_SETMASK, old_sigset, NULL).                    *)
FnSetMask(c) ==
  /\ cpc[c] = "fn" /\ ~InCall(c)
  /\ mask' = [mask EXCEPT ![c] = mem[stk[c]].oldset]
  /\ UNCHANGED <<frame, flag, mem, host, fdt, disp, cancel, dead, cpc, sigi,
                 lease, kin>>

(* fn: a successful psys_execve.  The kernel first gives the child a       *)
(* memory of its own ...                                                   *)
Execve(c) ==
  /\ cpc[c] = "fn" /\ ~InCall(c)
  /\ cpc' = [cpc EXCEPT ![c] = "exec"]
  /\ UNCHANGED <<frame, flag, mem, host, fdt, mask, disp, cancel, dead, sigi,
                 lease, kin>>

(* Mutant: psys_pipe2 without O_CLOEXEC.                                   *)
PipeIsCloexec_Not == FALSE

(* The flag create_cloexec_pipe gives both ends of every pipe.             *)
PipeIsCloexec == TRUE

(* ... then closes the descriptors marked close-on-exec.                   *)
CloseOnExec(c) ==
  /\ cpc[c] = "exec"
  /\ cpc' = [cpc EXCEPT ![c] = "prog"]
  /\ fdt' = IF PipeIsCloexec
              THEN [fdt EXCEPT ![c] = [f \in Fd |-> None]]
              ELSE fdt
  /\ UNCHANGED <<frame, flag, mem, host, mask, disp, cancel, dead, sigi,
                 lease, kin>>

(* fn returned or perr was called: psys_exit.  The kernel drops the memory *)
(* first ...                                                               *)
Exit(c) ==
  /\ cpc[c] \in {"fn", "perr"} /\ ~InCall(c)
  /\ cpc' = [cpc EXCEPT ![c] = "exit"]
  /\ UNCHANGED <<frame, flag, mem, host, fdt, mask, disp, cancel, dead, sigi,
                 lease, kin>>

(* A fatal signal ends the child wherever it is.                           *)
Kill(c) ==
  /\ InVm(c)
  /\ cpc' = [cpc EXCEPT ![c] = "exit"]
  /\ UNCHANGED <<frame, flag, mem, host, fdt, mask, disp, cancel, dead, sigi,
                 lease, kin>>

(* ... then the descriptors; the new program of an execve ends likewise.   *)
ReleaseFds(c) ==
  /\ cpc[c] \in {"exit", "prog"}
  /\ cpc' = [cpc EXCEPT ![c] = "gone"]
  /\ fdt' = [fdt EXCEPT ![c] = [f \in Fd |-> None]]
  /\ UNCHANGED <<frame, flag, mem, host, mask, disp, cancel, dead, sigi,
                 lease, kin>>
-----------------------------------------------------------------------------
(* The clients.                                                            *)

(* Mutant: the stack is reused as soon as aspawn has returned.             *)
Reuse_NoWait(c) ==
  /\ At(c, "returned") /\ ~InCall(caller[c])
  /\ lease[stk[c]] = c
  /\ lease' = [lease EXCEPT ![stk[c]] = None]
  /\ UNCHANGED <<frame, flag, mem, host, fdt, mask, disp, cancel, dead, cpc,
                 sigi, kin>>

(* The caller takes its stack back: aspawn failed, or poll on the          *)
(* descriptor it returned reported POLLHUP.                                *)
Reuse(c) ==
  /\ At(c, "returned") /\ ~InCall(caller[c])
  /\ lease[stk[c]] = c
  /\ result[c] = "err" \/ PollHup(c)
  /\ lease' = [lease EXCEPT ![stk[c]] = None]
  /\ UNCHANGED <<frame, flag, mem, host, fdt, mask, disp, cancel, dead, cpc,
                 sigi, kin>>

(* Then it closes the descriptor.                                          *)
CloseResult(c) ==
  /\ At(c, "returned") /\ ~InCall(caller[c])
  /\ result[c] = "ok" /\ lease[stk[c]] # c
  /\ fdt[ProcOf(caller[c])][rd[c]] = <<c, "r">>
  /\ fdt' = [fdt EXCEPT ![ProcOf(caller[c])][rd[c]] = None]
  /\ UNCHANGED <<frame, flag, mem, host, mask, disp, cancel, dead, cpc, sigi,
                 lease, kin>>

(* pthread_cancel takes effect (asynchronous cancelability, the worst      *)
(* case) whenever the target has cancellation enabled.                     *)
Cancel(t) ==
  /\ t \notin dead /\ cancel[t] = "enabled"
  /\ dead' = dead \cup {t}
  /\ UNCHANGED <<frame, flag, mem, host, fdt, mask, disp, cancel, cpc, sigi,
                 lease, kin>>
-----------------------------------------------------------------------------
CallStep(c) ==
  \/ SigBlockAll(c) \/ CreatePipe(c) \/ WriteArgs(c) \/ LoadFlag(c)
  \/ Clone3(c) \/ StoreFlag(c) \/ Clone(c)
  \/ CloseRead(c) \/ CloseWrite(c) \/ SigSetMask(c) \/ RestoreCancel(c)
  \/ Return(c)

ChildPrologue(c) == ClearHandler(c) \/ CloseReadInChild(c)

FnEnds(c) == Execve(c) \/ Exit(c)

Next ==
  \/ \E t \in Thread, c \in Call, s \in Stack : Aspawn(t, c, s)
  \/ \E p \in Call, c \in Call, s \in Stack : AspawnRec(p, c, s)
  \/ \E c \in Call :
       \/ CallStep(c)
       \/ ChildPrologue(c) \/ FnSetMask(c) \/ FnEnds(c) \/ Kill(c)
       \/ CloseOnExec(c) \/ ReleaseFds(c)
       \/ Reuse(c) \/ CloseResult(c)
  \/ \E t \in Thread : Cancel(t)

Spec == Init /\ [][Next]_vars

(* What the library and the kernel guarantee: a caller inside aspawn runs  *)
(* on, so does a child up to fn, and the kernel finishes an execve or an   *)
(* exit it has begun.  Nothing is said of fn.                              *)
LibraryFairness ==
  \A c \in Call :
    /\ WF_vars(CallStep(c))
    /\ WF_vars(ChildPrologue(c))
    /\ WF_vars(CloseOnExec(c))
    /\ WF_vars(ReleaseFds(c) /\ cpc[c] = "exit")

(* What the user owes the library: every fn execs or returns.              *)
FnFairness == \A c \in Call : WF_vars(FnEnds(c))

LibrarySpec == Spec /\ LibraryFairness
FairSpec == Spec /\ LibraryFairness /\ FnFairness
-----------------------------------------------------------------------------
(* Type correctness; among it, the loop of psys_sig_clearall_handler ends  *)
(* at NSIG.                                                                *)
TypeOK ==
  /\ pc \in [Call -> FrameState]
  /\ caller \in [Call -> Caller \cup {None}]
  /\ stk \in [Call -> Stack \cup {None}]
  /\ rd \in [Call -> Fd \cup {None}]
  /\ wr \in [Call -> Fd \cup {None}]
  /\ result \in [Call -> {"none", "ok", "err"}]
  /\ oldset \in [Call -> SUBSET Sig]
  /\ oldstate \in [Call -> {"enabled", "disabled"}]
  /\ flag \in BOOLEAN
  /\ mem \in [Stack -> Args \cup {None}]
  /\ host \in Hosts
  /\ fdt \in [Proc -> [Fd -> End \cup {None}]]
  /\ mask \in [Caller -> SUBSET Sig]
  /\ disp \in [Proc -> [Sig -> {"dfl", "ign", "handler"}]]
  /\ cancel \in [Thread -> {"enabled", "disabled"}]
  /\ dead \in SUBSET Thread
  /\ cpc \in [Call -> ChildState]
  /\ sigi \in [Call -> 1 .. NSIG]
  /\ lease \in [Stack -> Call \cup {None}]
  /\ kin \in [Proc -> SUBSET Call]

(* A descriptor that hung up is a licence to reuse memory: once aspawn has *)
(* returned a read end and it hangs up, neither the child of that call nor *)
(* anyone that child spawned (aspawn_rec) runs in the shared memory.       *)
HupMeansStackFree ==
  \A c, d \in Call :
    pc[c] = "returned" /\ result[c] = "ok" /\ PollHup(c) /\ c \in kin[d]
      => ~InVm(d)

(* A child reads, as long as it runs on its stack, the arguments its own   *)
(* call wrote there, and the descriptor it hands to fn is its write end.   *)
ChildSeesOwnArgs ==
  \A c \in Call : InVm(c) =>
    /\ mem[stk[c]] = [call |-> c, rd |-> rd[c], wr |-> wr[c],
                      oldset |-> oldset[c]]
    /\ fdt[c][wr[c]] = <<c, "w">>

(* "This should always succeeds": the child never finds its read end       *)
(* closed, so the perr branch of aspawn_child is never taken.              *)
ChildCloseSucceeds == \A c \in Call : cpc[c] # "perr"

(* No signal handler of the root process can run in a child: a signal such *)
(* a child would catch is blocked.                                         *)
NoParentHandler ==
  \A c \in Call : InVm(c) =>
    \A s \in Sig : disp[c][s] = "handler" => s \in mask[c]

(* The old_sigset a child is handed is the mask its thread had before      *)
(* aspawn, also through any number of aspawn_rec.                          *)
OriginalMask ==
  \A c \in Call : InVm(c) =>
    mem[stk[c]].oldset = IF caller[c] \in Thread THEN InitMask[caller[c]]
                                                 ELSE oldset[caller[c]]

(* Whatever failed on the way, a thread that is not inside aspawn has the  *)
(* signal mask and the cancelability it called aspawn with.                *)
CallerRestored ==
  \A t \in Thread : ~InCall(t) => /\ mask[t] = InitMask[t]
                                  /\ cancel[t] = InitCancel[t]

(* The root process keeps a write end only while a thread that has not     *)
(* been cancelled is inside the call, and a read end only then or when the *)
(* call has succeeded and cancellation is enabled again: no error path     *)
(* leaks a descriptor, and no cancellation can before aspawn has restored  *)
(* the cancelability.  What a thread that is cancelled after that does     *)
(* with the descriptor of a successful call is no concern of this          *)
(* property: it may then be lost.                                          *)
NoDescriptorLeak ==
  \A c \in Call, f \in Fd :
    LET inside == /\ pc[c] \notin {"idle", "return", "returned"}
                  /\ caller[c] \in Thread \ dead
    IN /\ fdt[Root][f] = <<c, "w">> => inside
       /\ fdt[Root][f] = <<c, "r">> =>
            inside \/ (pc[c] \in {"return", "returned"} /\ result[c] = "ok")
-----------------------------------------------------------------------------
(* Every call of aspawn returns, unless its caller is killed meanwhile.    *)
CallReturns ==
  \A c \in Call :
    pc[c] # "idle" ~> pc[c] = "returned"
                        \/ (pc[c] # "idle" /\ ~Alive(caller[c]))

(* If every fn ends, the descriptor of every successful call hangs up,     *)
(* whoever inherited the write end and whatever the new programs do.       *)
HupEventually ==
  \A c \in Call :
    pc[c] = "returned" /\ result[c] = "ok" ~> PollHup(c)

(* README.md: polling the descriptor tells whether "the child process has  *)
(* done using cached_stack".  That is, once the child of that call and the *)
(* children it spawned itself are off their stacks, the descriptor hangs   *)
(* up, whatever children of other calls do.                                *)
HupFollowsOwnChild ==
  \A c \in Call :
    /\ pc[c] = "returned" /\ result[c] = "ok"
    /\ \A d \in Call : c \in kin[d] => ~InVm(d)
    ~> PollHup(c)
=============================================================================
