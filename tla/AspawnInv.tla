----------------------------- MODULE AspawnInv -----------------------------
(***************************************************************************)
(* The inductive invariant of Aspawn, in parts.  Each part says what one   *)
(* kind of state looks like at every point of a call and of a child.       *)
(***************************************************************************)
EXTENDS AspawnLease

(* From the pipe to the last close of aspawn_impl.                         *)
HasPipe(c) == pc[c] \in {"args", "load", "clone3", "store", "clone",
                         "closerd", "closewr"}

Active(c) == pc[c] \notin {"idle", "returned"}

(* The process of the caller still has the descriptors the call opened.    *)
CallerUp(c) == caller[c] \in Thread \/ cpc[caller[c]] = "fn"

(* The child still has its copy of the descriptor table.                   *)
Holding(c) == cpc[c] \in {"clear", "close", "fn", "perr", "exec", "exit"}

(* A call that has begun has a caller, which is sequential, and a stack; a *)
(* child exists from the success of its call on, and only a child that has *)
(* reached fn is a caller.                                                 *)
FrameInv ==
  \A c \in Call :
    /\ pc[c] # "idle" => caller[c] \in Caller /\ stk[c] \in Stack
    /\ pc[c] \in {"blockall", "setmask", "uncancel", "return"} =>
         caller[c] \in Thread
    /\ HasPipe(c) \/ cpc[c] # "none" =>
         rd[c] \in Fd /\ wr[c] \in Fd /\ rd[c] # wr[c]
    /\ cpc[c] # "none" =>
         pc[c] \in {"closewr", "setmask", "uncancel", "return", "returned"}
    /\ result[c] = "ok" <=> cpc[c] # "none"
    /\ pc[c] # "idle" /\ caller[c] \in Call =>
         cpc[caller[c]] \notin {"none", "clear", "close"}
    /\ \A d \in Call :
         Active(c) /\ Active(d) /\ caller[c] = caller[d] => c = d

(* Whoever is being spawned or runs on a stack has that stack on lease.    *)
LeaseInv ==
  \A c \in Call : Active(c) \/ InVm(c) => lease[stk[c]] = c

(* The argument block of a call stays as it was written.                   *)
ArgsInv ==
  \A c \in Call :
    InVm(c) \/ pc[c] \in {"load", "clone3", "store", "clone"} =>
      mem[stk[c]] = [call |-> c, rd |-> rd[c], wr |-> wr[c],
                     oldset |-> oldset[c]]

(* Where the ends of the pipe of c are: in its caller until aspawn_impl     *)
(* closes them; and which ends its child has: the write end of every call  *)
(* it descends from, under the number it had in the caller, until execve   *)
(* or exit.                                                                *)
EndsInCaller(c) ==
  HasPipe(c) /\ CallerUp(c) =>
    /\ fdt[ProcOf(caller[c])][wr[c]] = <<c, "w">>
    /\ pc[c] # "closewr" => fdt[ProcOf(caller[c])][rd[c]] = <<c, "r">>

EndsInChild(c) ==
  /\ cpc[c] \in {"clear", "close"} => fdt[c][rd[c]] = <<c, "r">>
  /\ Holding(c) => \A d \in kin[c] : fdt[c][wr[d]] = <<d, "w">>

KinOf(c) ==
  /\ cpc[c] # "none" => c \in kin[c]
  /\ \A d \in kin[c] : cpc[d] # "none"
  /\ pc[c] # "idle" /\ caller[c] \in Call => c \notin kin[caller[c]]

FdInv ==
  /\ kin[Root] = {}
  /\ \A c \in Call : EndsInCaller(c) /\ EndsInChild(c) /\ KinOf(c)

(* The inductive invariant about stacks, arguments and descriptors.        *)
StackInv ==
  /\ TypeOK
  /\ FrameInv
  /\ LeaseInv
  /\ ArgsInv
  /\ FdInv
  /\ ChildCloseSucceeds

(* While a thread is inside aspawn_impl everything is blocked; a child     *)
(* that has passed its prologue catches nothing.                           *)
SignalInv ==
  \A c \in Call :
    /\ (HasPipe(c) \/ pc[c] \in {"pipe", "setmask"}) /\ caller[c] \in Thread
         => mask[caller[c]] = Sig
    /\ cpc[c] = "clear" =>
         \A s \in Sig : disp[c][s] = "handler" => s \in mask[c] /\ s >= sigi[c]
    /\ cpc[c] \in {"close", "fn", "perr"} =>
         \A s \in Sig : disp[c][s] # "handler"
    /\ cpc[c] = "none" => sigi[c] = 1

IInv == StackInv /\ SignalInv
-----------------------------------------------------------------------------
(* A thread inside aspawn cannot be cancelled before the last statement,   *)
(* and its frame holds what has to be put back; from sig_blockall to       *)
(* sig_setmask that includes the mask.                                     *)
ThreadInv ==
  \A c \in Call :
    Active(c) /\ caller[c] \in Thread =>
      /\ pc[c] # "return" =>
           /\ caller[c] \notin dead
           /\ cancel[caller[c]] = "disabled"
      /\ pc[c] = "return" => cancel[caller[c]] = InitCancel[caller[c]]
      /\ oldstate[c] = InitCancel[caller[c]]
      /\ pc[c] \in {"blockall", "uncancel", "return"} =>
           mask[caller[c]] = InitMask[caller[c]]

(* The mask on its way from the thread to the last of its descendants.     *)
OldsetInv ==
  \A c \in Call :
    /\ /\ HasPipe(c) \/ pc[c] \in {"pipe", "setmask"} \/ cpc[c] # "none"
       /\ caller[c] \in Thread
       => oldset[c] = InitMask[caller[c]]
    /\ pc[c] # "idle" /\ caller[c] \in Call => oldset[c] = oldset[caller[c]]

(* The ends of pipes the root process has, and under which numbers.        *)
RootInv ==
  \A c \in Call, f \in Fd :
    /\ fdt[Root][f] = <<c, "w">> =>
         HasPipe(c) /\ caller[c] \in Thread /\ f = wr[c]
    /\ fdt[Root][f] = <<c, "r">> =>
         /\ caller[c] \in Thread /\ f = rd[c]
         /\ \/ HasPipe(c) /\ pc[c] # "closewr"
            \/ pc[c] # "idle" /\ result[c] = "ok"

(* The inductive invariant about what a caller gets back, relative to IInv. *)
CallerInv == CallerRestored /\ ThreadInv /\ OldsetInv /\ RootInv
=============================================================================
