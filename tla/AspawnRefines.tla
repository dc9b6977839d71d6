--------------------------- MODULE AspawnRefines ---------------------------
(***************************************************************************)
(* Aspawn implements StackLease, for every value of the constants: the     *)
(* stack discipline that the clients see is kept whatever the threads, the *)
(* children and the kernel do in between.                                  *)
(***************************************************************************)
EXTENDS AspawnProofs

(* A step that neither starts, spawns nor ends a call, and moves no lease, *)
(* is a stutter of StackLease.                                             *)
LEMMA UseKept ==
  ASSUME UNCHANGED lease,
         \A e \in Call : /\ pc'[e] = "idle" <=> pc[e] = "idle"
                         /\ cpc'[e] = "none" <=> cpc[e] = "none"
                         /\ InVm(e)' <=> InVm(e)
  PROVE  UNCHANGED Lease!leaseVars
<1>1. \A e \in Call : UseOf(e)' = UseOf(e)
  BY DEF UseOf
<1>2. [e \in Call |-> UseOf(e)]' = [e \in Call |-> UseOf(e)]
  BY <1>1
<1> QED BY <1>2 DEF Lease!leaseVars

(* A step that changes how far call c is, and nothing about other calls.   *)
LEMMA UseChanges ==
  ASSUME NEW c \in Call, NEW u,
         UseOf(c)' = u,
         \A e \in Call \ {c} : UseOf(e)' = UseOf(e)
  PROVE  [e \in Call |-> UseOf(e)]' = [[e \in Call |-> UseOf(e)] EXCEPT ![c] = u]
OBVIOUS

(* The first step of aspawn and of aspawn_rec lends the stack.             *)
LEMMA LendStep ==
  ASSUME IInv, NEW c \in Call, NEW s \in Stack,
         \/ \E t \in Thread : Aspawn(t, c, s)
         \/ \E p \in Call : AspawnRec(p, c, s)
  PROVE  Lease!Lend(c, s)
<1> USE DEF IInv, StackInv
<1>1. /\ pc[c] = "idle" /\ lease[s] = None /\ lease' = [lease EXCEPT ![s] = c]
      /\ pc'[c] # "idle" /\ \A e \in Call \ {c} : pc'[e] = pc[e]
      /\ UNCHANGED cpc
  BY DEF Aspawn, AspawnRec, Goto, TypeOK
<1>2. cpc[c] = "none"
  BY <1>1 DEF FrameInv
<1>3. UseOf(c) = "new" /\ UseOf(c)' = "lent"
  BY <1>1, <1>2 DEF UseOf
<1>4. \A e \in Call \ {c} : UseOf(e)' = UseOf(e)
  BY <1>1 DEF UseOf, InVm
<1>5. [e \in Call |-> UseOf(e)]' = [[e \in Call |-> UseOf(e)] EXCEPT ![c] = "lent"]
  BY <1>3, <1>4, UseChanges
<1> QED BY <1>1, <1>3, <1>5 DEF Lease!Lend

(* A successful clone or clone3 starts the child on its leased stack.      *)
LEMMA StartStep ==
  ASSUME IInv, NEW c \in Call, pc[c] \in {"clone3", "clone"},
         NEW l \in {"clear", "close"}, NEW d, NewChild(c, l, d), UNCHANGED lease
  PROVE  Lease!Start(c)
<1> USE DEF IInv, StackInv
<1>1. /\ pc'[c] = "closewr" /\ cpc'[c] = l
      /\ \A e \in Call \ {c} : pc'[e] = pc[e] /\ cpc'[e] = cpc[e]
  BY DEF NewChild, Goto, TypeOK
<1>2. cpc[c] = "none" /\ stk[c] \in Stack /\ lease[stk[c]] = c
  BY DEF FrameInv, LeaseInv, Active
<1>3. UseOf(c) = "lent" /\ UseOf(c)' = "running"
  BY <1>1, <1>2 DEF UseOf, InVm
<1>4. \A e \in Call \ {c} : UseOf(e)' = UseOf(e)
  BY <1>1 DEF UseOf, InVm
<1>5. [e \in Call |-> UseOf(e)]' = [[e \in Call |-> UseOf(e)] EXCEPT ![c] = "running"]
  BY <1>3, <1>4, UseChanges
<1> QED BY <1>2, <1>3, <1>5 DEF Lease!Start

(* A child leaves its stack by execve, by exit or by a fatal signal.       *)
LEMMA EndStep ==
  ASSUME IInv, NEW c \in Call, Execve(c) \/ Exit(c) \/ Kill(c)
  PROVE  Lease!End(c)
<1> USE DEF IInv, StackInv
<1>1. /\ InVm(c) /\ cpc'[c] \in {"exec", "exit"}
      /\ \A e \in Call \ {c} : cpc'[e] = cpc[e]
      /\ UNCHANGED <<pc, lease>>
  BY DEF Execve, Exit, Kill, InVm, frame, TypeOK
<1>2. pc[c] # "idle" /\ cpc[c] # "none"
  BY <1>1 DEF FrameInv, InVm
<1>3. UseOf(c) = "running" /\ UseOf(c)' = "over"
  BY <1>1, <1>2 DEF UseOf, InVm
<1>4. \A e \in Call \ {c} : UseOf(e)' = UseOf(e)
  BY <1>1 DEF UseOf, InVm
<1>5. [e \in Call |-> UseOf(e)]' = [[e \in Call |-> UseOf(e)] EXCEPT ![c] = "over"]
  BY <1>3, <1>4, UseChanges
<1> QED BY <1>1, <1>3, <1>5 DEF Lease!End

(* A client that saw POLLHUP, or an error, takes back an unused stack.     *)
LEMMA TakeBackStep ==
  ASSUME IInv, NEW c \in Call, Reuse(c)
  PROVE  Lease!TakeBack(stk[c])
<1> USE DEF IInv, StackInv
<1>1. /\ lease[stk[c]] = c /\ c # None
      /\ lease' = [lease EXCEPT ![stk[c]] = None]
      /\ UNCHANGED <<pc, cpc>>
  BY ConstantsAssumption DEF Reuse, frame
<1>2. ~InVm(c)
  BY ReuseIsSafe
<1>3. UseOf(c) # "running"
  BY <1>2 DEF UseOf
<1>4. [e \in Call |-> UseOf(e)]' = [e \in Call |-> UseOf(e)]
  BY <1>1 DEF UseOf, InVm
<1> QED BY <1>1, <1>3, <1>4 DEF Lease!TakeBack

(* clone and clone3 start a child or leave the lease as it was.            *)
LEMMA CloneMaps ==
  ASSUME IInv, NEW c \in Call, Clone3(c) \/ Clone(c)
  PROVE  Lease!Start(c) \/ UNCHANGED Lease!leaseVars
<1> USE DEF IInv, StackInv
<1>1. pc[c] \in {"clone3", "clone"} /\ UNCHANGED lease
  BY DEF Clone3, Clone, At
<1>2. CASE \E l \in {"clear", "close"} : \E d : NewChild(c, l, d)
  BY <1>1, <1>2, StartStep
<1>3. CASE UNCHANGED cpc /\ \E l \in {"store", "closerd"} : Goto(c, l)
  <2>1. \A e \in Call : pc'[e] = "idle" <=> pc[e] = "idle"
    BY <1>1, <1>3 DEF Goto, TypeOK
  <2> QED BY <1>1, <1>3, <2>1, UseKept DEF InVm
<1> QED BY <1>2, <1>3 DEF Clone3, Clone, CloneFails

(* Every step of Aspawn is a step or a stutter of StackLease.              *)
LEMMA NextMaps == IInv /\ [Next]_vars => [Lease!Next]_(Lease!leaseVars)
<1> SUFFICES ASSUME IInv, [Next]_vars
             PROVE  Lease!Next \/ UNCHANGED Lease!leaseVars
  OBVIOUS
<1> USE DEF IInv, StackInv
<1>1. CASE \E t \in Thread, c \in Call, s \in Stack : Aspawn(t, c, s)
  BY <1>1, LendStep DEF Lease!Next
<1>2. CASE \E p \in Call, c \in Call, s \in Stack : AspawnRec(p, c, s)
  BY <1>2, LendStep DEF Lease!Next
<1>3. ASSUME NEW c \in Call, Clone3(c) \/ Clone(c)
      PROVE  Lease!Next \/ UNCHANGED Lease!leaseVars
  BY <1>3, CloneMaps DEF Lease!Next
<1>4. ASSUME NEW c \in Call,
             \/ SigBlockAll(c) \/ CreatePipe(c) \/ WriteArgs(c) \/ LoadFlag(c)
             \/ StoreFlag(c) \/ CloseRead(c) \/ CloseWrite(c) \/ SigSetMask(c)
             \/ RestoreCancel(c) \/ Return(c)
      PROVE  UNCHANGED Lease!leaseVars
  <2>1. UNCHANGED <<cpc, lease>>
    BY <1>4 DEF SigBlockAll, CreatePipe, WriteArgs, LoadFlag, StoreFlag,
                CloseRead, CloseWrite, SigSetMask, RestoreCancel, Return
  <2>2. pc[c] # "idle"
    BY <1>4 DEF SigBlockAll, CreatePipe, WriteArgs, LoadFlag, StoreFlag,
                CloseRead, CloseWrite, SigSetMask, RestoreCancel, Return, At
  <2>3. \E l : l # "idle" /\ pc' = [pc EXCEPT ![c] = l]
    BY <1>4 DEF SigBlockAll, CreatePipe, WriteArgs, LoadFlag, StoreFlag, Goto,
                CloseRead, CloseWrite, SigSetMask, RestoreCancel, Return,
                AfterImpl
  <2>4. \A e \in Call : pc'[e] = "idle" <=> pc[e] = "idle"
    BY <2>2, <2>3 DEF TypeOK
  <2> QED BY <2>1, <2>4, UseKept DEF InVm
<1>5. ASSUME NEW c \in Call, Execve(c) \/ Exit(c) \/ Kill(c)
      PROVE  Lease!Next
  BY <1>5, EndStep DEF Lease!Next
<1>6. ASSUME NEW c \in Call,
             ChildPrologue(c) \/ FnSetMask(c) \/ CloseOnExec(c) \/ ReleaseFds(c)
      PROVE  UNCHANGED Lease!leaseVars
  <2>1. /\ UNCHANGED <<pc, lease>>
        /\ \A e \in Call : /\ cpc'[e] = "none" <=> cpc[e] = "none"
                           /\ InVm(e)' <=> InVm(e)
    <3>1. UNCHANGED <<pc, lease>>
      BY <1>6 DEF ChildPrologue, ClearHandler, CloseReadInChild, FnSetMask,
                  CloseOnExec, ReleaseFds, frame
    <3>2. CASE ChildPrologue(c)
      BY <3>1, <3>2 DEF ChildPrologue, ClearHandler, CloseReadInChild, TypeOK, InVm
    <3>3. CASE FnSetMask(c) \/ CloseOnExec(c) \/ ReleaseFds(c)
      BY <3>1, <3>3 DEF FnSetMask, CloseOnExec, ReleaseFds, TypeOK, InVm
    <3> QED BY <1>6, <3>1, <3>2, <3>3
  <2> QED BY <2>1, UseKept
<1>7. ASSUME NEW c \in Call, Reuse(c)
      PROVE  Lease!Next
  <2>1. stk[c] \in Stack
    BY <1>7 DEF Reuse, At, FrameInv
  <2> QED BY <1>7, <2>1, TakeBackStep DEF Lease!Next
<1>8. CASE \/ \E c \in Call : CloseResult(c)
           \/ \E t \in Thread : Cancel(t)
           \/ UNCHANGED vars
  <2>1. UNCHANGED <<pc, cpc, lease>>
    BY <1>8 DEF CloseResult, Cancel, frame, vars
  <2> QED BY <2>1, UseKept DEF InVm
<1> QED BY <1>1, <1>2, <1>3, <1>4, <1>5, <1>6, <1>7, <1>8
        DEF Next, CallStep, FnEnds

(* aspawn keeps the promise StackLease states: a stack that is lent to a   *)
(* call is not taken back while the child of that call runs on it, and a   *)
(* child is only ever started on a stack lent to its call.                 *)
THEOREM Refinement == Spec => ImplementsStackLease
<1>1. Init => Lease!Init
  BY DEF Init, Lease!Init, UseOf
<1> QED BY <1>1, NextMaps, InductiveInvariant, PTL
        DEF Spec, ImplementsStackLease, Lease!Spec

(* Two children that run in the shared memory run on different stacks:     *)
(* whatever calls of aspawn and aspawn_rec overlap, clone is never given a *)
(* stack that another child is still on.                                   *)
THEOREM NoSharedStack ==
  Spec => [](\A c, d \in Call : InVm(c) /\ InVm(d) /\ stk[c] = stk[d] => c = d)
<1>1. IInv => \A c, d \in Call : InVm(c) /\ InVm(d) /\ stk[c] = stk[d] => c = d
  BY DEF IInv, StackInv, LeaseInv
<1> QED BY <1>1, InductiveInvariant, PTL
=============================================================================
