---------------------------- MODULE AspawnProofs ----------------------------
(***************************************************************************)
(* IInv (AspawnInv) is an inductive invariant of Aspawn, for any number of *)
(* threads, calls, stacks, descriptors and signals, and what follows from  *)
(* it.  One lemma per action, or per group of actions that touch the same  *)
(* state; in each, one step per part of IInv.                              *)
(***************************************************************************)
EXTENDS AspawnInv, TLAPS

(* The entries the caller of e has for the pipe of e are still there if no *)
(* step overwrites them; likewise for the entries of the child of e.       *)
LEMMA EndsInCallerKept ==
  ASSUME IInv, NEW e \in Call,
         caller'[e] = caller[e], rd'[e] = rd[e], wr'[e] = wr[e],
         (HasPipe(e) /\ CallerUp(e))' =>
           /\ HasPipe(e) /\ CallerUp(e)
           /\ pc'[e] # "closewr" => pc[e] # "closewr"
           /\ \A f \in Fd :
                LET q == ProcOf(caller[e])
                IN /\ fdt[q][f] = <<e, "w">> => fdt'[q][f] = <<e, "w">>
                   /\ pc'[e] # "closewr" /\ fdt[q][f] = <<e, "r">>
                        => fdt'[q][f] = <<e, "r">>
  PROVE  EndsInCaller(e)'
<1> SUFFICES ASSUME (HasPipe(e) /\ CallerUp(e))'
             PROVE  LET q == ProcOf(caller[e])
                    IN /\ fdt'[q][wr[e]] = <<e, "w">>
                       /\ pc'[e] # "closewr" => fdt'[q][rd[e]] = <<e, "r">>
  BY DEF EndsInCaller, ProcOf
<1>1. rd[e] \in Fd /\ wr[e] \in Fd
  BY DEF IInv, StackInv, FrameInv
<1> QED BY <1>1 DEF IInv, StackInv, FdInv, EndsInCaller

LEMMA EndsInChildKept ==
  ASSUME IInv, NEW e \in Call,
         kin'[e] = kin[e],
         \A d \in Call : cpc[d] # "none" => rd'[d] = rd[d] /\ wr'[d] = wr[d],
         cpc'[e] \in {"clear", "close"} =>
           /\ cpc[e] \in {"clear", "close"}
           /\ \A f \in Fd : fdt[e][f] = <<e, "r">> => fdt'[e][f] = <<e, "r">>,
         Holding(e)' =>
           /\ Holding(e)
           /\ \A d \in Call, f \in Fd :
                fdt[e][f] = <<d, "w">> => fdt'[e][f] = <<d, "w">>
  PROVE  EndsInChild(e)'
<1>1. EndsInChild(e) /\ KinOf(e) /\ kin[e] \subseteq Call
  BY DEF IInv, StackInv, FdInv, TypeOK, Proc
<1>2. \A d \in Call : cpc[d] # "none" => rd[d] \in Fd /\ wr[d] \in Fd
  BY DEF IInv, StackInv, FrameInv
<1>3. ASSUME cpc'[e] \in {"clear", "close"}
      PROVE  fdt'[e][rd'[e]] = <<e, "r">>
  BY <1>1, <1>2, <1>3 DEF EndsInChild
<1>4. ASSUME Holding(e)', NEW d \in kin[e]
      PROVE  fdt'[e][wr'[d]] = <<d, "w">>
  <2>1. d \in Call /\ cpc[d] # "none" BY <1>1, <1>4 DEF KinOf
  <2>2. fdt[e][wr[d]] = <<d, "w">> /\ wr'[d] = wr[d] /\ wr[d] \in Fd
    BY <1>1, <1>2, <1>4, <2>1 DEF EndsInChild
  <2> QED BY <1>4, <2>1, <2>2
<1> QED BY <1>3, <1>4 DEF EndsInChild

(* Steps that leave descriptors and kinship alone: FdInv can only be lost   *)
(* through pc and cpc.                                                     *)
LEMMA FdInvKept ==
  ASSUME IInv, UNCHANGED <<caller, rd, wr, fdt, kin>>,
         \A e \in Call :
           /\ HasPipe(e)' => HasPipe(e) /\ (pc'[e] # "closewr" => pc[e] # "closewr")
           /\ pc'[e] # "idle" => pc[e] # "idle"
           /\ cpc'[e] \in {"clear", "close"} => cpc[e] \in {"clear", "close"}
           /\ Holding(e)' => Holding(e)
           /\ cpc'[e] = "none" <=> cpc[e] = "none"
           /\ cpc'[e] = "fn" => cpc[e] = "fn"
  PROVE  FdInv'
<1> USE DEF IInv, StackInv
<1>1. ASSUME NEW e \in Call PROVE EndsInCaller(e)'
  <2>1. HasPipe(e) => caller[e] \in Thread \/ caller[e] \in Call
    BY DEF FrameInv, HasPipe, Caller
  <2>2. (HasPipe(e) /\ CallerUp(e))' => HasPipe(e) /\ CallerUp(e)
    BY <2>1 DEF CallerUp
  <2> QED BY <2>2, EndsInCallerKept
<1>2. ASSUME NEW e \in Call PROVE EndsInChild(e)'
  BY EndsInChildKept
<1>3. ASSUME NEW e \in Call PROVE KinOf(e)'
  <2>1. KinOf(e) /\ kin[e] \subseteq Call BY DEF FdInv, TypeOK, Proc
  <2> QED BY <2>1 DEF KinOf
<1> QED BY <1>1, <1>2, <1>3 DEF FdInv

(* Once the argument block is written, only a write to the stack of e or   *)
(* to the frame of e could change what the child of e reads.               *)
LEMMA ArgsInvKept ==
  ASSUME ArgsInv, UNCHANGED <<mem, stk>>,
         \A e \in Call :
           (InVm(e) \/ pc[e] \in {"load", "clone3", "store", "clone"})' =>
             /\ InVm(e) \/ pc[e] \in {"load", "clone3", "store", "clone"}
             /\ rd'[e] = rd[e] /\ wr'[e] = wr[e] /\ oldset'[e] = oldset[e]
  PROVE  ArgsInv'
BY DEF ArgsInv
-----------------------------------------------------------------------------
(* The caller's side.                                                      *)
LEMMA AspawnStep ==
  ASSUME IInv, NEW t \in Thread, NEW c \in Call, NEW s \in Stack,
         Aspawn(t, c, s)
  PROVE  IInv'
<1> USE ConstantsAssumption DEF IInv, StackInv
<1>1. TypeOK'
  BY DEF TypeOK, FrameState, Caller, Aspawn, Goto
<1>2. FrameInv'
  BY DEF TypeOK, FrameInv, HasPipe, Active, Caller, InCall, Aspawn, Goto
<1>3. LeaseInv'
  BY DEF TypeOK, FrameInv, LeaseInv, Active, InVm, Aspawn, Goto
<1>4. ArgsInv'
  <2> SUFFICES ASSUME NEW d \in Call,
                      (InVm(d) \/ pc[d] \in {"load", "clone3", "store", "clone"})'
               PROVE  (mem[stk[d]] = [call |-> d, rd |-> rd[d], wr |-> wr[d],
                                      oldset |-> oldset[d]])'
    BY DEF ArgsInv
  <2>1. d # c
    BY DEF Aspawn, Goto, InVm, TypeOK, FrameInv
  <2> QED BY <2>1 DEF Aspawn, Goto, InVm, TypeOK, ArgsInv
<1>5. FdInv'
  <2>1. pc[c] = "idle" /\ cpc[c] = "none"
    BY DEF Aspawn, FrameInv
  <2>2. /\ pc'[c] = "blockall" /\ caller'[c] = t
        /\ \A e \in Call \ {c} : pc'[e] = pc[e] /\ caller'[e] = caller[e]
        /\ UNCHANGED <<rd, wr, fdt, cpc, kin>>
    BY DEF Aspawn, Goto, TypeOK
  <2>3. \A e \in Call : EndsInCaller(e)'
    <3>1. EndsInCaller(c)'
      BY <2>2 DEF EndsInCaller, HasPipe
    <3>2. ASSUME NEW e \in Call \ {c} PROVE EndsInCaller(e)'
      BY <2>2, EndsInCallerKept DEF HasPipe, CallerUp
    <3> QED BY <3>1, <3>2
  <2>4. \A e \in Call : EndsInChild(e)'
    BY <2>2, EndsInChildKept DEF Holding
  <2>5. \A e \in Call : KinOf(e)'
    BY <2>2 DEF FdInv, KinOf
  <2> QED BY <2>2, <2>3, <2>4, <2>5 DEF FdInv
<1>6. ChildCloseSucceeds'
  BY DEF ChildCloseSucceeds, Aspawn
<1>7. SignalInv'
  BY DEF TypeOK, SignalInv, HasPipe, Aspawn, Goto
<1> QED BY <1>1, <1>2, <1>3, <1>4, <1>5, <1>6, <1>7

LEMMA AspawnRecStep ==
  ASSUME IInv, NEW p \in Call, NEW c \in Call, NEW s \in Stack,
         AspawnRec(p, c, s)
  PROVE  IInv'
<1> USE ConstantsAssumption DEF IInv, StackInv
<1>1. TypeOK'
  <2>1. InVm(p)
    BY DEF AspawnRec, InVm
  <2>2. mem[stk[p]] = [call |-> p, rd |-> rd[p], wr |-> wr[p],
                       oldset |-> oldset[p]]
    BY <2>1 DEF ArgsInv
  <2>3. mem[stk[p]].oldset \in SUBSET Sig
    BY <2>2 DEF TypeOK
  <2> QED BY <2>3 DEF AspawnRec, Goto, TypeOK, FrameState, Caller
<1>2. FrameInv'
  BY DEF TypeOK, FrameInv, HasPipe, Active, Caller, InCall, AspawnRec, Goto
<1>3. LeaseInv'
  BY DEF TypeOK, FrameInv, LeaseInv, Active, InVm, AspawnRec, Goto
<1>4. ArgsInv'
  <2> SUFFICES ASSUME NEW d \in Call,
                      (InVm(d) \/ pc[d] \in {"load", "clone3", "store", "clone"})'
               PROVE  (mem[stk[d]] = [call |-> d, rd |-> rd[d], wr |-> wr[d],
                                      oldset |-> oldset[d]])'
    BY DEF ArgsInv
  <2>1. d # c
    BY DEF AspawnRec, Goto, InVm, TypeOK, FrameInv
  <2> QED BY <2>1 DEF AspawnRec, Goto, InVm, TypeOK, ArgsInv
<1>5. FdInv'
  <2>1. pc[c] = "idle" /\ cpc[c] = "none"
    BY DEF AspawnRec, FrameInv
  <2>2. /\ pc'[c] = "pipe" /\ caller'[c] = p
        /\ \A e \in Call \ {c} : pc'[e] = pc[e] /\ caller'[e] = caller[e]
        /\ UNCHANGED <<rd, wr, fdt, cpc, kin>>
    BY DEF AspawnRec, Goto, TypeOK
  <2>3. \A e \in Call : EndsInCaller(e)'
    <3>1. EndsInCaller(c)'
      BY <2>2 DEF EndsInCaller, HasPipe
    <3>2. ASSUME NEW e \in Call \ {c} PROVE EndsInCaller(e)'
      BY <2>2, EndsInCallerKept DEF HasPipe, CallerUp
    <3> QED BY <3>1, <3>2
  <2>4. \A e \in Call : EndsInChild(e)'
    BY <2>2, EndsInChildKept DEF Holding
  <2>5. \A e \in Call : KinOf(e)'
    BY <2>1, <2>2 DEF FdInv, KinOf
  <2> QED BY <2>2, <2>3, <2>4, <2>5 DEF FdInv
<1>6. ChildCloseSucceeds'
  BY DEF ChildCloseSucceeds, AspawnRec
<1>7. SignalInv'
  BY DEF TypeOK, SignalInv, HasPipe, AspawnRec, Goto
<1> QED BY <1>1, <1>2, <1>3, <1>4, <1>5, <1>6, <1>7

LEMMA SigBlockAllStep ==
  ASSUME IInv, NEW c \in Call, SigBlockAll(c)
  PROVE  IInv'
<1> USE ConstantsAssumption DEF IInv, StackInv
<1>a. /\ caller[c] \in Thread /\ caller[c] \in Caller /\ pc[c] = "blockall"
      /\ cpc[c] = "none" /\ ~InVm(c) /\ Active(c)
  BY DEF SigBlockAll, At, FrameInv, Caller, InVm, Active
<1>b. mask[caller[c]] \in SUBSET Sig /\ mask[caller[c]] \cup Sig = Sig
  BY <1>a DEF TypeOK
<1>c. /\ pc'[c] \in {"pipe", "uncancel"}
      /\ \A d \in Call \ {c} : pc'[d] = pc[d] /\ oldset'[d] = oldset[d]
  BY DEF SigBlockAll, Goto, TypeOK
<1>d. UNCHANGED <<caller, stk, rd, wr, oldstate, flag, mem, host, fdt, disp,
                  cancel, dead, cpc, sigi, lease, kin>>
  BY DEF SigBlockAll
<1>1. TypeOK'
  <2>1. mask' \in [Caller -> SUBSET Sig]
    <3>1. mask \in [Caller -> SUBSET Sig]
      BY DEF TypeOK
    <3>2. mask' = [mask EXCEPT ![caller[c]] = Sig] \/ mask' = mask
      BY <1>b DEF SigBlockAll
    <3> QED BY <3>1, <3>2
  <2>2. oldset' \in [Call -> SUBSET Sig]
    BY <1>b DEF SigBlockAll, TypeOK
  <2>3. pc' \in [Call -> FrameState]
    <3>1. pc \in [Call -> FrameState]
      BY DEF TypeOK
    <3>2. \E l \in {"pipe", "uncancel"} : pc' = [pc EXCEPT ![c] = l]
      BY DEF SigBlockAll, Goto
    <3> QED BY <3>1, <3>2 DEF FrameState
  <2>4. result' \in [Call -> {"none", "ok", "err"}]
    <3>1. result \in [Call -> {"none", "ok", "err"}]
      BY DEF TypeOK
    <3>2. result' = result \/ result' = [result EXCEPT ![c] = "err"]
      BY DEF SigBlockAll
    <3> QED BY <3>1, <3>2
  <2> QED BY <1>d, <2>1, <2>2, <2>3, <2>4 DEF TypeOK
<1>2. FrameInv'
  <2>1. \A d \in Call : result'[d] = "ok" <=> result[d] = "ok"
    BY <1>a DEF SigBlockAll, TypeOK, FrameInv
  <2> QED BY <1>a, <1>c, <1>d, <2>1 DEF FrameInv, HasPipe, Active
<1>3. LeaseInv'
  BY <1>a, <1>c, <1>d DEF LeaseInv, Active, InVm
<1>4. ArgsInv'
  BY <1>a, <1>c, <1>d, ArgsInvKept DEF InVm
<1>5. FdInv'
  BY <1>a, <1>c, <1>d, FdInvKept DEF HasPipe, Holding
<1>6. ChildCloseSucceeds'
  BY <1>d DEF ChildCloseSucceeds
<1>7. SignalInv'
  <2>1. pc'[c] = "pipe" => mask'[caller[c]] = Sig
    <3>1. \/ mask' = [mask EXCEPT ![caller[c]] = Sig]
          \/ pc' = [pc EXCEPT ![c] = "uncancel"]
      BY <1>b DEF SigBlockAll, Goto
    <3>2. mask \in [Caller -> SUBSET Sig] /\ pc \in [Call -> FrameState]
      BY DEF TypeOK
    <3> QED BY <1>a, <3>1, <3>2
  <2>2. \A d \in Call : mask'[d] = mask[d]
    BY <1>a DEF SigBlockAll, TypeOK, Caller
  <2>3. \A t \in Thread : t # caller[c] => mask'[t] = mask[t]
    BY DEF SigBlockAll, TypeOK, Caller
  <2>4. \A d \in Call \ {c} : Active(d) => caller[d] # caller[c]
    BY <1>a DEF FrameInv
  <2> QED BY <1>a, <1>c, <1>d, <2>1, <2>2, <2>3, <2>4
          DEF SignalInv, HasPipe, Active
<1> QED BY <1>1, <1>2, <1>3, <1>4, <1>5, <1>6, <1>7

LEMMA CreatePipeStep ==
  ASSUME IInv, NEW c \in Call, CreatePipe(c)
  PROVE  IInv'
<1> USE ConstantsAssumption DEF IInv, StackInv
<1> DEFINE p == ProcOf(caller[c])
<1>a. /\ caller[c] \in Caller /\ p \in Proc /\ pc[c] = "pipe" /\ cpc[c] = "none"
      /\ ~InVm(c) /\ Active(c) /\ result[c] # "ok" /\ CallerUp(c)
  BY DEF CreatePipe, At, FrameInv, Caller, Proc, ProcOf, InVm, Active, Alive, CallerUp
<1>b. UNCHANGED <<caller, stk, oldset, oldstate, flag, mem, host, mask, disp,
                 cancel, dead, cpc, sigi, lease, kin>>
  BY DEF CreatePipe
<1>c. AfterImpl(c) \in {"setmask", "returned"} /\ (AfterImpl(c) = "setmask" => caller[c] \in Thread)
  BY DEF AfterImpl
<1>1. CASE \E r, w \in Fd :
             /\ r < w /\ fdt[p][r] = None /\ fdt[p][w] = None
             /\ \A f \in Fd : fdt[p][f] = None => f = r \/ f >= w
             /\ fdt' = [fdt EXCEPT ![p] = [@ EXCEPT ![r] = <<c, "r">>,
                                                    ![w] = <<c, "w">>]]
             /\ rd' = [rd EXCEPT ![c] = r]
             /\ wr' = [wr EXCEPT ![c] = w]
             /\ Goto(c, "args")
             /\ UNCHANGED result
  <2>1. PICK r \in Fd, w \in Fd :
             /\ r < w /\ fdt[p][r] = None /\ fdt[p][w] = None
             /\ fdt' = [fdt EXCEPT ![p] = [@ EXCEPT ![r] = <<c, "r">>,
                                                    ![w] = <<c, "w">>]]
             /\ rd' = [rd EXCEPT ![c] = r]
             /\ wr' = [wr EXCEPT ![c] = w]
             /\ pc' = [pc EXCEPT ![c] = "args"]
             /\ result' = result
    BY <1>1 DEF Goto
  <2> HIDE DEF p
  <2>2. r # w BY <2>1
  <2>3. /\ rd'[c] = r /\ wr'[c] = w /\ pc'[c] = "args"
        /\ \A e \in Call \ {c} : rd'[e] = rd[e] /\ wr'[e] = wr[e] /\ pc'[e] = pc[e]
    BY <2>1 DEF TypeOK
  <2>4. /\ fdt'[p][r] = <<c, "r">> /\ fdt'[p][w] = <<c, "w">>
        /\ \A f \in Fd \ {r, w} : fdt'[p][f] = fdt[p][f]
        /\ \A q \in Proc \ {p} : fdt'[q] = fdt[q]
    BY <1>a, <2>1, <2>2 DEF TypeOK
  <2>12. \A q \in Proc, f \in Fd, e \in Call :
          /\ fdt[q][f] = <<e, "w">> => fdt'[q][f] = <<e, "w">>
          /\ fdt[q][f] = <<e, "r">> => fdt'[q][f] = <<e, "r">>
    <3>1. \A e \in Call : <<e, "w">> # None /\ <<e, "r">> # None
      BY DEF End
    <3> QED BY <2>1, <2>4, <3>1
  <2>5. TypeOK'
    <3>1. fdt' \in [Proc -> [Fd -> End \cup {None}]]
      <4>1. fdt[p] \in [Fd -> End \cup {None}] BY <1>a DEF TypeOK
      <4>2. <<c, "r">> \in End /\ <<c, "w">> \in End BY DEF End
      <4>3. [fdt[p] EXCEPT ![r] = <<c, "r">>, ![w] = <<c, "w">>] \in [Fd -> End \cup {None}]
        BY <4>1, <4>2
      <4>4. fdt \in [Proc -> [Fd -> End \cup {None}]] BY DEF TypeOK
      <4>5. fdt' = [fdt EXCEPT ![p] = [fdt[p] EXCEPT ![r] = <<c, "r">>, ![w] = <<c, "w">>]]
        BY <2>1, <1>a, <4>4
      <4> QED BY <4>3, <4>4, <4>5
    <3> QED BY <1>b, <2>1, <3>1 DEF TypeOK, FrameState
  <2>6. FrameInv'
    BY <1>a, <1>b, <2>1, <2>2, <2>3 DEF FrameInv, HasPipe, Active
  <2>7. LeaseInv'
    BY <1>a, <1>b, <2>3 DEF LeaseInv, InVm, Active
  <2>8. ArgsInv'
    BY <1>a, <1>b, <2>3 DEF ArgsInv, InVm
  <2>9. FdInv'
    <3>1. EndsInCaller(c)'
      BY <1>b, <2>3, <2>4 DEF EndsInCaller, p
    <3>2. \A e \in Call \ {c} : EndsInCaller(e)'
      <4> SUFFICES ASSUME NEW e \in Call \ {c} PROVE EndsInCaller(e)'
        OBVIOUS
      <4>1. HasPipe(e) => ProcOf(caller[e]) \in Proc
        BY DEF FrameInv, HasPipe, ProcOf, Caller, Proc
      <4>2. (HasPipe(e) /\ CallerUp(e))' => HasPipe(e) /\ CallerUp(e)
        BY <1>b, <2>3 DEF HasPipe, CallerUp
      <4>3. caller'[e] = caller[e] /\ rd'[e] = rd[e] /\ wr'[e] = wr[e] /\ pc'[e] = pc[e]
        BY <1>b, <2>3
      <4>4. HasPipe(e) => \A f \in Fd :
                LET q == ProcOf(caller[e])
                IN /\ fdt[q][f] = <<e, "w">> => fdt'[q][f] = <<e, "w">>
                   /\ fdt[q][f] = <<e, "r">> => fdt'[q][f] = <<e, "r">>
        BY <2>12, <4>1
      <4> QED BY <4>2, <4>3, <4>4, EndsInCallerKept
    <3>3. \A e \in Call : EndsInChild(e)'
      <4> SUFFICES ASSUME NEW e \in Call PROVE EndsInChild(e)'
        OBVIOUS
      <4>1. \A d \in Call : cpc[d] # "none" => rd'[d] = rd[d] /\ wr'[d] = wr[d]
        BY <1>a, <2>3
      <4>2. e \in Proc /\ (Holding(e)' => Holding(e))
        BY <1>b DEF Proc, Holding
      <4>3. kin'[e] = kin[e] /\ cpc'[e] = cpc[e]
        BY <1>b
      <4>4. \A d \in Call, f \in Fd :
              /\ fdt[e][f] = <<d, "w">> => fdt'[e][f] = <<d, "w">>
              /\ fdt[e][f] = <<d, "r">> => fdt'[e][f] = <<d, "r">>
        BY <2>12, <4>2
      <4> QED BY <4>1, <4>2, <4>3, <4>4, EndsInChildKept
    <3>4. \A e \in Call : KinOf(e)'
      BY <1>a, <1>b, <2>3 DEF FdInv, KinOf
    <3> QED BY <1>b, <3>1, <3>2, <3>3, <3>4 DEF FdInv
  <2>10. ChildCloseSucceeds'
    BY <1>b DEF ChildCloseSucceeds
  <2>11. SignalInv'
    BY <1>a, <1>b, <2>3 DEF SignalInv, HasPipe
  <2> QED BY <2>5, <2>6, <2>7, <2>8, <2>9, <2>10, <2>11
<1>2. CASE /\ result' = [result EXCEPT ![c] = "err"]
           /\ Goto(c, AfterImpl(c))
           /\ UNCHANGED <<fdt, rd, wr>>
  <2>1. /\ pc'[c] = AfterImpl(c)
        /\ \A e \in Call \ {c} : pc'[e] = pc[e]
        /\ \A e \in Call : result'[e] = "ok" <=> result[e] = "ok"
    BY <1>2, <1>a DEF TypeOK, Goto
  <2>2. TypeOK'
    BY <1>2, <1>b, <1>c DEF TypeOK, Goto, FrameState
  <2>3. FrameInv'
    BY <1>2, <1>a, <1>b, <1>c, <2>1 DEF FrameInv, HasPipe, Active
  <2>4. LeaseInv' /\ ArgsInv' /\ ChildCloseSucceeds'
    BY <1>2, <1>a, <1>b, <1>c, <2>1 DEF LeaseInv, ArgsInv, ChildCloseSucceeds, InVm, Active
  <2>5. FdInv'
    <3>1. \A e \in Call : EndsInCaller(e)'
      <4> SUFFICES ASSUME NEW e \in Call PROVE EndsInCaller(e)'
        OBVIOUS
      <4>1. (HasPipe(e) /\ CallerUp(e))' =>
              HasPipe(e) /\ CallerUp(e) /\ pc'[e] = pc[e]
        BY <1>b, <1>c, <2>1 DEF HasPipe, CallerUp
      <4> QED BY <1>2, <1>b, <4>1, EndsInCallerKept
    <3>2. \A e \in Call : EndsInChild(e)'
      BY <1>2, <1>b DEF FdInv, EndsInChild, Holding
    <3>3. \A e \in Call : KinOf(e)'
      BY <1>a, <1>b, <2>1 DEF FdInv, KinOf
    <3> QED BY <1>b, <3>1, <3>2, <3>3 DEF FdInv
  <2>6. SignalInv'
    BY <1>a, <1>b, <1>c, <2>1 DEF SignalInv, HasPipe
  <2> QED BY <2>2, <2>3, <2>4, <2>5, <2>6
<1> QED BY <1>1, <1>2 DEF CreatePipe

(* Nobody else has its arguments on the stack of c.                        *)
LEMMA WriteArgsStep ==
  ASSUME IInv, NEW c \in Call, WriteArgs(c)
  PROVE  IInv'
<1> USE ConstantsAssumption DEF IInv, StackInv
<1>a. /\ pc[c] = "args" /\ stk[c] \in Stack /\ rd[c] \in Fd /\ wr[c] \in Fd
      /\ Active(c) /\ cpc[c] = "none"
  BY DEF WriteArgs, At, FrameInv, HasPipe, Active
<1>b. /\ pc'[c] \in {"load", "clone"}
      /\ \A e \in Call \ {c} : pc'[e] = pc[e]
      /\ UNCHANGED <<caller, stk, rd, wr, result, oldset, oldstate, flag, host,
                     fdt, mask, disp, cancel, dead, cpc, sigi, lease, kin>>
  BY DEF WriteArgs, Goto, TypeOK
<1>1. TypeOK'
  <2>1. [call |-> c, rd |-> rd[c], wr |-> wr[c], oldset |-> oldset[c]] \in Args
    BY <1>a DEF TypeOK, Args
  <2>2. mem' \in [Stack -> Args \cup {None}]
    BY <2>1 DEF WriteArgs, TypeOK
  <2>3. pc' \in [Call -> FrameState]
    BY DEF WriteArgs, Goto, TypeOK, FrameState
  <2> QED BY <1>b, <2>2, <2>3 DEF TypeOK
<1>2. FrameInv'
  BY <1>a, <1>b DEF FrameInv, HasPipe, Active
<1>3. LeaseInv'
  BY <1>a, <1>b DEF LeaseInv, Active, InVm
<1>4. ArgsInv'
  <2> SUFFICES ASSUME NEW d \in Call,
                      (InVm(d) \/ pc[d] \in {"load", "clone3", "store", "clone"})'
               PROVE  mem'[stk[d]] = [call |-> d, rd |-> rd[d], wr |-> wr[d],
                                      oldset |-> oldset[d]]
    BY <1>b DEF ArgsInv
  <2>1. CASE d = c
    BY <2>1, <1>a DEF WriteArgs, TypeOK
  <2>2. CASE d # c
    <3>1. InVm(d) \/ pc[d] \in {"load", "clone3", "store", "clone"}
      BY <2>2, <1>b DEF InVm
    <3>2. lease[stk[d]] = d /\ lease[stk[c]] = c
      BY <1>a, <3>1 DEF LeaseInv, Active
    <3>3. mem'[stk[d]] = mem[stk[d]]
      <4>1. stk[d] # stk[c] BY <2>2, <3>2
      <4>2. stk[d] \in Stack BY <3>1 DEF FrameInv, InVm
      <4> QED BY <4>1, <4>2 DEF WriteArgs, TypeOK
    <3> QED BY <3>1, <3>3 DEF ArgsInv
  <2> QED BY <2>1, <2>2
<1>5. FdInv'
  BY <1>a, <1>b, FdInvKept DEF HasPipe, Holding
<1>6. ChildCloseSucceeds'
  BY <1>b DEF ChildCloseSucceeds
<1>7. SignalInv'
  BY <1>a, <1>b DEF SignalInv, HasPipe
<1> QED BY <1>1, <1>2, <1>3, <1>4, <1>5, <1>6, <1>7

(* The switch on the flag, its store, and the fall through from a clone3   *)
(* the kernel does not know only move pc.                                  *)
LEMMA SwitchStep ==
  ASSUME IInv, NEW c \in Call, pc[c] \in {"load", "clone3", "store"},
         NEW l \in {"clone3", "store", "clone"}, Goto(c, l),
         flag' \in BOOLEAN,
         UNCHANGED <<caller, stk, rd, wr, result, oldset, oldstate, mem, host,
                     fdt, mask, disp, cancel, dead, cpc, sigi, lease, kin>>
  PROVE  IInv'
<1> USE DEF IInv, StackInv
<1>a. pc'[c] = l /\ \A e \in Call \ {c} : pc'[e] = pc[e]
  BY DEF Goto, TypeOK
<1>1. TypeOK'
  BY DEF TypeOK, Goto, FrameState
<1>2. FrameInv'
  BY <1>a DEF FrameInv, HasPipe, Active
<1>3. LeaseInv'
  BY <1>a DEF LeaseInv, Active, InVm
<1>4. ArgsInv'
  BY <1>a, ArgsInvKept DEF InVm
<1>5. FdInv'
  BY <1>a, FdInvKept DEF HasPipe, Holding
<1>6. ChildCloseSucceeds'
  BY DEF ChildCloseSucceeds
<1>7. SignalInv'
  BY <1>a DEF SignalInv, HasPipe
<1> QED BY <1>1, <1>2, <1>3, <1>4, <1>5, <1>6, <1>7

(* What NewChild and CloneFails leave alone in Clone3 and Clone.           *)
Rest == <<caller, stk, rd, wr, oldset, oldstate, flag, mem, host, cancel, dead,
          sigi, lease>>

(* A child is made: it starts with its caller's descriptors, so it has the *)
(* write ends its caller has, and its own.                                 *)
LEMMA NewChildStep ==
  ASSUME IInv, NEW c \in Call, pc[c] \in {"clone3", "clone"}, Alive(caller[c]),
         NEW l \in {"clear", "close"},
         NEW d \in [Sig -> {"dfl", "ign", "handler"}],
         \A s \in Sig : d[s] = "handler" =>
                            disp[ProcOf(caller[c])][s] = "handler",
         l = "close" => \A s \in Sig : d[s] # "handler",
         NewChild(c, l, d), UNCHANGED Rest
  PROVE  IInv'
<1> USE ConstantsAssumption DEF IInv, StackInv
<1> DEFINE p == ProcOf(caller[c])
<1>a. /\ caller[c] \in Caller /\ p \in Proc /\ c \in Proc /\ c \in Caller
      /\ cpc[c] = "none" /\ HasPipe(c) /\ CallerUp(c) /\ Active(c)
      /\ p # c /\ caller[c] # c
  BY DEF FrameInv, Caller, Proc, ProcOf, HasPipe, CallerUp, Alive, Active
<1>b. /\ pc' = [pc EXCEPT ![c] = "closewr"]
      /\ cpc' = [cpc EXCEPT ![c] = l]
      /\ fdt' = [fdt EXCEPT ![c] = fdt[p]]
      /\ mask' = [mask EXCEPT ![c] = mask[caller[c]]]
      /\ disp' = [disp EXCEPT ![c] = d]
      /\ kin' = [kin EXCEPT ![c] = kin[p] \cup {c}]
      /\ result' = [result EXCEPT ![c] = "ok"]
  BY DEF NewChild, Goto
<1> HIDE DEF p
<1>1. TypeOK'
  <2>1. fdt' \in [Proc -> [Fd -> End \cup {None}]]
    BY <1>a, <1>b DEF TypeOK
  <2>2. mask' \in [Caller -> SUBSET Sig]
    BY <1>a, <1>b DEF TypeOK
  <2>3. disp' \in [Proc -> [Sig -> {"dfl", "ign", "handler"}]]
    BY <1>a, <1>b DEF TypeOK
  <2>4. kin' \in [Proc -> SUBSET Call]
    <3>1. kin \in [Proc -> SUBSET Call] BY DEF TypeOK
    <3>2. kin[p] \cup {c} \in SUBSET Call BY <3>1, <1>a
    <3> QED BY <1>a, <1>b, <3>1, <3>2
  <2>5. cpc' \in [Call -> ChildState] /\ pc' \in [Call -> FrameState]
    BY <1>b DEF TypeOK, ChildState, FrameState
  <2> QED BY <1>b, <2>1, <2>2, <2>3, <2>4, <2>5 DEF TypeOK, Rest
<1>c. /\ pc'[c] = "closewr" /\ cpc'[c] = l /\ result'[c] = "ok"
      /\ fdt'[c] = fdt[p] /\ mask'[c] = mask[caller[c]] /\ disp'[c] = d 
      /\ kin'[c] = kin[p] \cup {c}
      /\ \A e \in Call \ {c} : /\ pc'[e] = pc[e] /\ cpc'[e] = cpc[e]
                               /\ result'[e] = result[e]
      /\ \A e \in Proc \ {c} : /\ fdt'[e] = fdt[e] /\ disp'[e] = disp[e]
                               /\ kin'[e] = kin[e]
      /\ \A e \in Caller \ {c} : mask'[e] = mask[e]
  BY <1>a, <1>b DEF TypeOK, Proc
<1>2. FrameInv'
  BY <1>a, <1>c DEF Rest, FrameInv, HasPipe, Active
<1>3. LeaseInv'
  BY <1>a, <1>c DEF Rest, LeaseInv, Active, InVm
<1>4. ArgsInv'
  BY <1>a, <1>c DEF Rest, ArgsInv, InVm
<1>5. FdInv'
  <2>1. kin'[Root] = {}
    BY <1>a, <1>c DEF FdInv, Proc
  <2>k. \A e \in kin[p] : e \in Call /\ fdt[p][wr[e]] = <<e, "w">> /\ cpc[e] # "none"
    <3>1. CASE caller[c] \in Thread
      BY <3>1 DEF FdInv, ProcOf, p
    <3>2. CASE caller[c] \notin Thread
      <4>1. p \in Call /\ cpc[p] = "fn"
        BY <3>2, <1>a DEF Caller, ProcOf, Alive, p
      <4>2. EndsInChild(p) /\ KinOf(p)
        BY <4>1 DEF FdInv
      <4>3. kin[p] \subseteq Call
        BY <1>a DEF TypeOK
      <4> QED BY <4>1, <4>2, <4>3 DEF EndsInChild, KinOf, Holding
    <3> QED BY <3>1, <3>2
  <2>2. (EndsInCaller(c) /\ EndsInChild(c) /\ KinOf(c))'
    <3>0. /\ fdt[p][wr[c]] = <<c, "w">> /\ fdt[p][rd[c]] = <<c, "r">>
          /\ fdt'[p] = fdt[p] /\ ProcOf(caller'[c]) = p
          /\ rd'[c] = rd[c] /\ wr' = wr
      BY <1>a, <1>c DEF FdInv, EndsInCaller, p, Rest
    <3>1. EndsInCaller(c)'
      BY <3>0, <1>c DEF EndsInCaller
    <3>2. EndsInChild(c)'
      <4>1. \A e \in kin[p] \cup {c} : fdt[p][wr[e]] = <<e, "w">>
        BY <3>0, <2>k
      <4>2. fdt'[c] = fdt[p] /\ kin'[c] = kin[p] \cup {c}
        BY <1>c
      <4> QED BY <3>0, <4>1, <4>2 DEF EndsInChild
    <3>3. KinOf(c)'
      BY <1>a, <1>c, <2>k DEF FdInv, KinOf, Rest, Proc
    <3> QED BY <3>1, <3>2, <3>3
  <2>3. ASSUME NEW e \in Call, e # c
        PROVE  (EndsInCaller(e) /\ EndsInChild(e) /\ KinOf(e))'
    <3>1. pc[e] # "idle" => ProcOf(caller[e]) # c /\ caller[e] # c
      BY <1>a DEF FrameInv, ProcOf, Caller
    <3>2. pc[e] # "idle" => ProcOf(caller[e]) \in Proc /\ caller[e] \in Caller
      BY DEF FrameInv, ProcOf, Caller, Proc
    <3>3. kin[e] \subseteq Call BY DEF TypeOK, Proc
    <3>4. EndsInCaller(e) /\ EndsInChild(e) /\ KinOf(e) BY DEF FdInv
    <3>5. EndsInCaller(e)'
      BY <2>3, <1>a, <1>c, <3>1, <3>2, <3>4 DEF EndsInCaller, HasPipe, CallerUp, Rest, Caller
    <3>8. fdt'[e] = fdt[e] /\ kin'[e] = kin[e] /\ cpc'[e] = cpc[e] /\ wr' = wr /\ rd' = rd
      BY <2>3, <1>c DEF Rest, Proc
    <3>6. EndsInChild(e)'
      BY <3>4, <3>8 DEF EndsInChild, Holding
    <3>7. KinOf(e)'
      BY <2>3, <1>a, <1>c, <3>1, <3>3, <3>4 DEF KinOf, Rest, Proc
    <3> QED BY <3>5, <3>6, <3>7
  <2> QED BY <2>1, <2>2, <2>3 DEF FdInv
<1>6. ChildCloseSucceeds'
  BY <1>c DEF ChildCloseSucceeds
<1>7. SignalInv'
  <2>1. caller[c] \in Thread => mask'[c] = Sig
    BY <1>a, <1>c DEF SignalInv
  <2>2. caller[c] \notin Thread => \A s \in Sig : d[s] # "handler"
    BY <1>a DEF SignalInv, Alive, ProcOf, Caller
  <2>3. sigi[c] = 1 BY <1>a DEF SignalInv
  <2>4. \A s \in Sig : s \in Int /\ s >= 1 BY DEF Sig
  <2>5. \A t \in Thread : mask'[t] = mask[t] BY <1>c DEF Caller
  <2> QED BY <1>a, <1>c, <2>1, <2>2, <2>3, <2>4, <2>5 DEF SignalInv, HasPipe, Rest, Proc, Caller
<1> QED BY <1>1, <1>2, <1>3, <1>4, <1>5, <1>6, <1>7

LEMMA CloneFailsStep ==
  ASSUME IInv, NEW c \in Call, pc[c] \in {"clone3", "clone"}, CloneFails(c),
         UNCHANGED Rest
  PROVE  IInv'
<1> USE ConstantsAssumption DEF IInv, StackInv
<1>a. pc' = [pc EXCEPT ![c] = "closerd"] /\ result' = [result EXCEPT ![c] = "err"]
  BY DEF CloneFails, Goto
<1>1. TypeOK'
  BY <1>a DEF TypeOK, FrameState, CloneFails, Rest
<1>2. FrameInv'
  <2>1. \A e \in Call : result'[e] = "ok" <=> result[e] = "ok"
    BY <1>a DEF TypeOK, FrameInv
  <2>2. pc'[c] = "closerd" /\ \A e \in Call \ {c} : pc'[e] = pc[e]
    BY <1>a DEF TypeOK
  <2> QED BY <2>1, <2>2 DEF FrameInv, HasPipe, Active, CloneFails, Rest
<1>3. LeaseInv' /\ ArgsInv'
  BY <1>a DEF TypeOK, LeaseInv, ArgsInv, Active, InVm, CloneFails, Rest
<1>5. FdInv'
  <2>1. pc'[c] = "closerd" /\ \A e \in Call \ {c} : pc'[e] = pc[e]
    BY <1>a DEF TypeOK
  <2>2. UNCHANGED <<caller, rd, wr, fdt, cpc, kin>>
    BY DEF CloneFails, Rest
  <2>3. ASSUME NEW e \in Call PROVE EndsInCaller(e)'
    <3>1. HasPipe(e)' => HasPipe(e) /\ (pc'[e] # "closewr" => pc[e] # "closewr")
      BY <2>1 DEF HasPipe
    <3>2. CallerUp(e)' => CallerUp(e)
      BY <2>2 DEF CallerUp
    <3> QED BY <2>2, <3>1, <3>2, EndsInCallerKept
  <2>4. \A e \in Call : EndsInChild(e)'
    BY <2>2 DEF FdInv, EndsInChild, Holding
  <2>5. \A e \in Call : KinOf(e)'
    BY <2>1, <2>2 DEF FdInv, KinOf
  <2> QED BY <2>2, <2>3, <2>4, <2>5 DEF FdInv
<1>6. ChildCloseSucceeds'
  BY DEF ChildCloseSucceeds, CloneFails
<1>7. SignalInv'
  BY <1>a DEF TypeOK, SignalInv, HasPipe, CloneFails, Rest
<1> QED BY <1>1, <1>2, <1>3, <1>5, <1>6, <1>7

LEMMA Clone3Step ==
  ASSUME IInv, NEW c \in Call, Clone3(c)
  PROVE  IInv'
<1> DEFINE d == disp[ProcOf(caller[c])]
<1>a. pc[c] = "clone3" /\ Alive(caller[c]) /\ ProcOf(caller[c]) \in Proc
  BY DEF Clone3, At, IInv, StackInv, FrameInv, ProcOf, Caller, Proc
<1>b. d \in [Sig -> {"dfl", "ign", "handler"}]
  BY <1>a DEF IInv, StackInv, TypeOK
<1>1. CASE NewChild(c, "close", ClearSighand(d))
  <2>1. /\ ClearSighand(d) \in [Sig -> {"dfl", "ign", "handler"}]
        /\ \A s \in Sig : ClearSighand(d)[s] # "handler"
    BY <1>b DEF ClearSighand
  <2> QED BY <1>1, <1>a, <2>1, NewChildStep DEF Clone3, Rest
<1>2. CASE Goto(c, "store") /\ UNCHANGED <<cpc, fdt, mask, disp, kin, result>>
  <2>1. flag' \in BOOLEAN
    BY DEF Clone3, IInv, StackInv, TypeOK
  <2> QED BY <1>2, <1>a, <2>1, SwitchStep DEF Clone3
<1>3. CASE CloneFails(c)
  BY <1>3, <1>a, CloneFailsStep DEF Clone3, Rest
<1> QED BY <1>1, <1>2, <1>3 DEF Clone3

LEMMA CloneStep ==
  ASSUME IInv, NEW c \in Call, Clone(c)
  PROVE  IInv'
<1> DEFINE d == disp[ProcOf(caller[c])]
<1>a. pc[c] = "clone" /\ Alive(caller[c]) /\ ProcOf(caller[c]) \in Proc
  BY DEF Clone, At, IInv, StackInv, FrameInv, ProcOf, Caller, Proc
<1>b. d \in [Sig -> {"dfl", "ign", "handler"}]
  BY <1>a DEF IInv, StackInv, TypeOK
<1>1. CASE NewChild(c, "clear", d)
  BY <1>1, <1>a, <1>b, NewChildStep DEF Clone, Rest
<1>2. CASE CloneFails(c)
  BY <1>2, <1>a, CloneFailsStep DEF Clone, Rest
<1> QED BY <1>1, <1>2 DEF Clone

(* A close takes one number out of one table; every other end the          *)
(* invariant speaks of is another entry.                                   *)
LEMMA CloseReadStep ==
  ASSUME IInv, NEW c \in Call, CloseRead(c)
  PROVE  IInv'
<1> USE ConstantsAssumption DEF IInv, StackInv
<1> DEFINE p == ProcOf(caller[c])
<1>a. /\ pc[c] = "closerd" /\ caller[c] \in Caller /\ p \in Proc
      /\ rd[c] \in Fd /\ fdt[p][rd[c]] = <<c, "r">> /\ Active(c)
  BY DEF CloseRead, At, Alive, FrameInv, FdInv, EndsInCaller, HasPipe, CallerUp,
         Caller, Proc, ProcOf, Active
<1> HIDE DEF p
<1>b. /\ pc'[c] = "closewr"
      /\ \A e \in Call \ {c} : pc'[e] = pc[e]
      /\ \A q \in Proc, f \in Fd : fdt[q][f] # <<c, "r">> => fdt'[q][f] = fdt[q][f]
      /\ UNCHANGED <<caller, stk, rd, wr, result, oldset, oldstate, flag, mem,
                     host, mask, disp, cancel, dead, cpc, sigi, lease, kin>>
  BY <1>a DEF CloseRead, Goto, TypeOK, p
<1>1. TypeOK'
  BY <1>a DEF CloseRead, Goto, TypeOK, FrameState, p
<1>2. FrameInv'
  BY <1>a, <1>b DEF FrameInv, HasPipe, Active
<1>3. LeaseInv'
  BY <1>a, <1>b DEF LeaseInv, Active, InVm
<1>4. ArgsInv'
  BY <1>b, ArgsInvKept DEF InVm
<1>5. FdInv'
  <2>1. ASSUME NEW e \in Call PROVE EndsInCaller(e)'
    <3>1. (HasPipe(e) /\ CallerUp(e))' =>
             /\ HasPipe(e) /\ CallerUp(e) /\ ProcOf(caller[e]) \in Proc
             /\ pc'[e] # "closewr" => pc[e] # "closewr" /\ e # c
      BY <1>a, <1>b DEF FrameInv, HasPipe, CallerUp, ProcOf, Caller, Proc
    <3>2. (HasPipe(e) /\ CallerUp(e))' =>
            \A f \in Fd :
              LET q == ProcOf(caller[e])
              IN /\ fdt[q][f] = <<e, "w">> => fdt'[q][f] = <<e, "w">>
                 /\ e # c /\ fdt[q][f] = <<e, "r">> => fdt'[q][f] = <<e, "r">>
      <4>1. <<e, "w">> # <<c, "r">> /\ (e # c => <<e, "r">> # <<c, "r">>)
        OBVIOUS
      <4>2. \A q \in Proc, f \in Fd :
              fdt[q][f] # <<c, "r">> => fdt'[q][f] = fdt[q][f]
        BY <1>b
      <4> QED BY ONLY <3>1, <4>1, <4>2
    <3>3. UNCHANGED <<caller, rd, wr>>
      BY <1>b
    <3> QED BY <3>1, <3>2, <3>3, EndsInCallerKept
  <2>2. ASSUME NEW e \in Call PROVE EndsInChild(e)'
    <3>1. cpc'[e] # "none" => e # c
      BY <1>a, <1>b DEF FrameInv
    <3>2. e \in Proc /\ (Holding(e)' => Holding(e))
      BY <1>b DEF Proc, Holding
    <3>3. \A d \in Call, f \in Fd :
            /\ fdt[e][f] = <<d, "w">> => fdt'[e][f] = <<d, "w">>
            /\ d # c /\ fdt[e][f] = <<d, "r">> => fdt'[e][f] = <<d, "r">>
      <4>1. \A f \in Fd : fdt[e][f] # <<c, "r">> => fdt'[e][f] = fdt[e][f]
        BY <1>b, <3>2
      <4>2. \A d \in Call : /\ <<d, "w">> # <<c, "r">>
                            /\ d # c => <<d, "r">> # <<c, "r">>
        OBVIOUS
      <4> QED BY ONLY <4>1, <4>2
    <3>4. kin'[e] = kin[e] /\ cpc'[e] = cpc[e] /\ rd' = rd /\ wr' = wr
      BY <1>b
    <3> QED BY <3>1, <3>2, <3>3, <3>4, EndsInChildKept
  <2>3. \A e \in Call : KinOf(e)'
    BY <1>a, <1>b DEF FdInv, KinOf
  <2> QED BY <1>b, <2>1, <2>2, <2>3 DEF FdInv
<1>6. ChildCloseSucceeds'
  BY <1>b DEF ChildCloseSucceeds
<1>7. SignalInv'
  BY <1>a, <1>b DEF SignalInv, HasPipe
<1> QED BY <1>1, <1>2, <1>3, <1>4, <1>5, <1>6, <1>7

LEMMA CloseWriteStep ==
  ASSUME IInv, NEW c \in Call, CloseWrite(c)
  PROVE  IInv'
<1> USE ConstantsAssumption DEF IInv, StackInv
<1> DEFINE p == ProcOf(caller[c])
<1>a. /\ pc[c] = "closewr" /\ caller[c] \in Caller /\ p \in Proc
      /\ wr[c] \in Fd /\ fdt[p][wr[c]] = <<c, "w">> /\ Active(c)
  BY DEF CloseWrite, At, Alive, FrameInv, FdInv, EndsInCaller, HasPipe, CallerUp,
         Caller, Proc, ProcOf, Active
<1>c. p \in Call => c \notin kin[p]
  BY <1>a DEF FdInv, KinOf, ProcOf, Caller
<1> HIDE DEF p
<1>b. /\ pc'[c] = AfterImpl(c)
      /\ \A e \in Call \ {c} : pc'[e] = pc[e]
      /\ \A q \in Proc, f \in Fd :
           q # p \/ fdt[q][f] # <<c, "w">> => fdt'[q][f] = fdt[q][f]
      /\ UNCHANGED <<caller, stk, rd, wr, result, oldset, oldstate, flag, mem,
                     host, mask, disp, cancel, dead, cpc, sigi, lease, kin>>
  BY <1>a DEF CloseWrite, Goto, TypeOK, p
<1>d. /\ AfterImpl(c) \in {"setmask", "returned"}
      /\ AfterImpl(c) = "setmask" => caller[c] \in Thread
  BY DEF AfterImpl
<1>1. TypeOK'
  BY <1>a, <1>d DEF CloseWrite, Goto, TypeOK, FrameState, p
<1>2. FrameInv'
  BY <1>a, <1>b, <1>d DEF FrameInv, HasPipe, Active
<1>3. LeaseInv'
  BY <1>a, <1>b, <1>d DEF LeaseInv, Active, InVm
<1>4. ArgsInv'
  BY <1>b, <1>d, ArgsInvKept DEF InVm
<1>5. FdInv'
  <2>1. ASSUME NEW e \in Call PROVE EndsInCaller(e)'
    <3>1. HasPipe(e)' => HasPipe(e) /\ e # c /\ pc'[e] = pc[e]
      BY <1>a, <1>b, <1>d DEF HasPipe
    <3>2. HasPipe(e) => ProcOf(caller[e]) \in Proc
      BY DEF FrameInv, HasPipe, ProcOf, Caller, Proc
    <3>3. CallerUp(e)' => CallerUp(e)
      BY <1>b DEF CallerUp
    <3>4. ASSUME HasPipe(e)', NEW f \in Fd, NEW x \in {"r", "w"},
                 fdt[ProcOf(caller[e])][f] = <<e, x>>
          PROVE  fdt'[ProcOf(caller[e])][f] = <<e, x>>
      <4>1. e # c /\ ProcOf(caller[e]) \in Proc
        BY <3>1, <3>2, <3>4
      <4>2. <<e, x>> # <<c, "w">>
        BY <4>1
      <4> QED BY <1>b, <3>4, <4>1, <4>2
    <3>5. UNCHANGED <<caller, rd, wr>>
      BY <1>b
    <3> QED BY <3>1, <3>3, <3>4, <3>5, EndsInCallerKept
  <2>2. ASSUME NEW e \in Call PROVE EndsInChild(e)'
    <3>1. EndsInChild(e) /\ KinOf(e) /\ e \in Proc /\ kin[e] \subseteq Call
      BY DEF FdInv, Proc, TypeOK
    <3>2. cpc[e] # "none" => rd[e] \in Fd
      BY DEF FrameInv
    <3>3. cpc'[e] \in {"clear", "close"} => fdt'[e][rd'[e]] = <<e, "r">>
      <4>1. <<e, "r">> # <<c, "w">> /\ UNCHANGED <<cpc, rd>>
        BY <1>b
      <4>2. \A f \in Fd : fdt[e][f] # <<c, "w">> => fdt'[e][f] = fdt[e][f]
        BY <1>b, <3>1
      <4>3. cpc[e] \in {"clear", "close"} => fdt[e][rd[e]] = <<e, "r">>
        BY <3>1 DEF EndsInChild
      <4> QED BY ONLY <3>2, <4>1, <4>2, <4>3
    <3>4. ASSUME Holding(e)', NEW d \in kin[e]
          PROVE  fdt'[e][wr'[d]] = <<d, "w">>
      <4>1. d \in Call /\ wr[d] \in Fd /\ fdt[e][wr[d]] = <<d, "w">>
        BY <1>b, <3>1, <3>4 DEF EndsInChild, KinOf, FrameInv, Holding
      <4>2. e # p \/ d # c
        BY <1>c, <3>4
      <4>3. e # p \/ fdt[e][wr[d]] # <<c, "w">>
        BY <4>1, <4>2
      <4>4. fdt'[e][wr[d]] = fdt[e][wr[d]]
        BY <1>b, <3>1, <4>1, <4>3
      <4> QED BY <1>b, <4>1, <4>4
    <3> QED BY <1>b, <3>3, <3>4 DEF EndsInChild
  <2>3. \A e \in Call : KinOf(e)'
    BY <1>a, <1>b DEF FdInv, KinOf
  <2> QED BY <1>b, <2>1, <2>2, <2>3 DEF FdInv
<1>6. ChildCloseSucceeds'
  BY <1>b DEF ChildCloseSucceeds
<1>7. SignalInv'
  BY <1>a, <1>b, <1>d DEF SignalInv, HasPipe
<1> QED BY <1>1, <1>2, <1>3, <1>4, <1>5, <1>6, <1>7

LEMMA SigSetMaskStep ==
  ASSUME IInv, NEW c \in Call, SigSetMask(c)
  PROVE  IInv'
<1> USE ConstantsAssumption DEF IInv, StackInv
<1>a. caller[c] \in Thread /\ caller[c] \in Caller /\ pc[c] = "setmask" /\ Active(c)
  BY DEF SigSetMask, At, FrameInv, Caller, Active
<1>b. /\ pc'[c] = "uncancel" /\ \A d \in Call \ {c} : pc'[d] = pc[d]
      /\ UNCHANGED <<caller, stk, rd, wr, result, oldset, oldstate, flag, mem,
                     host, fdt, disp, cancel, dead, cpc, sigi, lease, kin>>
  BY DEF SigSetMask, Goto, TypeOK
<1>1. TypeOK'
  BY <1>a DEF SigSetMask, Goto, TypeOK, FrameState
<1>2. FrameInv'
  BY <1>a, <1>b DEF FrameInv, HasPipe, Active
<1>3. LeaseInv'
  BY <1>a, <1>b DEF LeaseInv, Active, InVm
<1>4. ArgsInv'
  BY <1>b, ArgsInvKept DEF InVm
<1>5. FdInv'
  BY <1>a, <1>b, FdInvKept DEF HasPipe, Holding
<1>6. ChildCloseSucceeds'
  BY <1>b DEF ChildCloseSucceeds
<1>7. SignalInv'
  <2>1. \A d \in Call : mask'[d] = mask[d]
    BY <1>a DEF SigSetMask, TypeOK, Caller
  <2>2. \A t \in Thread : t # caller[c] => mask'[t] = mask[t]
    BY DEF SigSetMask, TypeOK, Caller
  <2>3. \A d \in Call \ {c} : Active(d) => caller[d] # caller[c]
    BY <1>a DEF FrameInv
  <2> QED BY <1>a, <1>b, <2>1, <2>2, <2>3 DEF SignalInv, HasPipe, Active
<1> QED BY <1>1, <1>2, <1>3, <1>4, <1>5, <1>6, <1>7

(* The last two statements of aspawn.                                      *)
LEMMA LeaveAspawnStep ==
  ASSUME IInv, NEW c \in Call, RestoreCancel(c) \/ Return(c)
  PROVE  IInv'
<1> USE ConstantsAssumption DEF IInv, StackInv
<1>a. pc[c] \in {"uncancel", "return"} /\ caller[c] \in Thread
  BY DEF RestoreCancel, Return, At, FrameInv
<1>b. /\ pc'[c] \in {"return", "returned"}
      /\ \A d \in Call \ {c} : pc'[d] = pc[d]
      /\ UNCHANGED <<caller, stk, rd, wr, result, oldset, oldstate, flag, mem,
                     host, fdt, mask, disp, dead, cpc, sigi, lease, kin>>
  BY DEF RestoreCancel, Return, Goto, TypeOK
<1>1. TypeOK'
  <2>1. pc' \in [Call -> FrameState]
    BY DEF RestoreCancel, Return, Goto, TypeOK, FrameState
  <2>2. cancel' \in [Thread -> {"enabled", "disabled"}]
    BY <1>a DEF RestoreCancel, Return, TypeOK
  <2> QED BY <1>b, <2>1, <2>2 DEF TypeOK
<1>2. FrameInv'
  BY <1>a, <1>b DEF FrameInv, HasPipe, Active
<1>3. LeaseInv'
  BY <1>a, <1>b DEF LeaseInv, Active, InVm
<1>4. ArgsInv'
  BY <1>b, ArgsInvKept DEF InVm
<1>5. FdInv'
  BY <1>a, <1>b, FdInvKept DEF HasPipe, Holding
<1>6. ChildCloseSucceeds'
  BY <1>b DEF ChildCloseSucceeds
<1>7. SignalInv'
  BY <1>a, <1>b DEF SignalInv, HasPipe
<1> QED BY <1>1, <1>2, <1>3, <1>4, <1>5, <1>6, <1>7
-----------------------------------------------------------------------------
(* The child's side.                                                       *)

LEMMA ClearHandlerStep ==
  ASSUME IInv, NEW c \in Call, ClearHandler(c)
  PROVE  IInv'
<1> USE ConstantsAssumption DEF IInv, StackInv
<1>a. /\ c \in Proc /\ sigi[c] \in 1 .. NSIG /\ sigi[c] \in Int
      /\ cpc[c] = "clear"
  BY DEF Proc, TypeOK, ClearHandler
<1>b. /\ cpc'[c] \in {"clear", "close"}
      /\ \A d \in Call \ {c} : cpc'[d] = cpc[d]
      /\ UNCHANGED <<pc, caller, stk, rd, wr, result, oldset, oldstate, flag,
                     mem, host, fdt, mask, cancel, dead, lease, kin>>
  BY DEF ClearHandler, frame, TypeOK
<1>1. TypeOK'
  <2>1. CASE sigi[c] < NSIG
    <3>1. sigi[c] \in Sig /\ sigi[c] + 1 \in 1 .. NSIG
      BY <1>a, <2>1 DEF Sig
    <3>2. disp' \in [Proc -> [Sig -> {"dfl", "ign", "handler"}]]
      <4>1. disp \in [Proc -> [Sig -> {"dfl", "ign", "handler"}]]
        BY DEF TypeOK
      <4>2. disp' = [disp EXCEPT ![c] = [disp[c] EXCEPT ![sigi[c]] = "dfl"]]
        BY <2>1, <4>1 DEF ClearHandler
      <4>3. [disp[c] EXCEPT ![sigi[c]] = "dfl"]
              \in [Sig -> {"dfl", "ign", "handler"}]
        BY <1>a, <4>1
      <4> QED BY <4>1, <4>2, <4>3
    <3>3. sigi' \in [Call -> 1 .. NSIG]
      <4>1. sigi \in [Call -> 1 .. NSIG]
        BY DEF TypeOK
      <4>2. sigi' = [sigi EXCEPT ![c] = sigi[c] + 1]
        BY <2>1, <4>1 DEF ClearHandler
      <4> QED BY <3>1, <4>1, <4>2
    <3> QED BY <1>a, <2>1, <3>2, <3>3 DEF ClearHandler, frame, TypeOK
  <2>2. CASE ~(sigi[c] < NSIG)
    <3>1. cpc' = [cpc EXCEPT ![c] = "close"] /\ UNCHANGED <<disp, sigi>>
      BY <2>2 DEF ClearHandler
    <3>2. cpc' \in [Call -> ChildState]
      BY <3>1 DEF TypeOK, ChildState
    <3> QED BY <1>b, <3>1, <3>2 DEF TypeOK
  <2> QED BY <2>1, <2>2
<1>2. FrameInv'
  BY <1>a, <1>b DEF FrameInv, HasPipe, Active
<1>3. LeaseInv'
  BY <1>a, <1>b DEF LeaseInv, Active, InVm
<1>4. ArgsInv'
  BY <1>a, <1>b, ArgsInvKept DEF InVm
<1>5. FdInv'
  BY <1>a, <1>b, FdInvKept DEF HasPipe, Holding
<1>6. ChildCloseSucceeds'
  BY <1>b DEF ChildCloseSucceeds
<1>7. SignalInv'
  <2>1. CASE sigi[c] < NSIG
    <3>1. sigi'[c] = sigi[c] + 1 /\ \A d \in Call \ {c} : sigi'[d] = sigi[d]
      BY <1>a, <2>1 DEF ClearHandler, TypeOK
    <3>2. /\ disp'[c][sigi[c]] = "dfl"
          /\ \A x \in Sig : x # sigi[c] => disp'[c][x] = disp[c][x]
          /\ \A d \in Call \ {c} : disp'[d] = disp[d]
      BY <1>a, <2>1 DEF ClearHandler, TypeOK, Sig, Proc
    <3>3. \A x \in Sig : x \in Int
      BY DEF Sig
    <3> QED BY <1>a, <2>1, <3>1, <3>2, <3>3
            DEF ClearHandler, frame, SignalInv, HasPipe
  <2>2. CASE ~(sigi[c] < NSIG)
    <3>1. \A x \in Sig : x \in Int /\ ~(x >= sigi[c])
      BY <1>a, <2>2 DEF Sig
    <3> QED BY <1>a, <2>2, <3>1
            DEF ClearHandler, frame, SignalInv, HasPipe, TypeOK
  <2> QED BY <2>1, <2>2
<1> QED BY <1>1, <1>2, <1>3, <1>4, <1>5, <1>6, <1>7

(* The arguments the child reads are its own and it still has its read end *)
(* open, so the close succeeds and fn is called.                           *)
LEMMA CloseReadInChildStep ==
  ASSUME IInv, NEW c \in Call, CloseReadInChild(c)
  PROVE  IInv'
<1> USE ConstantsAssumption DEF IInv, StackInv
<1>a. /\ cpc[c] = "close" /\ mem[stk[c]].rd = rd[c] /\ rd[c] \in Fd /\ c \in Proc
      /\ fdt[c][rd[c]] = <<c, "r">>
  <2>1. cpc[c] = "close" /\ InVm(c) BY DEF CloseReadInChild, InVm
  <2>2. mem[stk[c]] = [call |-> c, rd |-> rd[c], wr |-> wr[c], oldset |-> oldset[c]]
    BY <2>1 DEF ArgsInv
  <2> QED BY <2>1, <2>2 DEF FrameInv, FdInv, EndsInChild, Proc
<1>c. fdt[c][rd[c]] # None BY <1>a DEF End
<1>b. /\ fdt' = [fdt EXCEPT ![c][rd[c]] = None]
      /\ cpc' = [cpc EXCEPT ![c] = "fn"]
      /\ UNCHANGED <<pc, caller, stk, rd, wr, result, oldset, oldstate, flag, mem, 
           host, mask, disp, cancel, dead, sigi, lease, kin>>
  BY <1>a, <1>c DEF CloseReadInChild, frame
<1>d. /\ cpc'[c] = "fn"
      /\ \A e \in Call \ {c} : cpc'[e] = cpc[e]
      /\ \A q \in Proc, f \in Fd : fdt[q][f] # <<c, "r">> => fdt'[q][f] = fdt[q][f]
      /\ \A q \in Proc \ {c} : fdt'[q] = fdt[q]
  BY <1>a, <1>b DEF TypeOK
<1>1. TypeOK' 
  BY <1>a, <1>b DEF TypeOK, ChildState
<1>2. FrameInv'
  BY <1>a, <1>b, <1>d DEF FrameInv, HasPipe, Active
<1>3. LeaseInv' /\ ArgsInv'
  BY <1>a, <1>b, <1>d DEF LeaseInv, ArgsInv, Active, InVm
<1>5. FdInv'
  <2>1. ASSUME NEW e \in Call PROVE EndsInCaller(e)'
    <3>1. HasPipe(e) => ProcOf(caller[e]) \in Proc \ {c} /\ caller[e] # c
      BY <1>a DEF FrameInv, HasPipe, ProcOf, Caller, Proc
    <3>2. (HasPipe(e) /\ CallerUp(e))' => HasPipe(e) /\ CallerUp(e)
      BY <1>b, <1>d, <3>1 DEF FrameInv, HasPipe, CallerUp, Caller
    <3> QED BY <1>b, <1>d, <3>1, <3>2, EndsInCallerKept
  <2>2. ASSUME NEW e \in Call PROVE EndsInChild(e)'
    <3>1. e \in Proc /\ (Holding(e)' => Holding(e))
      BY <1>a, <1>b, <1>d DEF Proc, Holding
    <3>2. cpc'[e] \in {"clear", "close"} => e # c /\ cpc'[e] = cpc[e]
      BY <1>d
    <3>3. \A d \in Call, f \in Fd :
            /\ fdt[e][f] = <<d, "w">> => fdt'[e][f] = <<d, "w">>
            /\ d # c /\ fdt[e][f] = <<d, "r">> => fdt'[e][f] = <<d, "r">>
      BY <1>d, <3>1
    <3>4. kin'[e] = kin[e] /\ rd' = rd /\ wr' = wr
      BY <1>b
    <3> QED BY <3>1, <3>2, <3>3, <3>4, EndsInChildKept
  <2>3. \A e \in Call : KinOf(e)'
    BY <1>a, <1>b, <1>d DEF FdInv, KinOf
  <2> QED BY <1>b, <2>1, <2>2, <2>3 DEF FdInv
<1>6. ChildCloseSucceeds'
  BY <1>d DEF ChildCloseSucceeds
<1>7. SignalInv'
  BY <1>a, <1>b, <1>d DEF SignalInv, HasPipe
<1> QED BY <1>1, <1>2, <1>3, <1>5, <1>6, <1>7

LEMMA FnSetMaskStep ==
  ASSUME IInv, NEW c \in Call, FnSetMask(c)
  PROVE  IInv'
<1> USE ConstantsAssumption DEF IInv, StackInv
<1>a. cpc[c] = "fn" /\ InVm(c)
  BY DEF FnSetMask, InVm
<1>b. UNCHANGED <<pc, caller, stk, rd, wr, result, oldset, oldstate, flag, mem,
                  host, fdt, disp, cancel, dead, cpc, sigi, lease, kin>>
  BY DEF FnSetMask, frame
<1>1. TypeOK'
  <2>1. mem[stk[c]] = [call |-> c, rd |-> rd[c], wr |-> wr[c],
                       oldset |-> oldset[c]]
    BY <1>a DEF ArgsInv
  <2>2. mem[stk[c]].oldset \in SUBSET Sig
    BY <2>1 DEF TypeOK
  <2> QED BY <1>b, <2>2 DEF FnSetMask, TypeOK
<1>2. FrameInv' /\ LeaseInv' /\ ArgsInv' /\ ChildCloseSucceeds'
  BY <1>b DEF FrameInv, LeaseInv, ArgsInv, ChildCloseSucceeds, HasPipe, Active, InVm
<1>3. FdInv'
  BY <1>b, FdInvKept DEF HasPipe, Holding
<1>4. SignalInv'
  <2>1. \A t \in Thread : mask'[t] = mask[t]
    BY DEF FnSetMask, TypeOK, Caller
  <2>2. \A d \in Call \ {c} : mask'[d] = mask[d]
    BY DEF FnSetMask, TypeOK, Caller
  <2> QED BY <1>a, <1>b, <2>1, <2>2 DEF SignalInv, HasPipe
<1> QED BY <1>1, <1>2, <1>3, <1>4

(* execve, exit and a fatal signal take the child off its stack; it keeps  *)
(* its descriptors for the moment.                                         *)
LEMMA LeaveStackStep ==
  ASSUME IInv, NEW c \in Call, Execve(c) \/ Exit(c) \/ Kill(c)
  PROVE  IInv'
<1> USE ConstantsAssumption DEF IInv, StackInv
<1>a. InVm(c) /\ cpc[c] # "none" /\ Holding(c)
  BY DEF Execve, Exit, Kill, InVm, Holding
<1>b. /\ cpc'[c] \in {"exec", "exit"}
      /\ \A d \in Call \ {c} : cpc'[d] = cpc[d]
      /\ UNCHANGED <<pc, caller, stk, rd, wr, result, oldset, oldstate, flag,
                     mem, host, fdt, mask, disp, cancel, dead, sigi, lease, kin>>
  BY DEF Execve, Exit, Kill, frame, TypeOK
<1>1. TypeOK'
  <2>1. cpc' \in [Call -> ChildState]
    BY DEF Execve, Exit, Kill, TypeOK, ChildState
  <2> QED BY <1>b, <2>1 DEF TypeOK
<1>2. FrameInv'
  BY <1>a, <1>b DEF FrameInv, HasPipe, Active
<1>3. LeaseInv'
  BY <1>a, <1>b DEF LeaseInv, Active, InVm
<1>4. ArgsInv'
  BY <1>a, <1>b, ArgsInvKept DEF InVm
<1>5. FdInv'
  BY <1>a, <1>b, FdInvKept DEF HasPipe, Holding
<1>6. ChildCloseSucceeds'
  BY <1>b DEF ChildCloseSucceeds
<1>7. SignalInv'
  BY <1>a, <1>b DEF SignalInv, HasPipe
<1> QED BY <1>1, <1>2, <1>3, <1>4, <1>5, <1>6, <1>7

(* Then the kernel empties its descriptor table.                           *)
LEMMA DropFdsStep ==
  ASSUME IInv, NEW c \in Call, CloseOnExec(c) \/ ReleaseFds(c)
  PROVE  IInv'
<1> USE ConstantsAssumption DEF IInv, StackInv
<1>a. cpc[c] \in {"exec", "exit", "prog"} /\ c \in Proc
  BY DEF CloseOnExec, ReleaseFds, Proc
<1>b. /\ cpc'[c] \in {"prog", "gone"}
      /\ \A d \in Call \ {c} : cpc'[d] = cpc[d]
      /\ \A q \in Proc \ {c} : fdt'[q] = fdt[q]
      /\ UNCHANGED <<pc, caller, stk, rd, wr, result, oldset, oldstate, flag,
                     mem, host, mask, disp, cancel, dead, sigi, lease, kin>>
  BY DEF CloseOnExec, ReleaseFds, PipeIsCloexec, frame, TypeOK
<1>1. TypeOK'
  <2>1. /\ cpc' \in [Call -> ChildState]
        /\ fdt' \in [Proc -> [Fd -> End \cup {None}]]
    <3>1. [f \in Fd |-> None] \in [Fd -> End \cup {None}]
      OBVIOUS
    <3>2. fdt' = [fdt EXCEPT ![c] = [f \in Fd |-> None]]
      BY DEF CloseOnExec, ReleaseFds, PipeIsCloexec
    <3>3. fdt' \in [Proc -> [Fd -> End \cup {None}]]
      BY <3>1, <3>2 DEF TypeOK
    <3>4. \/ cpc' = [cpc EXCEPT ![c] = "prog"]
          \/ cpc' = [cpc EXCEPT ![c] = "gone"]
      BY DEF CloseOnExec, ReleaseFds
    <3> QED BY <3>3, <3>4 DEF TypeOK, ChildState
  <2> QED BY <1>b, <2>1 DEF TypeOK
<1>2. FrameInv'
  BY <1>a, <1>b DEF FrameInv, HasPipe, Active
<1>3. LeaseInv'
  BY <1>a, <1>b DEF LeaseInv, Active, InVm
<1>4. ArgsInv'
  BY <1>a, <1>b, ArgsInvKept DEF InVm
<1>5. FdInv'
  <2>1. ASSUME NEW e \in Call PROVE EndsInCaller(e)'
    <3>1. (HasPipe(e) /\ CallerUp(e))' =>
            /\ HasPipe(e) /\ CallerUp(e) /\ pc'[e] = pc[e]
            /\ ProcOf(caller[e]) \in Proc \ {c}
      BY <1>a, <1>b DEF FrameInv, HasPipe, CallerUp, ProcOf, Proc, Caller
    <3> QED BY <1>b, <3>1, EndsInCallerKept
  <2>2. ASSUME NEW e \in Call PROVE EndsInChild(e)'
    <3>1. CASE e = c
      BY <1>b, <3>1 DEF EndsInChild, Holding
    <3>2. CASE e # c
      <4>1. fdt'[e] = fdt[e] /\ cpc'[e] = cpc[e]
        BY <1>b, <3>2 DEF Proc
      <4> QED BY <1>b, <4>1, EndsInChildKept DEF Holding
    <3> QED BY <3>1, <3>2
  <2>3. ASSUME NEW e \in Call PROVE KinOf(e)'
    <3>1. KinOf(e) /\ kin[e] \subseteq Call
      BY DEF FdInv, TypeOK, Proc
    <3>2. \A d \in Call : cpc'[d] # "none" <=> cpc[d] # "none"
      BY <1>a, <1>b
    <3> QED BY <1>b, <3>1, <3>2 DEF KinOf
  <2> QED BY <1>b, <2>1, <2>2, <2>3 DEF FdInv
<1>6. ChildCloseSucceeds'
  BY <1>b DEF ChildCloseSucceeds
<1>7. SignalInv'
  BY <1>a, <1>b DEF SignalInv, HasPipe
<1> QED BY <1>1, <1>2, <1>3, <1>4, <1>5, <1>6, <1>7
-----------------------------------------------------------------------------
(* The clients.                                                            *)

(* The core of the argument: a child that runs in the shared memory holds  *)
(* its write end, so a descriptor that hung up says that it does not run   *)
(* there.                                                                  *)
LEMMA HupIsSound ==
  ASSUME IInv, NEW c \in Call, NEW d \in Call, PollHup(c), c \in kin[d]
  PROVE  ~InVm(d)
<1> SUFFICES ASSUME InVm(d) PROVE FALSE
  OBVIOUS
<1>1. fdt[d][wr[c]] = <<c, "w">>
  BY DEF IInv, StackInv, FdInv, EndsInChild, InVm, Holding
<1>2. wr[c] \in Fd
  BY DEF IInv, StackInv, FdInv, KinOf, FrameInv
<1> QED BY <1>1, <1>2 DEF PollHup, Proc

(* A stack is only taken back when its child is off it.                    *)
LEMMA ReuseIsSafe ==
  ASSUME IInv, NEW c \in Call, Reuse(c)
  PROVE  ~InVm(c)
<1> USE DEF IInv, StackInv
<1>1. CASE result[c] = "err"
  BY <1>1 DEF FrameInv, InVm
<1>2. CASE PollHup(c)
  <2>1. cpc[c] # "none" => c \in kin[c]
    BY DEF FdInv, KinOf
  <2> QED BY <1>2, <2>1, HupIsSound DEF InVm
<1> QED BY <1>1, <1>2 DEF Reuse

LEMMA ReuseStep ==
  ASSUME IInv, NEW c \in Call, Reuse(c)
  PROVE  IInv'
<1> USE ConstantsAssumption DEF IInv, StackInv
<1>a. pc[c] = "returned" /\ stk[c] \in Stack /\ ~InVm(c)
  BY ReuseIsSafe DEF Reuse, At, FrameInv
<1>b. UNCHANGED <<pc, caller, stk, rd, wr, result, oldset, oldstate, flag, mem,
                  host, fdt, mask, disp, cancel, dead, cpc, sigi, kin>>
  BY DEF Reuse, frame
<1>1. TypeOK'
  BY <1>b DEF Reuse, TypeOK
<1>2. FrameInv' /\ ArgsInv' /\ ChildCloseSucceeds' /\ SignalInv'
  BY <1>b DEF FrameInv, ArgsInv, ChildCloseSucceeds, SignalInv, HasPipe, Active, InVm
<1>3. LeaseInv'
  <2> SUFFICES ASSUME NEW d \in Call, (Active(d) \/ InVm(d))'
               PROVE  (lease[stk[d]] = d)'
    BY DEF LeaseInv
  <2>1. Active(d) \/ InVm(d)
    BY <1>b DEF Active, InVm
  <2>2. d # c
    BY <2>1, <1>a DEF Active
  <2>3. lease[stk[d]] = d /\ lease[stk[c]] = c
    BY <2>1 DEF LeaseInv, Reuse
  <2> QED BY <1>a, <1>b, <2>2, <2>3 DEF Reuse, TypeOK
<1>4. FdInv'
  BY <1>b, FdInvKept DEF HasPipe, Holding
<1> QED BY <1>1, <1>2, <1>3, <1>4

LEMMA CloseResultStep ==
  ASSUME IInv, NEW c \in Call, CloseResult(c)
  PROVE  IInv'
<1> USE ConstantsAssumption DEF IInv, StackInv
<1> DEFINE p == ProcOf(caller[c])
<1>a. /\ pc[c] = "returned" /\ cpc[c] # "none" /\ p \in Proc /\ rd[c] \in Fd
      /\ fdt[p][rd[c]] = <<c, "r">> /\ p # c
  BY DEF CloseResult, At, FrameInv, ProcOf, Proc, Caller, FdInv, KinOf
<1>b. UNCHANGED <<pc, caller, stk, rd, wr, result, oldset, oldstate, flag, mem,
                  host, mask, disp, cancel, dead, cpc, sigi, lease, kin>>
  BY DEF CloseResult, frame
<1> HIDE DEF p
<1>c. \A q \in Proc, f \in Fd :
        q # p \/ fdt[q][f] # <<c, "r">> => fdt'[q][f] = fdt[q][f]
  BY <1>a DEF CloseResult, TypeOK, p
<1>1. TypeOK'
  BY <1>a, <1>b DEF CloseResult, TypeOK, p
<1>2. FrameInv' /\ LeaseInv' /\ ArgsInv' /\ ChildCloseSucceeds' /\ SignalInv'
  BY <1>b DEF FrameInv, LeaseInv, ArgsInv, ChildCloseSucceeds, SignalInv,
              HasPipe, Active, InVm
<1>3. FdInv'
  <2>1. ASSUME NEW e \in Call PROVE EndsInCaller(e)'
    <3>1. (HasPipe(e) /\ CallerUp(e))' =>
            HasPipe(e) /\ CallerUp(e) /\ e # c /\ ProcOf(caller[e]) \in Proc
      BY <1>a, <1>b DEF FrameInv, HasPipe, CallerUp, ProcOf, Proc, Caller
    <3>2. (HasPipe(e) /\ CallerUp(e))' =>
            \A f \in Fd :
              LET q == ProcOf(caller[e])
              IN /\ fdt[q][f] = <<e, "w">> => fdt'[q][f] = <<e, "w">>
                 /\ fdt[q][f] = <<e, "r">> => fdt'[q][f] = <<e, "r">>
      BY <1>c, <3>1
    <3>3. UNCHANGED <<pc, caller, rd, wr>>
      BY <1>b
    <3> QED BY <3>1, <3>2, <3>3, EndsInCallerKept
  <2>2. ASSUME NEW e \in Call PROVE EndsInChild(e)'
    <3>1. e \in Proc /\ (Holding(e)' => Holding(e))
      BY <1>b DEF Proc, Holding
    <3>2. \A d \in Call, f \in Fd :
            /\ fdt[e][f] = <<d, "w">> => fdt'[e][f] = <<d, "w">>
            /\ d = e /\ fdt[e][f] = <<d, "r">> => fdt'[e][f] = <<d, "r">>
      BY <1>a, <1>c, <3>1
    <3> QED BY <1>b, <3>1, <3>2, EndsInChildKept
  <2>3. \A e \in Call : KinOf(e)'
    BY <1>b DEF FdInv, KinOf
  <2> QED BY <1>b, <2>1, <2>2, <2>3 DEF FdInv
<1> QED BY <1>1, <1>2, <1>3

LEMMA CancelStep ==
  ASSUME IInv, NEW t \in Thread, Cancel(t)
  PROVE  IInv'
<1> USE DEF IInv, StackInv
<1>a. UNCHANGED <<pc, caller, stk, rd, wr, result, oldset, oldstate, flag, mem,
                  host, fdt, mask, disp, cancel, cpc, sigi, lease, kin>>
  BY DEF Cancel, frame
<1>1. TypeOK'
  BY <1>a DEF Cancel, TypeOK
<1>2. FrameInv' /\ LeaseInv' /\ ArgsInv' /\ ChildCloseSucceeds' /\ SignalInv'
  BY <1>a DEF FrameInv, LeaseInv, ArgsInv, ChildCloseSucceeds, SignalInv,
              HasPipe, Active, InVm
<1>3. FdInv'
  BY <1>a, FdInvKept DEF HasPipe, Holding
<1> QED BY <1>1, <1>2, <1>3
-----------------------------------------------------------------------------
LEMMA InitIInv == Init => IInv
<1> SUFFICES ASSUME Init PROVE IInv
  OBVIOUS
<1> USE ConstantsAssumption DEF Init
<1>1. TypeOK
  <2>1. mask \in [Caller -> SUBSET Sig]
    BY DEF Caller
  <2>2. sigi \in [Call -> 1 .. NSIG]
    OBVIOUS
  <2> QED BY <2>1, <2>2 DEF TypeOK, FrameState, ChildState
<1>2. FrameInv /\ LeaseInv /\ ArgsInv /\ ChildCloseSucceeds /\ SignalInv
  BY DEF FrameInv, LeaseInv, ArgsInv, ChildCloseSucceeds, SignalInv, HasPipe,
         Active, InVm
<1>3. FdInv
  BY DEF FdInv, EndsInCaller, EndsInChild, KinOf, HasPipe, Holding, Proc
<1> QED BY <1>1, <1>2, <1>3 DEF IInv, StackInv

LEMMA NextIInv == IInv /\ [Next]_vars => IInv'
<1> SUFFICES ASSUME IInv, [Next]_vars PROVE IInv'
  OBVIOUS
<1>1. ASSUME NEW t \in Thread, NEW c \in Call, NEW s \in Stack, Aspawn(t, c, s)
      PROVE  IInv'
  BY <1>1, AspawnStep
<1>2. ASSUME NEW p \in Call, NEW c \in Call, NEW s \in Stack, AspawnRec(p, c, s)
      PROVE  IInv'
  BY <1>2, AspawnRecStep
<1>3. ASSUME NEW c \in Call, CallStep(c)
      PROVE  IInv'
  <2>1. CASE LoadFlag(c)
    <3>1. pc[c] = "load" /\ flag' \in BOOLEAN
      BY <2>1 DEF LoadFlag, At, IInv, StackInv, TypeOK
    <3>2. PICK l \in {"clone3", "clone"} : Goto(c, l)
      BY <2>1 DEF LoadFlag
    <3> QED BY <2>1, <3>1, <3>2, SwitchStep DEF LoadFlag
  <2>2. CASE StoreFlag(c)
    BY <2>2, SwitchStep DEF StoreFlag, At
  <2> QED BY <1>3, <2>1, <2>2, SigBlockAllStep, CreatePipeStep, WriteArgsStep,
             Clone3Step, CloneStep, CloseReadStep, CloseWriteStep,
             SigSetMaskStep, LeaveAspawnStep DEF CallStep
<1>4. ASSUME NEW c \in Call, ChildPrologue(c) \/ FnSetMask(c) \/ FnEnds(c) \/ Kill(c)
      PROVE  IInv'
  BY <1>4, ClearHandlerStep, CloseReadInChildStep, FnSetMaskStep, LeaveStackStep
     DEF ChildPrologue, FnEnds
<1>5. ASSUME NEW c \in Call, CloseOnExec(c) \/ ReleaseFds(c)
      PROVE  IInv'
  BY <1>5, DropFdsStep
<1>6. ASSUME NEW c \in Call, Reuse(c) \/ CloseResult(c)
      PROVE  IInv'
  BY <1>6, ReuseStep, CloseResultStep
<1>7. ASSUME NEW t \in Thread, Cancel(t)
      PROVE  IInv'
  BY <1>7, CancelStep
<1>8. CASE UNCHANGED vars
  <2> USE <1>8 DEF vars, IInv, StackInv
  <2>1. TypeOK'
    BY DEF TypeOK
  <2>2. FrameInv' /\ LeaseInv' /\ ArgsInv' /\ ChildCloseSucceeds' /\ SignalInv'
    BY DEF FrameInv, LeaseInv, ArgsInv, ChildCloseSucceeds, SignalInv, HasPipe,
           Active, InVm
  <2>3. FdInv'
    BY FdInvKept DEF HasPipe, Holding
  <2> QED BY <2>1, <2>2, <2>3
<1> QED BY <1>1, <1>2, <1>3, <1>4, <1>5, <1>6, <1>7, <1>8 DEF Next
-----------------------------------------------------------------------------
(* IInv holds in every reachable state, however many threads, calls,       *)
(* stacks, descriptors and signals there are.                              *)
THEOREM InductiveInvariant == Spec => []IInv
BY InitIInv, NextIInv, PTL DEF Spec

(* Type correctness of aspawn, its children and the tables of the kernel.  *)
THEOREM TypeCorrect == Spec => []TypeOK
<1>1. IInv => TypeOK
  BY DEF IInv, StackInv
<1> QED BY <1>1, InductiveInvariant, PTL

(* When the descriptor aspawn returned hangs up, neither its child nor any *)
(* child that one spawned with aspawn_rec still runs in the memory of the  *)
(* caller: reusing the stack then is safe.                                 *)
THEOREM HupIsLicence == Spec => []HupMeansStackFree
<1>1. IInv => HupMeansStackFree
  BY HupIsSound DEF HupMeansStackFree
<1> QED BY <1>1, InductiveInvariant, PTL

(* A child reads its own arguments for as long as it runs on its stack,    *)
(* though the stacks are shared memory, and it holds its write end.        *)
THEOREM OwnArgs == Spec => []ChildSeesOwnArgs
<1>1. IInv => ChildSeesOwnArgs
  <2> SUFFICES ASSUME IInv, NEW c \in Call, InVm(c)
               PROVE  /\ mem[stk[c]] = [call |-> c, rd |-> rd[c], wr |-> wr[c],
                                        oldset |-> oldset[c]]
                      /\ fdt[c][wr[c]] = <<c, "w">>
    BY DEF ChildSeesOwnArgs
  <2>1. cpc[c] # "none" /\ Holding(c)
    BY DEF InVm, Holding
  <2>2. fdt[c][wr[c]] = <<c, "w">>
    BY <2>1 DEF IInv, StackInv, FdInv, EndsInChild, KinOf
  <2> QED BY <2>2 DEF IInv, StackInv, ArgsInv
<1> QED BY <1>1, InductiveInvariant, PTL

(* The close of the read end in aspawn_child "should always succeeds", and *)
(* does.                                                                   *)
THEOREM CloseSucceeds == Spec => []ChildCloseSucceeds
<1>1. IInv => ChildCloseSucceeds
  BY DEF IInv, StackInv
<1> QED BY <1>1, InductiveInvariant, PTL

(* No handler of the parent ever runs in a child, through clone3 or        *)
(* through the fall back.                                                  *)
THEOREM HandlersStayHome == Spec => []NoParentHandler
<1>1. IInv => NoParentHandler
  BY DEF IInv, SignalInv, NoParentHandler, InVm
<1> QED BY <1>1, InductiveInvariant, PTL
=============================================================================
