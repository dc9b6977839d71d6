------------------------- MODULE AspawnCallerProofs -------------------------
(***************************************************************************)
(* What aspawn gives back: the mask and the cancelability of the calling   *)
(* thread, the descriptors of the process, and the original mask to every  *)
(* descendant.  CallerInv (AspawnInv) is inductive relative to IInv.       *)
(***************************************************************************)
EXTENDS AspawnProofs

(* Steps that touch neither the state of a thread nor its being in a call. *)
LEMMA ThreadsKept ==
  ASSUME IInv, CallerInv, UNCHANGED <<caller, cancel, dead, oldstate>>,
         \A t \in Thread : mask'[t] = mask[t],
         \A c \in Call : caller[c] \in Thread =>
           /\ Active(c)' <=> Active(c)
           /\ pc'[c] \in {"blockall", "uncancel", "return"} => pc'[c] = pc[c]
           /\ pc[c] = "return" /\ Active(c)' => pc'[c] = "return"
  PROVE  CallerRestored' /\ ThreadInv'
<1>1. CallerRestored'
  BY DEF CallerInv, CallerRestored, InCall, Active
<1>2. ThreadInv'
  BY DEF CallerInv, ThreadInv
<1> QED BY <1>1, <1>2

(* Steps that write no oldset.                                             *)
LEMMA OldsetKept ==
  ASSUME IInv, CallerInv, UNCHANGED <<caller, oldset>>,
         \A c \in Call :
           /\ (HasPipe(c) \/ pc[c] \in {"pipe", "setmask"} \/ cpc[c] # "none")'
                => HasPipe(c) \/ pc[c] \in {"pipe", "setmask"} \/ cpc[c] # "none"
           /\ pc'[c] # "idle" => pc[c] # "idle"
  PROVE  OldsetInv'
BY DEF CallerInv, OldsetInv

(* Steps that put nothing into the table of the root process.              *)
LEMMA RootKept ==
  ASSUME IInv, CallerInv,
         \A f \in Fd : fdt'[Root][f] \in {fdt[Root][f], None},
         \A c \in Call :
           HasPipe(c) \/ (pc[c] # "idle" /\ result[c] = "ok") =>
             /\ UNCHANGED <<caller[c], rd[c], wr[c]>>
             /\ HasPipe(c) => HasPipe(c)'
             /\ HasPipe(c) /\ pc[c] # "closewr" /\ pc'[c] = "closewr"
                  => result'[c] = "ok"
             /\ pc[c] # "idle" /\ result[c] = "ok"
                  => pc'[c] # "idle" /\ result'[c] = "ok"
  PROVE  RootInv'
<1>1. \A c \in Call : None # <<c, "w">> /\ None # <<c, "r">>
  BY ConstantsAssumption DEF End
<1> SUFFICES ASSUME NEW c \in Call, NEW f \in Fd
             PROVE  /\ fdt'[Root][f] = <<c, "w">> =>
                         (HasPipe(c) /\ caller[c] \in Thread /\ f = wr[c])'
                    /\ fdt'[Root][f] = <<c, "r">> =>
                         /\ caller'[c] \in Thread /\ f = rd'[c]
                         /\ \/ HasPipe(c)' /\ pc'[c] # "closewr"
                            \/ pc'[c] # "idle" /\ result'[c] = "ok"
  BY DEF RootInv
<1>2. CASE fdt'[Root][f] = <<c, "w">>
  BY <1>1, <1>2 DEF CallerInv, RootInv
<1>3. CASE fdt'[Root][f] = <<c, "r">>
  <2>1. fdt[Root][f] = <<c, "r">>
    BY <1>1, <1>3
  <2>2. /\ caller[c] \in Thread /\ f = rd[c]
        /\ \/ HasPipe(c) /\ pc[c] # "closewr"
           \/ pc[c] # "idle" /\ result[c] = "ok"
    BY <2>1 DEF CallerInv, RootInv
  <2>3. pc[c] # "idle"
    BY <2>2 DEF HasPipe
  <2> QED BY <1>1, <1>3, <2>2, <2>3
<1> QED BY <1>1, <1>2, <1>3
-----------------------------------------------------------------------------
(* The caller's side.                                                      *)
LEMMA AspawnCaller ==
  ASSUME IInv, CallerInv, NEW t \in Thread, NEW c \in Call, NEW s \in Stack,
         Aspawn(t, c, s)
  PROVE  CallerInv'
<1> USE ConstantsAssumption DEF IInv, StackInv
<1>a. /\ pc[c] = "idle" /\ cpc[c] = "none" /\ ~InCall(t) /\ t \notin dead
      /\ pc'[c] = "blockall" /\ caller'[c] = t
      /\ oldstate'[c] = cancel[t] /\ cancel'[t] = "disabled"
      /\ \A e \in Call \ {c} : /\ pc'[e] = pc[e] /\ caller'[e] = caller[e]
                               /\ oldstate'[e] = oldstate[e]
      /\ \A u \in Thread \ {t} : cancel'[u] = cancel[u]
      /\ UNCHANGED <<rd, wr, result, oldset, fdt, mask, dead, cpc>>
  BY DEF Aspawn, Goto, FrameInv, TypeOK
<1>b. t \notin Call /\ \A e \in Call : Active(e) => caller[e] # t
  BY <1>a DEF InCall, Active
<1>c. mask[t] = InitMask[t] /\ cancel[t] = InitCancel[t]
  BY <1>a DEF CallerInv, CallerRestored
<1>1. CallerRestored'
  <2> SUFFICES ASSUME NEW u \in Thread, ~InCall(u)'
               PROVE  mask'[u] = InitMask[u] /\ cancel'[u] = InitCancel[u]
    BY DEF CallerRestored
  <2>1. u # t
    BY <1>a DEF InCall
  <2>2. ~InCall(u)
    BY <1>a, <2>1 DEF InCall
  <2> QED BY <1>a, <2>1, <2>2 DEF CallerInv, CallerRestored
<1>2. ThreadInv'
  BY <1>a, <1>b, <1>c DEF CallerInv, ThreadInv, Active
<1>3. OldsetInv'
  BY <1>a, <1>b DEF CallerInv, OldsetInv, HasPipe
<1>4. RootInv'
  BY <1>a, RootKept DEF HasPipe
<1> QED BY <1>1, <1>2, <1>3, <1>4 DEF CallerInv

LEMMA AspawnRecCaller ==
  ASSUME IInv, CallerInv, NEW p \in Call, NEW c \in Call, NEW s \in Stack,
         AspawnRec(p, c, s)
  PROVE  CallerInv'
<1> USE ConstantsAssumption DEF IInv, StackInv
<1>a. /\ pc[c] = "idle" /\ cpc[c] = "none" /\ cpc[p] = "fn" /\ p # c
      /\ pc'[c] = "pipe" /\ caller'[c] = p /\ oldset'[c] = oldset[p]
      /\ \A e \in Call \ {c} : /\ pc'[e] = pc[e] /\ caller'[e] = caller[e]
                               /\ oldset'[e] = oldset[e]
      /\ UNCHANGED <<rd, wr, result, oldstate, fdt, mask, cancel, dead, cpc>>
  <2>1. mem[stk[p]].oldset = oldset[p]
    <3>1. InVm(p)
      BY DEF AspawnRec, InVm
    <3>2. mem[stk[p]] = [call |-> p, rd |-> rd[p], wr |-> wr[p],
                         oldset |-> oldset[p]]
      BY <3>1 DEF ArgsInv
    <3> QED BY <3>2
  <2>2. oldset' = [oldset EXCEPT ![c] = oldset[p]]
    BY <2>1 DEF AspawnRec
  <2>3. DOMAIN oldset = Call
    BY DEF TypeOK
  <2>4. oldset'[c] = oldset[p] /\ \A e \in Call \ {c} : oldset'[e] = oldset[e]
    BY <2>2, <2>3
  <2>5. pc[c] = "idle" /\ cpc[c] = "none" /\ cpc[p] = "fn"
    BY DEF AspawnRec, FrameInv
  <2> QED BY <2>4, <2>5 DEF AspawnRec, Goto, TypeOK
<1>b. p \notin Thread
  OBVIOUS
<1>1. CallerRestored'
  <2> SUFFICES ASSUME NEW u \in Thread, ~InCall(u)'
               PROVE  mask'[u] = InitMask[u] /\ cancel'[u] = InitCancel[u]
    BY DEF CallerRestored
  <2>1. ~InCall(u)
    BY <1>a DEF InCall
  <2> QED BY <1>a, <2>1 DEF CallerInv, CallerRestored
<1>2. ThreadInv'
  BY <1>a, <1>b DEF CallerInv, ThreadInv, Active
<1>3. OldsetInv'
  <2>1. \A e \in Call : pc[e] # "idle" /\ caller[e] \in Call => caller[e] # c
    BY <1>a DEF FrameInv
  <2> QED BY <1>a, <1>b, <2>1 DEF CallerInv, OldsetInv, HasPipe
<1>4. RootInv'
  BY <1>a, RootKept DEF HasPipe
<1> QED BY <1>1, <1>2, <1>3, <1>4 DEF CallerInv

(* sig_blockall saves the mask the thread came with, or fails and leaves it. *)
LEMMA SigBlockAllCaller ==
  ASSUME IInv, CallerInv, NEW c \in Call, SigBlockAll(c)
  PROVE  CallerInv'
<1> USE ConstantsAssumption DEF IInv, StackInv
<1> DEFINE t == caller[c]
<1>a. /\ pc[c] = "blockall" /\ t \in Thread /\ cpc[c] = "none" /\ Active(c)
      /\ result[c] # "ok"
  BY DEF SigBlockAll, At, FrameInv, Active
<1>b. mask[t] = InitMask[t]
  BY <1>a DEF CallerInv, ThreadInv
<1>c. \A e \in Call \ {c} : Active(e) => caller[e] # t
  BY <1>a DEF FrameInv
<1>d. /\ pc'[c] \in {"pipe", "uncancel"}
      /\ pc'[c] = "pipe" => oldset'[c] = InitMask[t]
      /\ pc'[c] = "uncancel" => mask'[t] = mask[t]
      /\ \A e \in Call \ {c} : pc'[e] = pc[e] /\ oldset'[e] = oldset[e]
      /\ \A u \in Thread \ {t} : mask'[u] = mask[u]
      /\ \A e \in Call : result[e] = "ok" => result'[e] = "ok"
      /\ UNCHANGED <<caller, rd, wr, oldstate, fdt, cancel, dead, cpc>>
  BY <1>a, <1>b DEF SigBlockAll, Goto, TypeOK, Caller
<1> HIDE DEF t
<1>1. CallerRestored'
  <2> SUFFICES ASSUME NEW u \in Thread, ~InCall(u)'
               PROVE  mask'[u] = InitMask[u] /\ cancel'[u] = InitCancel[u]
    BY DEF CallerRestored
  <2>1. u # t
    BY <1>a, <1>d DEF InCall, t
  <2>2. ~InCall(u)
    BY <1>a, <1>d DEF InCall
  <2> QED BY <1>d, <2>1, <2>2 DEF CallerInv, CallerRestored
<1>2. ThreadInv'
  BY <1>a, <1>b, <1>c, <1>d DEF CallerInv, ThreadInv, Active, t
<1>3. OldsetInv'
  <2>1. \A e \in Call : pc[e] # "idle" /\ caller[e] \in Call => caller[e] # c
    BY <1>a DEF FrameInv
  <2> QED BY <1>a, <1>d, <2>1 DEF CallerInv, OldsetInv, HasPipe, t
<1>4. RootInv'
  BY <1>a, <1>d, RootKept DEF HasPipe
<1> QED BY <1>1, <1>2, <1>3, <1>4 DEF CallerInv

(* A pipe of a thread goes into the table of the root process, one of a    *)
(* child into the child's.                                                 *)
LEMMA CreatePipeCaller ==
  ASSUME IInv, CallerInv, NEW c \in Call, CreatePipe(c)
  PROVE  CallerInv'
<1> USE ConstantsAssumption DEF IInv, StackInv
<1> DEFINE p == ProcOf(caller[c])
<1>a. /\ pc[c] = "pipe" /\ p \in Proc /\ cpc[c] = "none" /\ result[c] # "ok"
      /\ p = Root <=> caller[c] \in Thread
  BY DEF CreatePipe, At, FrameInv, ProcOf, Proc, Caller
<1>b. /\ pc'[c] \in {"args", "setmask", "returned"}
      /\ pc'[c] = "returned" => caller[c] \notin Thread
      /\ \A e \in Call \ {c} : /\ pc'[e] = pc[e] /\ rd'[e] = rd[e]
                               /\ wr'[e] = wr[e]
      /\ \A e \in Call : result[e] = "ok" => result'[e] = "ok"
      /\ UNCHANGED <<caller, oldset, oldstate, mask, cancel, dead, cpc>>
  BY <1>a DEF CreatePipe, AfterImpl, Goto, TypeOK
<1>1. CallerRestored' /\ ThreadInv'
  BY <1>a, <1>b, ThreadsKept DEF Active
<1>2. OldsetInv'
  BY <1>a, <1>b, OldsetKept DEF HasPipe
<1>3. RootInv'
  <2>1. CASE UNCHANGED fdt
    BY <1>a, <1>b, <2>1, RootKept DEF HasPipe
  <2>2. CASE \E r, w \in Fd :
             /\ fdt' = [fdt EXCEPT ![p] = [@ EXCEPT ![r] = <<c, "r">>,
                                                    ![w] = <<c, "w">>]]
             /\ rd' = [rd EXCEPT ![c] = r]
             /\ wr' = [wr EXCEPT ![c] = w]
             /\ Goto(c, "args")
             /\ r < w
    <3>1. PICK r \in Fd, w \in Fd :
             /\ fdt' = [fdt EXCEPT ![p] = [@ EXCEPT ![r] = <<c, "r">>,
                                                    ![w] = <<c, "w">>]]
             /\ rd' = [rd EXCEPT ![c] = r]
             /\ wr' = [wr EXCEPT ![c] = w]
             /\ Goto(c, "args")
             /\ r < w
      BY <2>2
    <3>2. r # w /\ rd'[c] = r /\ wr'[c] = w /\ pc'[c] = "args"
      BY <3>1 DEF TypeOK, Goto
    <3>3. CASE p # Root
      <4>1. fdt'[Root] = fdt[Root]
        BY <3>1, <3>3, <1>a DEF TypeOK, Proc
      <4> QED BY <1>a, <1>b, <4>1, RootKept DEF HasPipe
    <3>4. CASE p = Root
      <4>1. /\ fdt'[Root][r] = <<c, "r">> /\ fdt'[Root][w] = <<c, "w">>
            /\ \A f \in Fd \ {r, w} : fdt'[Root][f] = fdt[Root][f]
        BY <3>1, <3>2, <3>4, <1>a DEF TypeOK
      <4>2. \A f \in Fd : fdt[Root][f] # <<c, "r">> /\ fdt[Root][f] # <<c, "w">>
        BY <1>a DEF CallerInv, RootInv, HasPipe
      <4> SUFFICES ASSUME NEW e \in Call, NEW f \in Fd
                   PROVE  /\ fdt'[Root][f] = <<e, "w">> =>
                               (HasPipe(e) /\ caller[e] \in Thread /\ f = wr[e])'
                          /\ fdt'[Root][f] = <<e, "r">> =>
                               /\ caller'[e] \in Thread /\ f = rd'[e]
                               /\ \/ HasPipe(e)' /\ pc'[e] # "closewr"
                                  \/ pc'[e] # "idle" /\ result'[e] = "ok"
        BY DEF RootInv
      <4>3. CASE e = c
        BY <1>a, <1>b, <3>2, <3>4, <4>1, <4>2, <4>3 DEF HasPipe
      <4>4. CASE e # c
        BY <1>a, <1>b, <4>1, <4>4 DEF CallerInv, RootInv, HasPipe
      <4> QED BY <4>3, <4>4
    <3> QED BY <3>3, <3>4
  <2> QED BY <2>1, <2>2 DEF CreatePipe
<1> QED BY <1>1, <1>2, <1>3 DEF CallerInv

(* The argument block, the switch, the two ways to clone.                  *)
LEMMA CloneCaller ==
  ASSUME IInv, CallerInv, NEW c \in Call,
         WriteArgs(c) \/ LoadFlag(c) \/ Clone3(c) \/ StoreFlag(c) \/ Clone(c)
  PROVE  CallerInv'
<1> USE ConstantsAssumption DEF IInv, StackInv
<1>a. /\ pc[c] \in {"args", "load", "clone3", "store", "clone"}
      /\ cpc[c] = "none" /\ result[c] # "ok"
  BY DEF WriteArgs, LoadFlag, Clone3, StoreFlag, Clone, At, FrameInv
<1>b. /\ pc'[c] \in {"load", "clone3", "store", "clone", "closerd", "closewr"}
      /\ pc'[c] = "closewr" => result'[c] = "ok"
      /\ \A e \in Call \ {c} : /\ pc'[e] = pc[e] /\ result'[e] = result[e]
                               /\ cpc'[e] = cpc[e]
  BY DEF WriteArgs, LoadFlag, Clone3, StoreFlag, Clone, NewChild, CloneFails,
         Goto, TypeOK
<1>c. UNCHANGED <<caller, rd, wr, oldset, oldstate, cancel, dead>>
  BY DEF WriteArgs, LoadFlag, Clone3, StoreFlag, Clone
<1>d. fdt'[Root] = fdt[Root] /\ \A t \in Thread : mask'[t] = mask[t]
  <2>1. \/ UNCHANGED <<fdt, mask>>
        \/ /\ fdt' = [fdt EXCEPT ![c] = fdt[ProcOf(caller[c])]]
           /\ mask' = [mask EXCEPT ![c] = mask[caller[c]]]
    BY DEF WriteArgs, LoadFlag, Clone3, StoreFlag, Clone, NewChild, CloneFails
  <2>2. /\ fdt \in [Proc -> [Fd -> End \cup {None}]] /\ Root \in Proc /\ Root # c
        /\ mask \in [Caller -> SUBSET Sig]
        /\ \A t \in Thread : t \in Caller /\ t # c
    BY DEF TypeOK, Proc, Caller
  <2> QED BY <2>1, <2>2
<1>1. CallerRestored' /\ ThreadInv'
  BY <1>a, <1>b, <1>c, <1>d, ThreadsKept DEF Active
<1>2. OldsetInv'
  BY <1>a, <1>b, <1>c, OldsetKept DEF HasPipe
<1>3. RootInv'
  BY <1>a, <1>b, <1>c, <1>d, RootKept DEF HasPipe
<1> QED BY <1>1, <1>2, <1>3 DEF CallerInv

(* The root process loses the end that is closed, and no other.            *)
LEMMA CloseCaller ==
  ASSUME IInv, CallerInv, NEW c \in Call, CloseRead(c) \/ CloseWrite(c)
  PROVE  CallerInv'
<1> USE ConstantsAssumption DEF IInv, StackInv
<1> DEFINE p == ProcOf(caller[c])
           g == IF pc[c] = "closerd" THEN rd[c] ELSE wr[c]
<1>a. /\ pc[c] \in {"closerd", "closewr"} /\ p \in Proc /\ g \in Fd
      /\ pc[c] = "closerd" => result[c] # "ok"
      /\ caller[c] \in Thread => p = Root
  BY DEF CloseRead, CloseWrite, At, FrameInv, HasPipe, ProcOf, Proc, Caller
<1>b. /\ pc[c] = "closerd" => pc'[c] = "closewr"
      /\ pc[c] = "closewr" => pc'[c] = AfterImpl(c)
      /\ \A e \in Call \ {c} : pc'[e] = pc[e]
      /\ UNCHANGED <<caller, rd, wr, result, oldset, oldstate, mask, cancel,
                     dead, cpc>>
  BY DEF CloseRead, CloseWrite, At, Goto, TypeOK
<1>c. AfterImpl(c) \in {"setmask", "returned"}
      /\ (caller[c] \in Thread => AfterImpl(c) = "setmask")
  BY DEF AfterImpl
<1>d. /\ \A f \in Fd : fdt'[Root][f] \in {fdt[Root][f], None}
      /\ caller[c] \in Thread => fdt'[Root][g] = None
  <2>1. fdt' = [fdt EXCEPT ![p][g] = None]
    BY DEF CloseRead, CloseWrite, At
  <2>2. fdt \in [Proc -> [Fd -> End \cup {None}]] /\ Root \in Proc
    BY DEF TypeOK, Proc
  <2> HIDE DEF p, g
  <2> QED BY <2>1, <2>2, <1>a
<1>1. CallerRestored' /\ ThreadInv'
  BY <1>a, <1>b, <1>c, ThreadsKept DEF Active
<1>2. OldsetInv'
  BY <1>a, <1>b, <1>c, OldsetKept DEF HasPipe
<1>3. RootInv'
  <2>1. \A e \in Call : None # <<e, "w">> /\ None # <<e, "r">>
    BY DEF End
  <2> SUFFICES ASSUME NEW e \in Call, NEW f \in Fd
               PROVE  /\ fdt'[Root][f] = <<e, "w">> =>
                           (HasPipe(e) /\ caller[e] \in Thread /\ f = wr[e])'
                      /\ fdt'[Root][f] = <<e, "r">> =>
                           /\ caller'[e] \in Thread /\ f = rd'[e]
                           /\ \/ HasPipe(e)' /\ pc'[e] # "closewr"
                              \/ pc'[e] # "idle" /\ result'[e] = "ok"
    BY DEF RootInv
  <2>2. /\ fdt'[Root][f] = <<e, "w">> => fdt[Root][f] = <<e, "w">>
        /\ fdt'[Root][f] = <<e, "r">> => fdt[Root][f] = <<e, "r">>
        /\ fdt'[Root][f] \in {<<e, "w">>, <<e, "r">>} /\ caller[c] \in Thread
             => f # g
    BY <1>d, <2>1
  <2>3. /\ fdt[Root][f] = <<e, "w">> =>
             HasPipe(e) /\ caller[e] \in Thread /\ f = wr[e]
        /\ fdt[Root][f] = <<e, "r">> =>
             /\ caller[e] \in Thread /\ f = rd[e]
             /\ \/ HasPipe(e) /\ pc[e] # "closewr"
                \/ pc[e] # "idle" /\ result[e] = "ok"
    BY DEF CallerInv, RootInv
  <2>4. CASE e # c
    BY <1>b, <2>2, <2>3, <2>4 DEF HasPipe
  <2>5. CASE e = c
    BY <1>a, <1>b, <1>c, <2>2, <2>3, <2>5 DEF HasPipe
  <2> QED BY <2>4, <2>5
<1> QED BY <1>1, <1>2, <1>3 DEF CallerInv

(* The mask is put back ...                                                *)
LEMMA SigSetMaskCaller ==
  ASSUME IInv, CallerInv, NEW c \in Call, SigSetMask(c)
  PROVE  CallerInv'
<1> USE ConstantsAssumption DEF IInv, StackInv
<1> DEFINE t == caller[c]
<1>a. pc[c] = "setmask" /\ t \in Thread /\ Active(c) /\ oldset[c] = InitMask[t]
  BY DEF SigSetMask, At, FrameInv, Active, CallerInv, OldsetInv
<1>b. \A e \in Call \ {c} : Active(e) => caller[e] # t
  BY <1>a DEF FrameInv
<1>c. /\ pc'[c] = "uncancel" /\ mask'[t] = InitMask[t]
      /\ \A e \in Call \ {c} : pc'[e] = pc[e]
      /\ \A u \in Thread \ {t} : mask'[u] = mask[u]
      /\ UNCHANGED <<caller, rd, wr, result, oldset, oldstate, fdt, cancel,
                     dead, cpc>>
  BY <1>a DEF SigSetMask, Goto, TypeOK, Caller
<1> HIDE DEF t
<1>1. CallerRestored'
  <2> SUFFICES ASSUME NEW u \in Thread, ~InCall(u)'
               PROVE  mask'[u] = InitMask[u] /\ cancel'[u] = InitCancel[u]
    BY DEF CallerRestored
  <2>1. u # t
    BY <1>a, <1>c DEF InCall, t
  <2>2. ~InCall(u)
    BY <1>a, <1>c DEF InCall
  <2> QED BY <1>c, <2>1, <2>2 DEF CallerInv, CallerRestored
<1>2. ThreadInv'
  BY <1>a, <1>b, <1>c DEF CallerInv, ThreadInv, Active, t
<1>3. OldsetInv'
  BY <1>a, <1>c, OldsetKept DEF HasPipe
<1>4. RootInv'
  BY <1>a, <1>c, RootKept DEF HasPipe
<1> QED BY <1>1, <1>2, <1>3, <1>4 DEF CallerInv

(* ... and so is the cancelability, as the last thing aspawn does before   *)
(* it returns.                                                             *)
LEMMA RestoreCancelCaller ==
  ASSUME IInv, CallerInv, NEW c \in Call, RestoreCancel(c)
  PROVE  CallerInv'
<1> USE ConstantsAssumption DEF IInv, StackInv
<1> DEFINE t == caller[c]
<1>a. /\ pc[c] = "uncancel" /\ t \in Thread /\ Active(c)
      /\ oldstate[c] = InitCancel[t] /\ mask[t] = InitMask[t]
  BY DEF RestoreCancel, At, FrameInv, Active, CallerInv, ThreadInv
<1>b. \A e \in Call \ {c} : Active(e) => caller[e] # t
  BY <1>a DEF FrameInv
<1>c. /\ pc'[c] = "return" /\ cancel'[t] = InitCancel[t]
      /\ \A e \in Call \ {c} : pc'[e] = pc[e]
      /\ \A u \in Thread \ {t} : cancel'[u] = cancel[u]
      /\ UNCHANGED <<caller, rd, wr, result, oldset, oldstate, fdt, mask,
                     dead, cpc>>
  BY <1>a DEF RestoreCancel, Goto, TypeOK
<1> HIDE DEF t
<1>1. CallerRestored'
  <2> SUFFICES ASSUME NEW u \in Thread, ~InCall(u)'
               PROVE  mask'[u] = InitMask[u] /\ cancel'[u] = InitCancel[u]
    BY DEF CallerRestored
  <2>1. u # t
    BY <1>c DEF InCall, t
  <2>2. ~InCall(u)
    BY <1>a, <1>c, <2>1 DEF InCall, t
  <2> QED BY <1>c, <2>1, <2>2 DEF CallerInv, CallerRestored
<1>2. ThreadInv'
  BY <1>a, <1>b, <1>c DEF CallerInv, ThreadInv, Active, t
<1>3. OldsetInv'
  BY <1>a, <1>c, OldsetKept DEF HasPipe
<1>4. RootInv'
  BY <1>a, <1>c, RootKept DEF HasPipe
<1> QED BY <1>1, <1>2, <1>3, <1>4 DEF CallerInv

(* The thread leaves the call with both restored.                          *)
LEMMA ReturnCaller ==
  ASSUME IInv, CallerInv, NEW c \in Call, Return(c)
  PROVE  CallerInv'
<1> USE ConstantsAssumption DEF IInv, StackInv
<1> DEFINE t == caller[c]
<1>a. /\ pc[c] = "return" /\ t \in Thread /\ Active(c)
      /\ cancel[t] = InitCancel[t] /\ mask[t] = InitMask[t]
  BY DEF Return, At, FrameInv, Active, CallerInv, ThreadInv
<1>b. /\ pc'[c] = "returned"
      /\ \A e \in Call \ {c} : pc'[e] = pc[e]
      /\ UNCHANGED <<caller, rd, wr, result, oldset, oldstate, fdt, mask,
                     cancel, dead, cpc>>
  BY DEF Return, Goto, TypeOK
<1> HIDE DEF t
<1>1. CallerRestored'
  <2> SUFFICES ASSUME NEW u \in Thread, ~InCall(u)'
               PROVE  mask'[u] = InitMask[u] /\ cancel'[u] = InitCancel[u]
    BY DEF CallerRestored
  <2>1. CASE u = t
    BY <1>a, <1>b, <2>1
  <2>2. CASE u # t
    <3>1. ~InCall(u)
      BY <1>a, <1>b, <2>2 DEF InCall, t
    <3> QED BY <1>b, <3>1 DEF CallerInv, CallerRestored
  <2> QED BY <2>1, <2>2
<1>2. ThreadInv'
  BY <1>a, <1>b DEF CallerInv, ThreadInv, Active
<1>3. OldsetInv'
  BY <1>a, <1>b, OldsetKept DEF HasPipe
<1>4. RootInv'
  BY <1>a, <1>b, RootKept DEF HasPipe
<1> QED BY <1>1, <1>2, <1>3, <1>4 DEF CallerInv
-----------------------------------------------------------------------------
(* The children, the clients and cancellation.                             *)

(* A child has a mask and a descriptor table of its own.                   *)
LEMMA ChildCaller ==
  ASSUME IInv, CallerInv, NEW c \in Call,
         \/ ChildPrologue(c) \/ FnSetMask(c) \/ FnEnds(c) \/ Kill(c)
         \/ CloseOnExec(c) \/ ReleaseFds(c)
  PROVE  CallerInv'
<1> USE ConstantsAssumption DEF IInv, StackInv
<1> USE DEF ChildPrologue, ClearHandler, CloseReadInChild, FnEnds, Execve, Exit,
            Kill, CloseOnExec, ReleaseFds, FnSetMask, frame
<1>a. UNCHANGED <<pc, caller, rd, wr, result, oldset, oldstate, cancel, dead>>
  OBVIOUS
<1>b. /\ cpc[c] # "none"
      /\ \A e \in Call \ {c} : cpc'[e] = cpc[e]
  BY DEF TypeOK, InVm
<1>c. fdt'[Root] = fdt[Root]
  <2>1. fdt' = fdt \/ (\E f : fdt' = [fdt EXCEPT ![c][f] = None])
        \/ fdt' = [fdt EXCEPT ![c] = [f \in Fd |-> None]]
    OBVIOUS
  <2>2. DOMAIN fdt = Proc /\ Root \in Proc /\ Root # c
    BY DEF TypeOK, Proc
  <2> QED BY <2>1, <2>2
<1>d. \A t \in Thread : mask'[t] = mask[t]
  <2>1. mask' = mask \/ mask' = [mask EXCEPT ![c] = mem[stk[c]].oldset]
    OBVIOUS
  <2>2. DOMAIN mask = Caller /\ \A t \in Thread : t \in Caller /\ t # c
    BY DEF TypeOK, Caller
  <2> QED BY <2>1, <2>2
<1>1. CallerRestored' /\ ThreadInv'
  BY <1>a, <1>d, ThreadsKept DEF Active
<1>2. OldsetInv'
  BY <1>a, <1>b, OldsetKept DEF HasPipe
<1>3. RootInv'
  BY <1>a, <1>c, RootKept DEF HasPipe
<1> QED BY <1>1, <1>2, <1>3 DEF CallerInv

LEMMA ClientCaller ==
  ASSUME IInv, CallerInv, NEW c \in Call, Reuse(c) \/ CloseResult(c)
  PROVE  CallerInv'
<1> USE ConstantsAssumption DEF IInv, StackInv
<1>a. UNCHANGED <<pc, caller, rd, wr, result, oldset, oldstate, mask, cancel,
                  dead, cpc>>
  BY DEF Reuse, CloseResult, frame
<1>b. \A f \in Fd : fdt'[Root][f] \in {fdt[Root][f], None}
  <2>1. UNCHANGED fdt \/ fdt' = [fdt EXCEPT ![ProcOf(caller[c])][rd[c]] = None]
    BY DEF Reuse, CloseResult
  <2>2. fdt \in [Proc -> [Fd -> End \cup {None}]] /\ Root \in Proc
    BY DEF TypeOK, Proc
  <2> QED BY <2>1, <2>2
<1>1. CallerRestored' /\ ThreadInv'
  BY <1>a, ThreadsKept DEF Active
<1>2. OldsetInv'
  BY <1>a, OldsetKept DEF HasPipe
<1>3. RootInv'
  BY <1>a, <1>b, RootKept DEF HasPipe
<1> QED BY <1>1, <1>2, <1>3 DEF CallerInv

(* Inside aspawn only a thread about to return has cancellation enabled.   *)
LEMMA CancelCaller ==
  ASSUME IInv, CallerInv, NEW t \in Thread, Cancel(t)
  PROVE  CallerInv'
<1> USE DEF IInv, StackInv
<1>a. UNCHANGED <<pc, caller, rd, wr, result, oldset, oldstate, fdt, mask,
                  cancel, cpc>>
  BY DEF Cancel, frame
<1>1. CallerRestored'
  BY <1>a DEF CallerInv, CallerRestored, InCall
<1>2. ThreadInv'
  BY <1>a DEF CallerInv, ThreadInv, Active, Cancel
<1>3. OldsetInv'
  BY <1>a, OldsetKept DEF HasPipe
<1>4. RootInv'
  BY <1>a, RootKept DEF HasPipe
<1> QED BY <1>1, <1>2, <1>3, <1>4 DEF CallerInv
-----------------------------------------------------------------------------
LEMMA InitCallerInv == Init => CallerInv
<1> SUFFICES ASSUME Init PROVE CallerInv
  OBVIOUS
<1> USE ConstantsAssumption DEF Init
<1>1. CallerRestored
  BY DEF CallerRestored, Caller
<1>2. ThreadInv /\ OldsetInv
  BY DEF ThreadInv, OldsetInv, Active, HasPipe
<1>3. RootInv
  BY DEF RootInv, Proc, End
<1> QED BY <1>1, <1>2, <1>3 DEF CallerInv

LEMMA NextCallerInv == IInv /\ CallerInv /\ [Next]_vars => CallerInv'
<1> SUFFICES ASSUME IInv, CallerInv, [Next]_vars PROVE CallerInv'
  OBVIOUS
<1>1. ASSUME NEW t \in Thread, NEW c \in Call, NEW s \in Stack, Aspawn(t, c, s)
      PROVE  CallerInv'
  BY <1>1, AspawnCaller
<1>2. ASSUME NEW p \in Call, NEW c \in Call, NEW s \in Stack, AspawnRec(p, c, s)
      PROVE  CallerInv'
  BY <1>2, AspawnRecCaller
<1>3. ASSUME NEW c \in Call, CallStep(c)
      PROVE  CallerInv'
  BY <1>3, SigBlockAllCaller, CreatePipeCaller, CloneCaller, CloseCaller,
     SigSetMaskCaller, RestoreCancelCaller, ReturnCaller DEF CallStep
<1>4. ASSUME NEW c \in Call,
             \/ ChildPrologue(c) \/ FnSetMask(c) \/ FnEnds(c) \/ Kill(c)
             \/ CloseOnExec(c) \/ ReleaseFds(c)
      PROVE  CallerInv'
  BY <1>4, ChildCaller
<1>5. ASSUME NEW c \in Call, Reuse(c) \/ CloseResult(c)
      PROVE  CallerInv'
  BY <1>5, ClientCaller
<1>6. ASSUME NEW t \in Thread, Cancel(t)
      PROVE  CallerInv'
  BY <1>6, CancelCaller
<1>7. CASE UNCHANGED vars
  <2> USE <1>7 DEF vars
  <2>1. CallerRestored' /\ ThreadInv'
    BY ThreadsKept DEF Active
  <2>2. OldsetInv'
    BY OldsetKept DEF HasPipe
  <2>3. RootInv'
    BY RootKept DEF HasPipe
  <2> QED BY <2>1, <2>2, <2>3 DEF CallerInv
<1> QED BY <1>1, <1>2, <1>3, <1>4, <1>5, <1>6, <1>7 DEF Next

LEMMA CallerInvHolds == Spec => [](IInv /\ CallerInv)
<1>1. Init => IInv /\ CallerInv
  BY InitIInv, InitCallerInv
<1>2. IInv /\ CallerInv /\ [Next]_vars => IInv' /\ CallerInv'
  BY NextIInv, NextCallerInv
<1> QED BY <1>1, <1>2, PTL DEF Spec
-----------------------------------------------------------------------------
(* Whichever of its system calls failed, and however other threads, the    *)
(* children and cancellation interleave, a thread that has left aspawn has *)
(* the mask and the cancelability it came with.                            *)
THEOREM CallerGetsBack == Spec => []CallerRestored
<1>1. CallerInv => CallerRestored
  BY DEF CallerInv
<1> QED BY <1>1, CallerInvHolds, PTL

(* At any depth of aspawn_rec the old_sigset a child reads is the mask its *)
(* thread had before aspawn, or that of the call it descends from.         *)
THEOREM MaskIsHandedDown == Spec => []OriginalMask
<1>1. IInv /\ CallerInv => OriginalMask
  <2> SUFFICES ASSUME IInv, CallerInv, NEW c \in Call, InVm(c)
               PROVE  mem[stk[c]].oldset =
                        IF caller[c] \in Thread THEN InitMask[caller[c]]
                                                ELSE oldset[caller[c]]
    BY DEF OriginalMask
  <2>1. mem[stk[c]].oldset = oldset[c]
    <3>1. mem[stk[c]] = [call |-> c, rd |-> rd[c], wr |-> wr[c],
                         oldset |-> oldset[c]]
      BY DEF IInv, StackInv, ArgsInv
    <3> QED BY <3>1
  <2>2. cpc[c] # "none"
    BY DEF InVm
  <2>3. pc[c] # "idle" /\ caller[c] \in Caller
    BY <2>2 DEF IInv, StackInv, FrameInv
  <2> QED BY <2>1, <2>2, <2>3 DEF CallerInv, OldsetInv, Caller
<1> QED BY <1>1, CallerInvHolds, PTL

(* No error path, and no cancellation that aspawn holds off, leaves an end *)
(* of a pipe in the table of the process: only a call that succeeded keeps *)
(* its read end.                                                           *)
THEOREM NothingLeaks == Spec => []NoDescriptorLeak
<1>1. IInv /\ CallerInv => NoDescriptorLeak
  <2> SUFFICES ASSUME IInv, CallerInv, NEW c \in Call, NEW f \in Fd
               PROVE  LET inside == /\ pc[c] \notin {"idle", "return", "returned"}
                                    /\ caller[c] \in Thread \ dead
                      IN /\ fdt[Root][f] = <<c, "w">> => inside
                         /\ fdt[Root][f] = <<c, "r">> =>
                              \/ inside
                              \/ /\ pc[c] \in {"return", "returned"}
                                 /\ result[c] = "ok"
    BY DEF NoDescriptorLeak
  <2>1. Active(c) /\ caller[c] \in Thread /\ pc[c] # "return"
          => caller[c] \notin dead
    BY DEF CallerInv, ThreadInv
  <2>2. HasPipe(c) => Active(c) /\ pc[c] # "return"
    BY DEF HasPipe, Active
  <2> QED BY <2>1, <2>2 DEF CallerInv, RootInv, Active
<1> QED BY <1>1, CallerInvHolds, PTL
=============================================================================
