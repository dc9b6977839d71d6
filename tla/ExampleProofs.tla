--------------------------- MODULE ExampleProofs ---------------------------
(***************************************************************************)
(* What example/naive_example.c promises, for any number of jobs, any      *)
(* length of PATH, any message and pipe, and any memory: the stack is left *)
(* alone while a child uses it, every child has the stack that was asked   *)
(* for, the messages arrive in order, and the memory is given back.        *)
(***************************************************************************)
EXTENDS Example, SequenceTheorems, TLAPS

(* Where main is, and what has become of the children.                     *)
ControlTypeOK ==
  /\ ppc \in {"start", "reserve", "place", "spawn", "poll", "wait", "read",
              "cleanup", "done", "failed", "reported", "crashed"}
  /\ i \in Jobs
  /\ child \in [Jobs -> {"none", "find", "put", "prog",
                         "exit0", "exit1", "killed"}]

(* A child in fn is the one main polls for, unless main is gone.           *)
PolledFor == \A j \in Jobs : InFn(j) => (ppc = "poll" /\ i = j) \/ MainGone

(* Every action of main and of the children keeps these types.             *)
LEMMA ControlTypeKept == ControlTypeOK /\ [Next]_vars => ControlTypeOK'
<1> SUFFICES ASSUME ControlTypeOK, [Next]_vars PROVE ControlTypeOK'
  OBVIOUS
<1> USE ExampleAssumption DEF ControlTypeOK, Jobs, jobVars, stackVars
<1>1. CASE Start
  BY <1>1 DEF Start, Err
<1>2. CASE Reserve
  BY <1>2 DEF Reserve
<1>3. CASE PlaceArgs
  BY <1>3 DEF PlaceArgs
<1>4. CASE Spawn
  BY <1>4 DEF Spawn, Err
<1>5. CASE Poll
  BY <1>5 DEF Poll, NextJob
<1>6. CASE Wait
  BY <1>6 DEF Wait
<1>7. CASE Read
  BY <1>7 DEF Read, NextJob
<1>8. CASE Cleanup
  BY <1>8 DEF Cleanup
<1>9. ASSUME NEW j \in Jobs, FnRuns(j) PROVE ControlTypeOK'
  BY <1>9 DEF FnRuns, ChildBecomes
<1>10. ASSUME NEW j \in Jobs, Put(j) PROVE ControlTypeOK'
  BY <1>10 DEF Put
<1>11. ASSUME NEW j \in Jobs, PutReturns(j) PROVE ControlTypeOK'
  BY <1>11 DEF PutReturns, ChildBecomes
<1>12. ASSUME NEW j \in Jobs, ProgEnds(j) PROVE ControlTypeOK'
  BY <1>12 DEF ProgEnds, ChildBecomes
<1>13. ASSUME NEW j \in Jobs, Kill(j) PROVE ControlTypeOK'
  BY <1>13 DEF Kill, ChildBecomes
<1>14. CASE Interrupted
  BY <1>14 DEF Interrupted, Err
<1>15. CASE UNCHANGED vars
  BY <1>15 DEF vars
<1> QED
  BY <1>1, <1>2, <1>3, <1>4, <1>5, <1>6, <1>7, <1>8, <1>9, <1>10, <1>11,
     <1>12, <1>13, <1>14, <1>15 DEF Next, MainStep, ChildStep, Fault

(* Only poll lets main go on, and only when its child has left fn.         *)
LEMMA PolledForKept == ControlTypeOK /\ PolledFor /\ [Next]_vars => PolledFor'
<1> SUFFICES ASSUME ControlTypeOK, PolledFor, [Next]_vars PROVE PolledFor'
  OBVIOUS
<1> USE DEF ControlTypeOK, PolledFor, InFn, MainGone, jobVars
<1>1. CASE Start
  BY <1>1 DEF Start, Err
<1>2. CASE Reserve
  BY <1>2 DEF Reserve
<1>3. CASE PlaceArgs
  BY <1>3 DEF PlaceArgs
<1>4. CASE Spawn
  BY <1>4 DEF Spawn, Err
<1>5. CASE Poll
  BY <1>5 DEF Poll, NextJob
<1>6. CASE Wait
  BY <1>6 DEF Wait
<1>7. CASE Read
  BY <1>7 DEF Read, NextJob
<1>8. CASE Cleanup
  BY <1>8 DEF Cleanup
<1>9. ASSUME NEW j \in Jobs, FnRuns(j) PROVE PolledFor'
  BY <1>9 DEF FnRuns, ChildBecomes
<1>10. ASSUME NEW j \in Jobs, Put(j) PROVE PolledFor'
  BY <1>10 DEF Put
<1>11. ASSUME NEW j \in Jobs, PutReturns(j) PROVE PolledFor'
  BY <1>11 DEF PutReturns, ChildBecomes
<1>12. ASSUME NEW j \in Jobs, ProgEnds(j) PROVE PolledFor'
  BY <1>12 DEF ProgEnds, ChildBecomes
<1>13. ASSUME NEW j \in Jobs, Kill(j) PROVE PolledFor'
  BY <1>13 DEF Kill, ChildBecomes
<1>14. CASE Interrupted
  BY <1>14 DEF Interrupted, Err
<1>15. CASE UNCHANGED vars
  BY <1>15 DEF vars
<1> QED
  BY <1>1, <1>2, <1>3, <1>4, <1>5, <1>6, <1>7, <1>8, <1>9, <1>10, <1>11,
     <1>12, <1>13, <1>14, <1>15 DEF Next, MainStep, ChildStep, Fault

(* The jobs from i on have no child yet.                                   *)
NotYetSpawned ==
  /\ ppc \in {"start", "reserve", "place", "spawn"} =>
       \A j \in Jobs : j >= i => child[j] = "none"
  /\ ppc = "poll" => \A j \in Jobs : j > i => child[j] = "none"

(* Spawn takes the jobs in order.                                          *)
LEMMA NotYetSpawnedKept ==
  ControlTypeOK /\ NotYetSpawned /\ [Next]_vars => NotYetSpawned'
<1> SUFFICES ASSUME ControlTypeOK, NotYetSpawned, [Next]_vars
             PROVE  NotYetSpawned'
  OBVIOUS
<1> USE ExampleAssumption DEF ControlTypeOK, NotYetSpawned, jobVars, Jobs
<1>1. CASE Start
  BY <1>1 DEF Start, Err
<1>2. CASE Reserve
  BY <1>2 DEF Reserve
<1>3. CASE PlaceArgs
  BY <1>3 DEF PlaceArgs
<1>4. CASE Spawn
  BY <1>4 DEF Spawn, Err
<1>5. CASE Poll
  BY <1>5 DEF Poll, NextJob
<1>6. CASE Wait
  BY <1>6 DEF Wait
<1>7. CASE Read
  BY <1>7 DEF Read, NextJob
<1>8. CASE Cleanup
  BY <1>8 DEF Cleanup
<1>9. ASSUME NEW j \in Jobs, FnRuns(j) PROVE NotYetSpawned'
  BY <1>9 DEF FnRuns, ChildBecomes
<1>10. ASSUME NEW j \in Jobs, Put(j) PROVE NotYetSpawned'
  BY <1>10 DEF Put
<1>11. ASSUME NEW j \in Jobs, PutReturns(j) PROVE NotYetSpawned'
  BY <1>11 DEF PutReturns, ChildBecomes
<1>12. ASSUME NEW j \in Jobs, ProgEnds(j) PROVE NotYetSpawned'
  BY <1>12 DEF ProgEnds, ChildBecomes
<1>13. ASSUME NEW j \in Jobs, Kill(j) PROVE NotYetSpawned'
  BY <1>13 DEF Kill, ChildBecomes, InFn
<1>14. CASE Interrupted
  BY <1>14 DEF Interrupted, Err
<1>15. CASE UNCHANGED vars
  BY <1>15 DEF vars
<1> QED
  BY <1>1, <1>2, <1>3, <1>4, <1>5, <1>6, <1>7, <1>8, <1>9, <1>10, <1>11,
     <1>12, <1>13, <1>14, <1>15 DEF Next, MainStep, ChildStep, Fault

(* The three hold throughout.                                              *)
LEMMA ControlHolds == Spec => [](ControlTypeOK /\ PolledFor /\ NotYetSpawned)
<1>1. Init => ControlTypeOK /\ PolledFor /\ NotYetSpawned
  BY ExampleAssumption
     DEF Init, ControlTypeOK, PolledFor, NotYetSpawned, InFn, Jobs
<1> QED
  BY <1>1, ControlTypeKept, PolledForKept, NotYetSpawnedKept, PTL DEF Spec

(* Main never moves, carves or unmaps the stack under a child, however     *)
(* many jobs there are and whatever interrupts it: naive_example.c:109-128 *)
(* and :157.                                                               *)
THEOREM StackIsLeftAlone == Spec => StackLeftAlone
<1>1. PolledFor /\ [Next]_vars =>
        [(\E j \in Jobs : InFn(j)) => UNCHANGED stackVars]_vars
  <2> SUFFICES ASSUME PolledFor, Next, NEW j \in Jobs, InFn(j)
               PROVE  UNCHANGED stackVars
    OBVIOUS
  <2>1. ppc = "poll" \/ MainGone
    BY DEF PolledFor
  <2>2. ~Start /\ ~Reserve /\ ~PlaceArgs /\ ~Cleanup
    BY <2>1 DEF MainGone, Start, Reserve, PlaceArgs, Cleanup
  <2>3. CASE Spawn \/ Interrupted
    BY <2>3 DEF Spawn, Interrupted, Err
  <2>4. CASE Poll \/ Wait \/ Read
    BY <2>4 DEF Poll, Wait, Read
  <2>5. ASSUME NEW k \in Jobs, ChildStep(k) \/ Kill(k)
        PROVE  UNCHANGED stackVars
    BY <2>5 DEF ChildStep, FnRuns, Put, PutReturns, ProgEnds, Kill,
                ChildBecomes
  <2> QED BY <2>2, <2>3, <2>4, <2>5 DEF Next, MainStep, Fault
<1> QED BY <1>1, ControlHolds, PTL DEF Spec, StackLeftAlone
-----------------------------------------------------------------------------
(* The first n bytes of a message.                                         *)
FirstBytes(n) == [k \in 1 .. n |-> k]

(* What Min of FiniteSetsExt is for two numbers.                           *)
LEMMA MinOfTwo ==
  ASSUME NEW a \in Int, NEW b \in Int
  PROVE  Min({a, b}) \in Int /\ Min({a, b}) <= a /\ Min({a, b}) <= b
<1>1. \E x \in {a, b} : \A y \in {a, b} : x <= y
  <2>1. CASE a <= b
    BY <2>1
  <2>2. CASE b <= a
    BY <2>2
  <2> QED BY <2>1, <2>2
<1>2. Min({a, b}) \in {a, b} /\ \A y \in {a, b} : Min({a, b}) <= y
  BY <1>1 DEF Min
<1> QED BY <1>2

(* FirstBytes as a sequence.                                               *)
LEMMA FirstBytesFacts ==
  ASSUME NEW n \in Nat
  PROVE  /\ FirstBytes(n) \in Seq(Nat) /\ Len(FirstBytes(n)) = n
         /\ \A k \in 1 .. n : FirstBytes(n)[k] = k
         /\ FirstBytes(0) = <<>>
BY DEF FirstBytes

(* A write that continues where the last one ended.                        *)
LEMMA MoreBytes ==
  ASSUME NEW s \in Nat, NEW n \in Nat
  PROVE  FirstBytes(s) \o [k \in 1 .. n |-> s + k] = FirstBytes(s + n)
<1> DEFINE f == FirstBytes(s)
           g == [k \in 1 .. n |-> s + k]
           h == FirstBytes(s + n)
<1>1. f \in Seq(Nat) /\ Len(f) = s /\ \A k \in 1 .. s : f[k] = k
  BY FirstBytesFacts
<1>2. g \in Seq(Nat) /\ Len(g) = n /\ \A k \in 1 .. n : g[k] = s + k
  OBVIOUS
<1>3. h \in Seq(Nat) /\ Len(h) = s + n /\ \A k \in 1 .. s + n : h[k] = k
  BY FirstBytesFacts
<1> HIDE DEF f, g, h
<1>4. /\ f \o g \in Seq(Nat)
      /\ Len(f \o g) = s + n
      /\ \A k \in 1 .. s + n : (f \o g)[k] = IF k <= s THEN f[k] ELSE g[k - s]
  BY <1>1, <1>2, ConcatProperties
<1>5. \A k \in 1 .. s + n : (f \o g)[k] = h[k]
  BY <1>1, <1>2, <1>3, <1>4
<1>6. f \o g = h
  BY <1>3, <1>4, <1>5, SeqEqual
<1> QED BY <1>6 DEF f, g, h

(* The states of a child that has sent nothing.                            *)
Silent == {"none", "find", "prog", "exit0"}

(* A pipe holds what its child has sent so far, which is nothing unless    *)
(* fn has failed; main empties the pipe of a child that exited with 0, and *)
(* so one that was empty.                                                  *)
MessageInv ==
  /\ sent \in [Jobs -> 0 .. Message] /\ DOMAIN pipe = Jobs
  /\ pipe = [j \in Jobs |-> FirstBytes(sent[j])]
  /\ \A j \in Jobs :
       /\ sent[j] <= Capacity
       /\ child[j] \in Silent => sent[j] = 0
  /\ ppc = "read" => child[i] = "exit0"

(* Steps that leave the pipes alone and make no child silent.              *)
LEMMA MessageFrame ==
  ASSUME MessageInv, UNCHANGED <<sent, pipe>>,
         \A j \in Jobs : child'[j] \in Silent => child[j] \in Silent,
         ppc' = "read" => child'[i'] = "exit0"
  PROVE  MessageInv'
BY DEF MessageInv

(* Only Put adds to a pipe, and only Read takes from one.                  *)
LEMMA MessageKept ==
  ControlTypeOK /\ NotYetSpawned /\ MessageInv /\ [Next]_vars => MessageInv'
<1> SUFFICES ASSUME ControlTypeOK, NotYetSpawned, MessageInv, [Next]_vars
             PROVE  MessageInv'
  OBVIOUS
<1> USE DEF ControlTypeOK, jobVars
<1>0. ppc = "read" => child[i] = "exit0"
  BY DEF MessageInv
<1>1. CASE Start
  <2>1. UNCHANGED <<i, child, sent, pipe>> /\ ppc' \in {"failed", "reserve"}
    BY <1>1 DEF Start, Err
  <2> QED BY <2>1, MessageFrame
<1>2. CASE Reserve
  BY <1>0, <1>2, MessageFrame DEF Reserve
<1>3. CASE PlaceArgs
  BY <1>0, <1>3, MessageFrame DEF PlaceArgs
<1>4. CASE Spawn
  <2>1. child[i] = "none"
    BY <1>4, ExampleAssumption DEF Spawn, NotYetSpawned, Jobs
  <2> QED BY <1>0, <1>4, <2>1, MessageFrame DEF Spawn, Err, Silent
<1>5. CASE Poll
  BY <1>0, <1>5, MessageFrame DEF Poll, NextJob
<1>6. CASE Wait
  BY <1>0, <1>6, MessageFrame DEF Wait
<1>7. CASE Read
  <2>1. child[i] = "exit0" /\ i \in Jobs
    BY <1>0, <1>7 DEF Read
  <2>2. sent[i] = 0
    BY <2>1 DEF MessageInv, Silent
  <2>3. pipe[i] = <<>>
    BY <2>1, <2>2, FirstBytesFacts DEF MessageInv
  <2>4. pipe' = pipe
    BY <1>7, <2>3 DEF Read, MessageInv
  <2>5. ppc' # "read" \/ i' = i
    BY <1>7 DEF Read, NextJob
  <2> QED BY <2>1, <2>4, <2>5, <1>7, MessageFrame DEF Read
<1>8. CASE Cleanup
  BY <1>0, <1>8, MessageFrame DEF Cleanup
<1>9. ASSUME NEW j \in Jobs, FnRuns(j) PROVE MessageInv'
  BY <1>0, <1>9, MessageFrame DEF FnRuns, ChildBecomes, Silent
<1>10. ASSUME NEW j \in Jobs, Put(j) PROVE MessageInv'
  <2> DEFINE s == sent[j]
  <2>1. s \in Nat /\ s <= Message /\ s <= Capacity
    BY ExampleAssumption DEF MessageInv
  <2>2. pipe[j] = FirstBytes(s) /\ Len(pipe[j]) = s
    BY <2>1, FirstBytesFacts DEF MessageInv
  <2>3. child[j] = "put" /\ UNCHANGED <<ppc, i, child>>
    BY <1>10 DEF Put
  <2>4. PICK n \in 1 .. Min({Message - s, Capacity - s}) :
          /\ pipe' = [pipe EXCEPT ![j] = pipe[j] \o [k \in 1 .. n |-> s + k]]
          /\ sent' = [sent EXCEPT ![j] = s + n]
    BY <1>10, <2>2 DEF Put
  <2>5. n \in Nat /\ s + n \in 0 .. Message /\ s + n <= Capacity
    <3>1. Message - s \in Int /\ Capacity - s \in Int
      BY <2>1, ExampleAssumption
    <3> DEFINE m == Min({Message - s, Capacity - s})
    <3>2. m \in Int /\ m <= Message - s /\ m <= Capacity - s
      BY <3>1, MinOfTwo
    <3>3. n \in 1 .. m
      OBVIOUS
    <3> HIDE DEF s, m
    <3> QED BY <2>1, <3>2, <3>3, ExampleAssumption
  <2>6. pipe' = [pipe EXCEPT ![j] = FirstBytes(s + n)]
    BY <2>1, <2>2, <2>4, <2>5, MoreBytes
  <2>7. sent' \in [Jobs -> 0 .. Message] /\ DOMAIN pipe' = Jobs
    BY <2>4, <2>5 DEF MessageInv
  <2>8. \A k \in Jobs : sent'[k] = IF k = j THEN s + n ELSE sent[k]
    BY <2>4 DEF MessageInv
  <2>9. pipe' = [k \in Jobs |-> FirstBytes(sent'[k])]
    BY <2>6, <2>8 DEF MessageInv
  <2> HIDE DEF s
  <2> QED BY <1>0, <2>3, <2>5, <2>7, <2>8, <2>9 DEF MessageInv, Silent
<1>11. ASSUME NEW j \in Jobs, PutReturns(j) PROVE MessageInv'
  BY <1>0, <1>11, MessageFrame DEF PutReturns, ChildBecomes, Silent
<1>12. ASSUME NEW j \in Jobs, ProgEnds(j) PROVE MessageInv'
  BY <1>0, <1>12, MessageFrame DEF ProgEnds, ChildBecomes, Silent
<1>13. ASSUME NEW j \in Jobs, Kill(j) PROVE MessageInv'
  BY <1>0, <1>13, MessageFrame DEF Kill, ChildBecomes, InFn, Silent
<1>14. CASE Interrupted
  BY <1>0, <1>14, MessageFrame DEF Interrupted, Err
<1>15. CASE UNCHANGED vars
  BY <1>0, <1>15, MessageFrame DEF vars
<1> QED
  BY <1>1, <1>2, <1>3, <1>4, <1>5, <1>6, <1>7, <1>8, <1>9, <1>10, <1>11,
     <1>12, <1>13, <1>14, <1>15 DEF Next, MainStep, ChildStep, Fault

(* MessageInv holds throughout.                                            *)
LEMMA MessageHolds == Spec => []MessageInv
<1>1. Init => MessageInv
  BY FirstBytesFacts, ExampleAssumption DEF Init, MessageInv
<1> QED BY <1>1, ControlHolds, MessageKept, PTL DEF Spec

(* However the kernel splits the writes of psys_put_impl, and whatever     *)
(* else main and the other children do, a pipe holds the beginning of its  *)
(* child's message: naive_example.c:38-47 and :145-154.                    *)
THEOREM MessagesArriveInOrder == Spec => []MessageInOrder
<1>1. MessageInv => MessageInOrder
  BY DEF MessageInv, MessageInOrder, FirstBytes
<1> QED BY <1>1, MessageHolds, PTL
-----------------------------------------------------------------------------
(* What reserve_stack computes, and what main places on the stack.         *)
StackLen == S!StackSize(ReservedSz, PathSz)
ObjSz == ArgsHead + PathSz

(* Arithmetic modulo SizeMod is the identity on values that fit.           *)
LEMMA ModSmall ==
  ASSUME NEW m \in Nat \ {0}, NEW x \in Nat, x < m
  PROVE  x % m = x
OBVIOUS

(* Division with remainder.                                                *)
LEMMA DivMod ==
  ASSUME NEW P \in Nat \ {0}, NEW x \in Nat
  PROVE  /\ x \div P \in Nat /\ x % P \in 0 .. P - 1
         /\ x = (x \div P) * P + (x % P)
OBVIOUS

(* The quotient is determined by its bounds.                               *)
LEMMA DivUnique ==
  ASSUME NEW P \in Nat \ {0}, NEW k \in Nat, NEW x \in Nat,
         k * P <= x, x < k * P + P
  PROVE  x \div P = k
<1> DEFINE q == x \div P
           r == x % P
<1>1. q \in Nat /\ r \in 0 .. P - 1 /\ x = q * P + r
  BY DivMod
<1> HIDE DEF q, r
<1>2. q * P \in Nat /\ k * P \in Nat
  BY <1>1
<1>3. ASSUME q >= k + 1 PROVE FALSE
  <2>1. q * P >= (k + 1) * P /\ (k + 1) * P = k * P + P
    BY <1>1, <1>3
  <2> QED BY <1>1, <1>2, <2>1
<1>4. ASSUME k >= q + 1 PROVE FALSE
  <2>1. k * P >= (q + 1) * P /\ (q + 1) * P = q * P + P
    BY <1>1, <1>4
  <2> QED BY <1>1, <1>2, <2>1
<1>5. q = k
  BY <1>1, <1>3, <1>4
<1> QED BY <1>5 DEF q

(* align rounds up to whole pages.                                         *)
LEMMA AlignFacts ==
  ASSUME NEW sz \in Nat, sz + PageSz <= SizeMod
  PROVE  /\ S!Align(sz) \in sz .. sz + PageSz - 1
         /\ sz % PageSz # 0 => S!Align(sz) = sz + PageSz - (sz % PageSz)
         /\ \E k \in Nat : S!Align(sz) = k * PageSz
<1> USE ExampleAssumption
<1> DEFINE q == sz \div PageSz
           r == sz % PageSz
           x == sz + (IF r # 0 THEN PageSz - r ELSE 0)
<1>1. q \in Nat /\ r \in 0 .. PageSz - 1 /\ sz = q * PageSz + r
  BY DivMod
<1>2. S!Align(sz) = x % SizeMod
  BY DEF S!Align
<1> HIDE DEF q, r
<1>3. x \in sz .. sz + PageSz - 1
  BY <1>1
<1>4. x % SizeMod = x
  <2> HIDE DEF x
  <2> QED BY <1>3, ModSmall
<1>5. CASE r = 0
  <2>1. x = q * PageSz
    BY <1>1, <1>5
  <2> QED BY <1>1, <1>2, <1>3, <1>4, <1>5, <2>1 DEF r
<1>6. CASE r # 0
  <2>1. x = (q + 1) * PageSz
    <3>1. (q + 1) * PageSz = q * PageSz + PageSz
      BY <1>1
    <3>2. x = q * PageSz + PageSz
      BY <1>1, <1>6
    <3> QED BY <3>1, <3>2
  <2>2. x = sz + PageSz - r
    BY <1>6
  <2>3. q + 1 \in Nat
    BY <1>1
  <2> HIDE DEF x
  <2> QED BY <1>2, <1>3, <1>4, <2>1, <2>2, <2>3 DEF r
<1> QED BY <1>5, <1>6

(* The stack has room for struct Args, which main did not reserve: it lies *)
(* in what align adds to PATH_MAX + 1 + 32 KiB.                            *)
LEMMA StackLenFacts ==
  /\ StackLen \in 0 .. SizeMod - 1
  /\ StackLen - ObjSz - ArgsSz >= ReservedSz + Extra
  /\ \E k \in Nat : StackLen = k * PageSz
<1> USE ExampleAssumption
<1> DEFINE a == ReservedSz + Extra
           b == PathSz + ArgsSz
           c == S!Align(a)
<1>1. a \in Nat /\ b \in Nat /\ a + b + 2 * PageSz <= SizeMod
  <2>1. S!Needed(ReservedSz, PathSz) + 2 * PageSz <= SizeMod
    BY SizesAssumption DEF S!NoWrap
  <2> QED BY <2>1 DEF S!Needed, ReservedSz
<1>2. StackLen = S!Align((S!Align(a % SizeMod) + (b % SizeMod)) % SizeMod)
  BY DEF StackLen, S!StackSize
<1>3. a % PageSz \in 1 .. PageSz - ArgsHead
  BY SizesAssumption
<1>4. ReservedSz + Extra = a /\ ObjSz + ArgsSz = ArgsHead + b
  BY DEF ObjSz, ArgsHead
<1> HIDE DEF a, b
<1>5. a % SizeMod = a /\ b % SizeMod = b
  BY <1>1, ModSmall
<1>6. c \in a .. a + PageSz - 1 /\ c = a + PageSz - (a % PageSz)
  BY <1>1, <1>3, AlignFacts DEF ArgsHead
<1>7. c >= a + ArgsHead
  BY <1>1, <1>3, <1>6 DEF ArgsHead
<1>8. StackLen = S!Align((c + b) % SizeMod)
  BY <1>2, <1>5
<1> HIDE DEF c
<1>9. c + b \in Nat /\ c + b < SizeMod /\ c + b + PageSz <= SizeMod
  BY <1>1, <1>6
<1>10. StackLen = S!Align(c + b)
  BY <1>8, <1>9, ModSmall
<1>11. /\ StackLen \in c + b .. c + b + PageSz - 1
       /\ \E k \in Nat : StackLen = k * PageSz
  BY <1>9, <1>10, AlignFacts
<1>12. StackLen \in 0 .. SizeMod - 1
  BY <1>1, <1>9, <1>11
<1>13. StackLen - ArgsHead - b >= a
  BY <1>1, <1>6, <1>7, <1>11 DEF ArgsHead
<1> QED BY <1>1, <1>4, <1>11, <1>12, <1>13 DEF ArgsHead, ObjSz

(* A size that is short of the stack by less than a page has its pages.    *)
LEMMA SamePages ==
  ASSUME NEW a \in Nat, NEW s \in Nat, s <= StackLen, StackLen < s + PageSz
  PROVE  S!Pages(a, s) = S!Pages(a, StackLen)
<1> USE ExampleAssumption
<1>1. PICK k \in Nat : StackLen = k * PageSz
  BY StackLenFacts
<1>2. StackLen \in Nat /\ k * PageSz \in Nat
  BY <1>1
<1>3. (s + PageSz - 1) \div PageSz = k
  <2>1. k * PageSz <= s + PageSz - 1 /\ s + PageSz - 1 < k * PageSz + PageSz
    BY <1>1, <1>2
  <2>2. s + PageSz - 1 \in Nat
    OBVIOUS
  <2> QED BY <2>1, <2>2, DivUnique
<1>4. (StackLen + PageSz - 1) \div PageSz = k
  <2>1. /\ k * PageSz <= StackLen + PageSz - 1
        /\ StackLen + PageSz - 1 < k * PageSz + PageSz
    BY <1>1, <1>2
  <2>2. StackLen + PageSz - 1 \in Nat
    BY <1>2
  <2> QED BY <2>1, <2>2, DivUnique
<1> QED BY <1>3, <1>4 DEF S!Pages
-----------------------------------------------------------------------------
(* The fields of struct Stack_t.                                           *)
StructOK == addr \in Nat /\ size \in 0 .. SizeMod - 1

(* The struct after a successful mmap or mremap.                           *)
LEMMA PlaceFacts ==
  ASSUME NEW a \in Nat, S!Place(a, StackLen)
  PROVE  StructOK' /\ addr' = a /\ size' = StackLen
BY StackLenFacts DEF S!Place, StructOK

(* What main finds after reserve_stack: on success, enough.                *)
LEMMA ReserveFacts ==
  ASSUME StructOK, Reserve
  PROVE  StructOK' /\ (ample => size' >= StackLen)
<1> USE ExampleAssumption
<1>1. /\ S!ReserveStack(ReservedSz, PathSz) /\ (ample => ret' = "ok")
  BY DEF Reserve
<1>2. CASE size >= StackLen /\ UNCHANGED <<addr, size>>
  BY <1>2 DEF StructOK
<1>3. CASE S!Resize(StackLen)
  <2>1. PICK a \in Nat : S!Place(a, StackLen)
    <3>1. CASE S!Place(addr, StackLen)
      BY <3>1 DEF StructOK
    <3>2. ASSUME NEW p \in Memory, S!Place(p * PageSz, StackLen)
          PROVE  \E a \in Nat : S!Place(a, StackLen)
      <4>1. p * PageSz \in Nat
        OBVIOUS
      <4> QED BY <3>2, <4>1
    <3> QED BY <1>3, <3>1, <3>2 DEF S!Resize, S!Mremap, S!Mmap
  <2>2. StructOK' /\ size' = StackLen
    BY <2>1, PlaceFacts
  <2>3. StackLen \in Int
    BY StackLenFacts
  <2> QED BY <2>2, <2>3
<1>4. CASE S!Fails
  BY <1>1, <1>4 DEF S!Fails, StructOK
<1> QED BY <1>1, <1>2, <1>3, <1>4 DEF S!ReserveStack, StackLen

(* allocate_obj_on_stack.                                                  *)
LEMMA CarveFacts ==
  ASSUME StructOK, S!Carve(ObjSz)
  PROVE  /\ StructOK' /\ addr' = addr /\ mapped' = mapped
         /\ size >= ObjSz => size' = size - ObjSz
<1> USE ExampleAssumption
<1>1. ObjSz \in Nat
  BY DEF ObjSz, ArgsHead
<1>2. size' = (size - ObjSz) % SizeMod /\ addr' = addr /\ mapped' = mapped
  BY DEF S!Carve
<1>3. size \in Int /\ size < SizeMod
  BY DEF StructOK
<1>4. (size - ObjSz) % SizeMod \in 0 .. SizeMod - 1
  BY <1>1, <1>3
<1>5. ASSUME size >= ObjSz PROVE (size - ObjSz) % SizeMod = size - ObjSz
  BY <1>1, <1>3, <1>5, ModSmall
<1> QED BY <1>2, <1>4, <1>5 DEF StructOK

(* How much stack there is at each step of main, and so for each child.    *)
RoomInv ==
  /\ StructOK
  /\ room \in [Jobs -> Int]
  /\ ample => /\ ppc = "place" => size >= StackLen
              /\ ppc = "spawn" => size >= StackLen - ObjSz
              /\ \A j \in Jobs : InFn(j) => room[j] >= ReservedSz + Extra

(* Steps that leave the struct and the children in fn as they are.         *)
LEMMA RoomFrame ==
  ASSUME RoomInv, UNCHANGED <<addr, size, room, ample>>,
         ppc' \notin {"place", "spawn"} \/ ppc' = ppc,
         \A j \in Jobs : InFn(j)' => InFn(j)
  PROVE  RoomInv'
BY DEF RoomInv, StructOK

(* reserve_stack makes up what allocate_obj_on_stack has taken.            *)
LEMMA RoomKept == ControlTypeOK /\ RoomInv /\ [Next]_vars => RoomInv'
<1> SUFFICES ASSUME ControlTypeOK, RoomInv, [Next]_vars PROVE RoomInv'
  OBVIOUS
<1> USE DEF ControlTypeOK, jobVars, stackVars, InFn
<1>0. UNCHANGED ample
  BY DEF Next, MainStep, ChildStep, Fault, vars
<1>1. CASE Start
  <2>1. UNCHANGED <<child, room>> /\ ppc' \in {"failed", "reserve"}
    BY <1>1 DEF Start, Err
  <2>2. UNCHANGED <<addr, size>> \/ (addr' = 0 /\ size' = 0)
    BY <1>1 DEF Start, Err, S!InitCachedStack
  <2>3. StructOK'
    BY <2>2, ExampleAssumption DEF RoomInv, StructOK
  <2> QED BY <1>0, <2>1, <2>3 DEF RoomInv, InFn
<1>2. CASE Reserve
  <2>1. UNCHANGED <<child, room>> /\ ppc' = "place"
    BY <1>2 DEF Reserve
  <2>2. StructOK' /\ (ample => size' >= StackLen)
    BY <1>2, ReserveFacts DEF RoomInv
  <2> QED BY <1>0, <2>1, <2>2 DEF RoomInv, InFn
<1>3. CASE PlaceArgs
  <2>1. UNCHANGED <<child, room>>
    BY <1>3 DEF PlaceArgs
  <2>2. CASE ppc' = "spawn" /\ S!Carve(ObjSz)
    <3>1. StructOK' /\ (size >= ObjSz => size' = size - ObjSz)
      BY <2>2, CarveFacts DEF RoomInv
    <3>2. ample => size >= StackLen
      BY <1>3 DEF PlaceArgs, RoomInv
    <3>3. /\ StackLen \in Int /\ StackLen >= ObjSz
          /\ ObjSz \in Int /\ size \in Int
      BY StackLenFacts, ExampleAssumption
         DEF ObjSz, ArgsHead, ReservedSz, RoomInv, StructOK
    <3>4. ample => size' >= StackLen - ObjSz
      BY <3>1, <3>2, <3>3
    <3> QED BY <1>0, <2>1, <2>2, <3>1, <3>4 DEF RoomInv, InFn
  <2>3. CASE ppc' = "crashed" /\ UNCHANGED stackVars
    BY <1>0, <2>1, <2>3, RoomFrame
  <2> QED BY <1>3, <2>2, <2>3 DEF PlaceArgs, ObjSz
<1>4. CASE Spawn
  <2>1. CASE Err
    BY <1>0, <2>1, RoomFrame DEF Err
  <2>2. CASE /\ child' = [child EXCEPT ![i] = "find"]
             /\ room' = [room EXCEPT ![i] = size - ArgsSz]
             /\ ppc' = "poll" /\ UNCHANGED stackVars
    <3>1. StructOK' /\ size \in Int /\ size - ArgsSz \in Int
      BY <2>2, ExampleAssumption DEF RoomInv, StructOK
    <3>2. room' \in [Jobs -> Int]
      BY <2>2, <3>1 DEF RoomInv
    <3>3. ample => size - ArgsSz >= ReservedSz + Extra
      <4>1. ample => size >= StackLen - ObjSz
        BY <1>4 DEF Spawn, RoomInv
      <4>2. /\ StackLen \in Int /\ ObjSz \in Int
            /\ StackLen - ObjSz - ArgsSz >= ReservedSz + Extra
        BY StackLenFacts, ExampleAssumption DEF ObjSz, ArgsHead
      <4> QED BY <3>1, <4>1, <4>2, ExampleAssumption DEF ReservedSz
    <3>4. ample => \A j \in Jobs : InFn(j)' => room'[j] >= ReservedSz + Extra
      BY <2>2, <3>3 DEF RoomInv, InFn
    <3> QED BY <1>0, <2>2, <3>1, <3>2, <3>4 DEF RoomInv
  <2> QED BY <1>4, <2>1, <2>2 DEF Spawn
<1>5. CASE Poll
  BY <1>0, <1>5, RoomFrame DEF Poll, NextJob
<1>6. CASE Wait
  BY <1>0, <1>6, RoomFrame DEF Wait
<1>7. CASE Read
  BY <1>0, <1>7, RoomFrame DEF Read, NextJob
<1>8. CASE Cleanup
  BY <1>0, <1>8, RoomFrame DEF Cleanup, S!CleanupStack, S!Fails
<1>9. ASSUME NEW j \in Jobs, FnRuns(j) PROVE RoomInv'
  BY <1>0, <1>9, RoomFrame DEF FnRuns, ChildBecomes
<1>10. ASSUME NEW j \in Jobs, Put(j) PROVE RoomInv'
  BY <1>0, <1>10, RoomFrame DEF Put
<1>11. ASSUME NEW j \in Jobs, PutReturns(j) PROVE RoomInv'
  BY <1>0, <1>11, RoomFrame DEF PutReturns, ChildBecomes
<1>12. ASSUME NEW j \in Jobs, ProgEnds(j) PROVE RoomInv'
  BY <1>0, <1>12, RoomFrame DEF ProgEnds, ChildBecomes
<1>13. ASSUME NEW j \in Jobs, Kill(j) PROVE RoomInv'
  BY <1>0, <1>13, RoomFrame DEF Kill, ChildBecomes
<1>14. CASE Interrupted
  BY <1>0, <1>14, RoomFrame DEF Interrupted, Err
<1>15. CASE UNCHANGED vars
  BY <1>0, <1>15, RoomFrame DEF vars
<1> QED
  BY <1>1, <1>2, <1>3, <1>4, <1>5, <1>6, <1>7, <1>8, <1>9, <1>10, <1>11,
     <1>12, <1>13, <1>14, <1>15 DEF Next, MainStep, ChildStep, Fault

(* RoomInv holds throughout.                                               *)
LEMMA RoomHolds == Spec => []RoomInv
<1>1. Init => RoomInv
  BY ExampleAssumption DEF Init, RoomInv, StructOK, InFn, S!Init
<1> QED BY <1>1, ControlHolds, RoomKept, PTL DEF Spec

(* Every child has PATH_MAX + 1 + 32 KiB of stack below its argument       *)
(* block, for any number of jobs, any PATH and wherever the kernel moves   *)
(* the stack, although main places sizeof(struct Args) more than it        *)
(* reserved and reserves again and again: naive_example.c:109-116.         *)
THEOREM ChildrenHaveStack == Spec => []ChildHasStack
<1>1. RoomInv => ChildHasStack
  BY DEF RoomInv, ChildHasStack
<1> QED BY <1>1, RoomHolds, PTL

(* Type correctness of Example: the loops stay in bounds, psys_put_impl    *)
(* never writes beyond the message, no pipe overflows.                     *)
THEOREM ExampleTypeCorrect == Spec => []ExampleTypeOK
<1>1. ControlTypeOK /\ MessageInv /\ RoomInv => ExampleTypeOK
  <2> SUFFICES ASSUME ControlTypeOK, MessageInv, RoomInv
               PROVE  pipe \in [Jobs -> UNION {[1 .. n -> 1 .. Message] :
                                               n \in 0 .. Capacity}]
    BY DEF ControlTypeOK, MessageInv, RoomInv, ExampleTypeOK
  <2>1. ASSUME NEW j \in Jobs
        PROVE  pipe[j] \in UNION {[1 .. n -> 1 .. Message] :
                                     n \in 0 .. Capacity}
    <3>1. sent[j] \in 0 .. Capacity /\ sent[j] <= Message
      BY ExampleAssumption DEF MessageInv
    <3>2. pipe[j] \in [1 .. sent[j] -> 1 .. Message]
      BY <3>1, ExampleAssumption DEF MessageInv, FirstBytes
    <3> QED BY <3>1, <3>2
  <2> QED BY <2>1 DEF MessageInv
<1> QED BY <1>1, ControlHolds, MessageHolds, RoomHolds, PTL
-----------------------------------------------------------------------------
(* The mapping is what reserve_stack asked for, the recorded size is s.    *)
Held(s) == addr # 0 /\ size = s /\ mapped = S!Pages(addr, StackLen)

(* What is mapped at each step of main.                                    *)
HeldInv ==
  ample => /\ ppc \in {"start", "done"} => mapped = {}
           /\ ppc = "reserve" =>
                (addr = 0 /\ mapped = {}) \/ Held(StackLen - ObjSz)
           /\ ppc = "place" => Held(StackLen)
           /\ ppc \in {"spawn", "poll", "wait", "read", "cleanup"} =>
                Held(StackLen - ObjSz)

(* The sizes are numbers.                                                  *)
LEMMA ObjFacts == ObjSz \in Nat /\ ObjSz > 0 /\ StackLen \in Nat
BY StackLenFacts, ExampleAssumption DEF ObjSz, ArgsHead

(* The size that allocate_obj_on_stack leaves still covers all pages.      *)
LEMMA ShortPages ==
  ASSUME ObjSz < PageSz, NEW a \in Nat
  PROVE  /\ S!Pages(a, StackLen - ObjSz) = S!Pages(a, StackLen)
         /\ StackLen - ObjSz # 0 /\ StackLen - ObjSz < StackLen
<1>1. StackLen - ObjSz \in Nat /\ StackLen - ObjSz > 0
  BY ObjFacts, StackLenFacts, ExampleAssumption DEF ReservedSz
<1>2. StackLen - ObjSz < StackLen /\ StackLen < (StackLen - ObjSz) + PageSz
  BY ObjFacts, ExampleAssumption
<1> QED BY <1>1, <1>2, ObjFacts, SamePages

(* mmap gives the first job its stack; mremap gives every later one the    *)
(* same pages, since the recorded size is short of them by less than one.  *)
LEMMA ReserveHolds ==
  ASSUME ObjSz < PageSz, RoomInv, HeldInv, Reserve, ample
  PROVE  Held(StackLen)'
<1> USE ExampleAssumption
<1>1. /\ S!ReserveStack(ReservedSz, PathSz) /\ ret' = "ok" /\ ppc = "reserve"
  BY DEF Reserve
<1>2. (addr = 0 /\ mapped = {}) \/ Held(StackLen - ObjSz)
  BY <1>1 DEF HeldInv
<1>3. addr = 0 \/ size < StackLen
  BY <1>2, ShortPages DEF Held, RoomInv, StructOK
<1>4. S!Resize(StackLen)
  <2>1. ~(addr # 0 /\ size >= StackLen)
    BY <1>3, ObjFacts DEF RoomInv, StructOK
  <2>2. ~S!Fails
    BY <1>1 DEF S!Fails
  <2> QED BY <1>1, <2>1, <2>2 DEF S!ReserveStack, StackLen
<1>5. CASE addr = 0 /\ mapped = {}
  <2>1. PICK p \in Memory :
          /\ mapped' = mapped \cup S!Pages(p * PageSz, StackLen)
          /\ S!Place(p * PageSz, StackLen)
    BY <1>4, <1>5 DEF S!Resize, S!Mmap
  <2>2. p * PageSz \in Nat /\ p * PageSz # 0
    BY SMT
  <2>3. addr' = p * PageSz /\ size' = StackLen
    BY <2>1 DEF S!Place
  <2> QED BY <1>5, <2>1, <2>2, <2>3 DEF Held
<1>6. CASE Held(StackLen - ObjSz)
  <2>1. addr # 0 /\ S!Pages(addr, size) = S!Pages(addr, StackLen)
    BY <1>6, ShortPages DEF Held, RoomInv, StructOK
  <2>2. /\ mapped' = mapped \cup S!Pages(addr, StackLen)
        /\ S!Place(addr, StackLen)
    BY <1>4, <2>1 DEF S!Resize, S!Mremap
  <2> QED BY <1>6, <2>1, <2>2 DEF Held, S!Place
<1> QED BY <1>2, <1>5, <1>6

(* The pages stay the same from the first job to cleanup_stack.            *)
LEMMA HeldKept ==
  ASSUME ObjSz < PageSz
  PROVE  RoomInv /\ HeldInv /\ [Next]_vars => HeldInv'
<1> SUFFICES ASSUME RoomInv, HeldInv, [Next]_vars PROVE HeldInv'
  OBVIOUS
<1> USE DEF stackVars
<1>0. UNCHANGED ample
  BY DEF Next, MainStep, ChildStep, Fault, vars
<1>1. CASE Start
  BY <1>0, <1>1 DEF Start, Err, S!InitCachedStack, HeldInv
<1>2. CASE Reserve
  BY <1>0, <1>2, ReserveHolds DEF Reserve, HeldInv
<1>3. CASE PlaceArgs
  <2> SUFFICES ASSUME ample, ppc' = "spawn" PROVE Held(StackLen - ObjSz)'
    BY <1>0, <1>3 DEF PlaceArgs, HeldInv
  <2>1. Held(StackLen) /\ S!Carve(ObjSz)
    BY <1>3 DEF PlaceArgs, HeldInv, ObjSz
  <2>2. StackLen >= ObjSz
    BY ObjFacts, StackLenFacts, ExampleAssumption DEF ReservedSz
  <2>3. addr' = addr /\ mapped' = mapped /\ size' = StackLen - ObjSz
    BY <2>1, <2>2, CarveFacts DEF Held, RoomInv
  <2> QED BY <2>1, <2>3 DEF Held
<1>4. CASE Spawn
  BY <1>0, <1>4 DEF Spawn, Err, HeldInv, Held
<1>5. CASE Poll
  BY <1>0, <1>5 DEF Poll, NextJob, HeldInv, Held
<1>6. CASE Wait
  BY <1>0, <1>6 DEF Wait, HeldInv, Held
<1>7. CASE Read
  BY <1>0, <1>7 DEF Read, NextJob, HeldInv, Held
<1>8. CASE Cleanup
  <2> SUFFICES ASSUME ample, ret' = "ok" PROVE mapped' = {}
    BY <1>0, <1>8 DEF Cleanup, HeldInv
  <2>1. Held(StackLen - ObjSz) /\ S!CleanupStack
    BY <1>8 DEF Cleanup, HeldInv
  <2>2. S!Pages(addr, size) = mapped /\ size # 0
    BY <2>1, ShortPages DEF Held, RoomInv, StructOK
  <2> QED BY <2>1, <2>2 DEF S!CleanupStack, S!Fails, Held
<1>9. ASSUME NEW j \in Jobs, FnRuns(j) PROVE HeldInv'
  BY <1>0, <1>9 DEF FnRuns, ChildBecomes, HeldInv, Held
<1>10. ASSUME NEW j \in Jobs, Put(j) PROVE HeldInv'
  BY <1>0, <1>10 DEF Put, HeldInv, Held
<1>11. ASSUME NEW j \in Jobs, PutReturns(j) PROVE HeldInv'
  BY <1>0, <1>11 DEF PutReturns, ChildBecomes, HeldInv, Held
<1>12. ASSUME NEW j \in Jobs, ProgEnds(j) PROVE HeldInv'
  BY <1>0, <1>12 DEF ProgEnds, ChildBecomes, HeldInv, Held
<1>13. ASSUME NEW j \in Jobs, Kill(j) PROVE HeldInv'
  BY <1>0, <1>13 DEF Kill, ChildBecomes, HeldInv, Held
<1>14. CASE Interrupted
  BY <1>0, <1>14 DEF Interrupted, Err, HeldInv, Held
<1>15. CASE UNCHANGED vars
  BY <1>0, <1>15 DEF vars, HeldInv, Held
<1> QED
  BY <1>1, <1>2, <1>3, <1>4, <1>5, <1>6, <1>7, <1>8, <1>9, <1>10, <1>11,
     <1>12, <1>13, <1>14, <1>15 DEF Next, MainStep, ChildStep, Fault

(* All of the stack is unmapped at the end, for any number of jobs, if     *)
(* struct Args with PATH in it is shorter than a page, which is part of    *)
(* the property: naive_example.c:157 and cleanup_stack.                    *)
THEOREM MemoryIsReturned == Spec => []MemoryReturned
<1>1. Init => (ObjSz < PageSz => HeldInv)
  BY DEF Init, HeldInv, S!Init
<1>2. RoomInv /\ (ObjSz < PageSz => HeldInv) /\ [Next]_vars
        => (ObjSz < PageSz => HeldInv)'
  <2>1. ASSUME ObjSz < PageSz
        PROVE  RoomInv /\ HeldInv /\ [Next]_vars => HeldInv'
    BY <2>1, HeldKept
  <2> QED BY <2>1 DEF ObjSz, ArgsHead
<1>3. (ObjSz < PageSz => HeldInv) => MemoryReturned
  BY DEF HeldInv, MemoryReturned, ObjSz
<1> QED BY <1>1, <1>2, <1>3, RoomHolds, PTL DEF Spec
=============================================================================
