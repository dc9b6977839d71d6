--------------------------- MODULE SyscallProofs ---------------------------
(***************************************************************************)
(* What the wrappers of Syscall make of the kernel's answers, for every    *)
(* set of system calls, every set of answers and every width of a word and *)
(* of an int.                                                              *)
(***************************************************************************)
EXTENDS Syscall, TLAPS

(* The unsigned comparison of check_map_error picks out the negative       *)
(* answers.                                                                *)
LEMMA UnsignedComparison ==
  ASSUME NEW a \in Answers
  PROVE  a \in Int /\ (IsMapError(a) <=> a < 0)
<1>1. a \in -4095 .. WordMod - 4096 /\ WordMod \in Nat /\ WordMod > 8192
  BY AnswersAssumption
<1>2. (-4096) % WordMod = WordMod - 4096
  BY <1>1
<1>3. CASE a < 0
  <2>1. a % WordMod = a + WordMod
    BY <1>1, <1>3
  <2> QED BY <1>1, <1>2, <1>3, <2>1 DEF IsMapError
<1>4. CASE ~(a < 0)
  <2>1. a % WordMod = a
    BY <1>1, <1>4
  <2> QED BY <1>1, <1>2, <1>4, <2>1 DEF IsMapError
<1> QED BY <1>3, <1>4

(* The conversion to int keeps what fits into an int.                      *)
LEMMA IntKeeps ==
  ASSUME NEW a \in Answers, a < IntHalf
  PROVE  ToInt(a) = a
<1>1. a \in -4095 .. IntHalf - 1 /\ IntHalf \in Nat /\ IntHalf >= 4096
  BY AnswersAssumption
<1>2. a + IntHalf \in 0 .. 2 * IntHalf - 1
  BY <1>1
<1>3. (a + IntHalf) % (2 * IntHalf) = a + IntHalf
  <2> DEFINE b == a + IntHalf
             m == 2 * IntHalf
  <2>1. b \in Nat /\ m \in Nat /\ b < m
    BY <1>1, <1>2
  <2> HIDE DEF b, m
  <2>2. b % m = b
    BY <2>1
  <2> QED BY <2>2 DEF b, m
<1> QED BY <1>1, <1>3 DEF ToInt

(* No errno is returned as an address, no address as MAP_FAILED and no     *)
(* answer cut short, up to the largest errno and the highest address:      *)
(* check_map_error and the wrappers of syscall.c.                          *)
THEOREM AnswersAreTold == Spec => AnswerTold
<1> DEFINE Answered ==
             pc = "return" =>
               rax \in Answers /\ (call \notin LongCalls => rax < IntHalf)
           Told == pc = "return" /\ pc' = "user" =>
                     IF call \in Maps /\ rax < 0
                     THEN ret' = MapFailed /\ errno' = -rax
                     ELSE ret' = rax
<1>1. Init => Answered
  BY DEF Init
<1>2. Answered /\ [Next]_vars => Answered'
  BY DEF Next, vars, Invoke, MmapRejects, Answer, Leave, Return, EnterChild,
         FnReturns
<1>3. Answered /\ [Next]_vars => [Told]_vars
  <2> SUFFICES ASSUME Answered, Next, pc = "return", pc' = "user"
               PROVE  IF call \in Maps /\ rax < 0
                      THEN ret' = MapFailed /\ errno' = -rax
                      ELSE ret' = rax
    OBVIOUS
  <2>1. Return
    BY DEF Next, Invoke, MmapRejects, Answer, Leave, EnterChild, FnReturns
  <2>2. IsMapError(rax) <=> rax < 0
    BY UnsignedComparison
  <2>3. call \notin LongCalls => ToInt(rax) = rax
    BY IntKeeps
  <2> QED BY <2>1, <2>2, <2>3 DEF Return
<1> QED BY <1>1, <1>2, <1>3, PTL DEF Spec, AnswerTold
=============================================================================
