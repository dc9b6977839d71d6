----------------------------- MODULE StackLease -----------------------------
(***************************************************************************)
(* What aspawn promises its clients about stacks, and nothing else.  A     *)
(* stack is lent to a spawn, the child of the spawn runs on it for a       *)
(* while, and the stack is taken back only when no child runs on it.       *)
(***************************************************************************)
CONSTANTS Call, Stack, None

VARIABLES
  lease,   \* lease[s]: the spawn that stack s is lent to, or None
  use      \* use[c]: how far spawn c is

leaseVars == <<lease, use>>

Init ==
  /\ lease = [s \in Stack |-> None]
  /\ use = [c \in Call |-> "new"]

Lend(c, s) ==
  /\ use[c] = "new" /\ lease[s] = None
  /\ use' = [use EXCEPT ![c] = "lent"]
  /\ lease' = [lease EXCEPT ![s] = c]

Start(c) ==
  /\ use[c] = "lent"
  /\ \E s \in Stack : lease[s] = c
  /\ use' = [use EXCEPT ![c] = "running"]
  /\ UNCHANGED lease

End(c) ==
  /\ use[c] = "running"
  /\ use' = [use EXCEPT ![c] = "over"]
  /\ UNCHANGED lease

TakeBack(s) ==
  /\ lease[s] # None
  /\ use[lease[s]] # "running"
  /\ lease' = [lease EXCEPT ![s] = None]
  /\ UNCHANGED use

Next ==
  \/ \E c \in Call, s \in Stack : Lend(c, s)
  \/ \E c \in Call : Start(c) \/ End(c)
  \/ \E s \in Stack : TakeBack(s)

Spec == Init /\ [][Next]_leaseVars
=============================================================================
