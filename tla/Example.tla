------------------------------ MODULE Example ------------------------------
(***************************************************************************)
(* example/naive_example.c: main spawns its jobs one after the other on    *)
(* one cached stack, waits for POLLHUP after each, then waits for the      *)
(* children and looks into the pipes; fn executes the program or sends an  *)
(* error message through the pipe.  The stack functions are those of       *)
(* CachedStack; the search of fn for the executable is in FindExe.         *)
(***************************************************************************)
EXTENDS Integers, Sequences, FiniteSetsExt

CONSTANTS
  JobCount,       \* argv_cnt
  PathSz,         \* path_sz, the length of PATH with its null byte
  Message,        \* bytes of an error message
  Capacity,       \* bytes a pipe holds
  PageSz, SizeMod, Extra, ArgsSz, Memory  \* as in CachedStack

VARIABLES
  ppc, i,   \* main: next statement, loop variable
  child,    \* what has become of the child of a job
  room,     \* bytes a child was given below its argument block
  sent,     \* i of psys_put_impl in the child
  ample,    \* whether there is so much memory that mmap and mremap succeed
  pipe,     \* bytes in the pipe of a job, named by their place in the message
  addr, size, mapped, live, ret, spare, top, promise  \* as in CachedStack

Jobs == 1 .. JobCount
ReservedSz == 4096 + 1  \* PATH_MAX + 1
ArgsHead == 8           \* sizeof(struct Args)

S == INSTANCE CachedStack WITH
       Requests <- {<<ReservedSz, PathSz>>}, room <- spare

ASSUME ExampleAssumption ==
  /\ JobCount \in Nat \ {0} /\ PathSz \in Nat
  /\ Message \in Nat /\ Capacity \in Nat
  /\ PageSz \in Nat \ {0} /\ SizeMod \in Nat \ {0}
  /\ Extra \in Nat /\ ArgsSz \in Nat
  /\ Memory \subseteq Nat \ {0}

(* The sizes fit into size_t, and PATH_MAX + 1 + 32 KiB, one byte more     *)
(* than whole pages of 4 KiB, leaves sizeof(struct Args) free in its last  *)
(* page, of whatever size.                                                 *)
ASSUME SizesAssumption ==
  /\ S!NoWrap
  /\ (ReservedSz + Extra) % PageSz \in 1 .. PageSz - ArgsHead

stackVars == <<addr, size, mapped, live, ret, spare, top, promise>>
jobVars == <<child, room, sent, pipe>>
vars == <<ppc, i, ample, jobVars, stackVars>>

Init ==
  /\ ppc = "start" /\ i = 1 /\ ample \in BOOLEAN
  /\ child = [j \in Jobs |-> "none"]
  /\ room = [j \in Jobs |-> 0]
  /\ sent = [j \in Jobs |-> 0]
  /\ pipe = [j \in Jobs |-> <<>>]
  /\ S!Init

(* The child of j is in fn: it uses the stack and holds the write end.     *)
InFn(j) == child[j] \in {"find", "put"}

(* main has called err, errx or returned: the read ends are closed.        *)
MainGone == ppc \in {"failed", "reported", "crashed", "done"}

(* errx(1, ...) and err(1, ...).                                           *)
Err == ppc' = "failed" /\ UNCHANGED <<i, jobVars, stackVars>>

(* Mutant: the loop runs past argv_cnt.                                    *)
NextJob_OffByOne(loop, after) ==
  IF i > JobCount THEN i' = 1 /\ ppc' = after ELSE i' = i + 1 /\ ppc' = loop

(* The next iteration of a loop over the jobs, or what follows the loop.   *)
NextJob(loop, after) ==
  IF i = JobCount THEN i' = 1 /\ ppc' = after ELSE i' = i + 1 /\ ppc' = loop
-----------------------------------------------------------------------------
(* getenv("PATH") and init_cached_stack.                                   *)
Start ==
  /\ ppc = "start"
  /\ Err \/ (S!InitCachedStack /\ ppc' = "reserve" /\ UNCHANGED <<i, jobVars>>)

(* reserve_stack, whose result main does not look at.                      *)
Reserve ==
  /\ ppc = "reserve"
  /\ S!ReserveStack(ReservedSz, PathSz)
  /\ ample => ret' = "ok"
  /\ ppc' = "place"
  /\ UNCHANGED <<i, jobVars>>

(* allocate_obj_on_stack, and memcpy into what it returned.                *)
PlaceArgs ==
  /\ ppc = "place"
  /\ \/ /\ addr # 0
        /\ S!Carve(ArgsHead + PathSz)
        /\ ppc' = "spawn"
     \/ /\ addr = 0
        /\ ppc' = "crashed"
        /\ UNCHANGED stackVars
  /\ UNCHANGED <<i, jobVars>>

(* aspawn carves its block out of a copy of the struct.                    *)
Spawn ==
  /\ ppc = "spawn"
  /\ \/ Err
     \/ /\ child' = [child EXCEPT ![i] = "find"]
        /\ room' = [room EXCEPT ![i] = size - ArgsSz]
        /\ ppc' = "poll"
        /\ UNCHANGED <<i, sent, pipe, stackVars>>

(* Mutant: POLLIN ends the wait as well.                                   *)
Poll_In ==
  /\ ppc = "poll"
  /\ ~InFn(i) \/ pipe[i] # <<>>
  /\ NextJob("reserve", "wait")
  /\ UNCHANGED <<jobVars, stackVars>>

(* poll for POLLHUP, without a timeout.                                    *)
Poll ==
  /\ ppc = "poll"
  /\ ~InFn(i)
  /\ NextJob("reserve", "wait")
  /\ UNCHANGED <<jobVars, stackVars>>

(* waitpid, and errx unless the child exited with 0.                       *)
Wait ==
  /\ ppc = "wait"
  /\ child[i] \in {"exit0", "exit1", "killed"}
  /\ ppc' = IF child[i] = "exit0" THEN "read" ELSE "reported"
  /\ UNCHANGED <<i, jobVars, stackVars>>

(* poll, waitpid or read fails, for one because a handler has run.         *)
Interrupted == ppc \in {"poll", "wait", "read"} /\ Err

(* read into the buffer and write to stderr what came, until read returns  *)
(* 0 or the write fails; the buffer holds more than a message.             *)
Read ==
  /\ ppc = "read"
  /\ pipe' = [pipe EXCEPT ![i] = <<>>]
  /\ IF pipe[i] = <<>> THEN NextJob("wait", "cleanup")
                       ELSE ppc' \in {"read", "failed"} /\ UNCHANGED i
  /\ UNCHANGED <<child, room, sent, stackVars>>

(* cleanup_stack, and errx if it fails.                                    *)
Cleanup ==
  /\ ppc = "cleanup"
  /\ S!CleanupStack
  /\ ppc' = IF ret' = "ok" THEN "done" ELSE "failed"
  /\ UNCHANGED <<i, jobVars>>
-----------------------------------------------------------------------------
ChildBecomes(j, state) ==
  /\ child' = [child EXCEPT ![j] = state]
  /\ UNCHANGED <<ppc, i, room, sent, pipe, stackVars>>

(* fn finds the program and executes it, or calls psys_err.                *)
FnRuns(j) ==
  /\ child[j] = "find"
  /\ \E state \in {"prog", "put"} : ChildBecomes(j, state)

(* Mutant: i is not advanced by the result of the write.                   *)
Put_NoAdvance(j) ==
  /\ child[j] = "put" /\ sent[j] # Message /\ ~MainGone
  /\ \E n \in 1 .. Min({Message - sent[j], Capacity - Len(pipe[j])}) :
       pipe' = [pipe EXCEPT ![j] = @ \o [k \in 1 .. n |-> sent[j] + k]]
  /\ UNCHANGED <<ppc, i, child, room, sent, stackVars>>

(* psys_put_impl: one write(2), of some of the bytes that are left; it     *)
(* blocks while the pipe is full.                                          *)
Put(j) ==
  /\ child[j] = "put" /\ sent[j] # Message /\ ~MainGone
  /\ \E n \in 1 .. Min({Message - sent[j], Capacity - Len(pipe[j])}) :
       /\ pipe' = [pipe EXCEPT ![j] = @ \o [k \in 1 .. n |-> sent[j] + k]]
       /\ sent' = [sent EXCEPT ![j] = @ + n]
  /\ UNCHANGED <<ppc, i, child, room, stackVars>>

(* Mutant: the loop runs until the write fails.                            *)
PutReturns_OnError(j) ==
  /\ child[j] = "put"
  /\ MainGone
  /\ ChildBecomes(j, "exit1")

(* psys_put_impl returns, at the end or when the write fails because main  *)
(* is gone; fn then returns 1.                                             *)
PutReturns(j) ==
  /\ child[j] = "put"
  /\ sent[j] = Message \/ MainGone
  /\ ChildBecomes(j, "exit1")

(* The program ends, as it likes.                                          *)
ProgEnds(j) ==
  /\ child[j] = "prog"
  /\ \E state \in {"exit0", "exit1", "killed"} : ChildBecomes(j, state)

(* A fatal signal, SIGPIPE included.                                       *)
Kill(j) == InFn(j) /\ ChildBecomes(j, "killed")

MainStep ==
  /\ Start \/ Reserve \/ PlaceArgs \/ Spawn \/ Poll \/ Wait \/ Read \/ Cleanup
  /\ UNCHANGED ample
ChildStep(j) ==
  /\ FnRuns(j) \/ Put(j) \/ PutReturns(j) \/ ProgEnds(j)
  /\ UNCHANGED ample
Fault == (Interrupted \/ \E j \in Jobs : Kill(j)) /\ UNCHANGED ample

Next == MainStep \/ (\E j \in Jobs : ChildStep(j)) \/ Fault

(* main and fn are straight-line code between blocking calls, and the      *)
(* programs of the example (echo, ls, uname) end.                          *)
Fairness == WF_vars(MainStep) /\ \A j \in Jobs : WF_vars(ChildStep(j))

Spec == Init /\ [][Next]_vars /\ Fairness
-----------------------------------------------------------------------------
(* Type correctness; among it, the loops of main stay inside argvs, fds    *)
(* and pids, psys_put_impl never sends more than the message and no pipe   *)
(* holds more than its capacity.                                           *)
ExampleTypeOK ==
  /\ ppc \in {"start", "reserve", "place", "spawn", "poll", "wait", "read",
              "cleanup", "done", "failed", "reported", "crashed"}
  /\ i \in Jobs
  /\ child \in [Jobs -> {"none", "find", "put", "prog",
                         "exit0", "exit1", "killed"}]
  /\ room \in [Jobs -> Int]
  /\ sent \in [Jobs -> 0 .. Message]
  /\ pipe \in [Jobs -> UNION {[1 .. n -> 1 .. Message] : n \in 0 .. Capacity}]

(* Unless memory is refused, every child has the reserved_stack_sz +       *)
(* 32 KiB that main asked for below its argument block, although main      *)
(* places sizeof(struct Args) bytes more on the stack than it reserved,    *)
(* job after job.                                                          *)
ChildHasStack ==
  ample => \A j \in Jobs : InFn(j) => room[j] >= ReservedSz + Extra

(* Main moves, carves or unmaps the stack only while no child uses it:     *)
(* after the poll of naive_example.c:121-128.                              *)
StackLeftAlone == [][(\E j \in Jobs : InFn(j)) => UNCHANGED stackVars]_vars

(* What a child has sent is the beginning of its message, without gaps and *)
(* repetitions, however the kernel splits the writes of psys_put_impl.     *)
MessageInOrder ==
  \A j \in Jobs : pipe[j] # <<>> => pipe[j] = [k \in 1 .. sent[j] |-> k]

(* Unless memory is refused, all of the stack is unmapped when main ends   *)
(* normally, although every job has made the recorded size smaller than    *)
(* the mapping: that is so as long as struct Args with PATH in it is       *)
(* shorter than a page.  A longer one makes the recorded size miss pages   *)
(* that cleanup_stack then leaves mapped.                                  *)
MemoryReturned ==
  ample /\ ppc = "done" /\ ArgsHead + PathSz < PageSz => mapped = {}

(* Main ends, though it waits without timeouts and reads nothing while a   *)
(* child writes.  This needs Message <= Capacity.                          *)
MainEnds == <>MainGone

(* When main ends because the child it has waited for failed, it has read  *)
(* what the child had to say (naive_example.c:144).                        *)
MessageShown == ppc = "reported" /\ child[i] = "exit1" => pipe[i] = <<>>
=============================================================================
