------------------------------ MODULE FindExe ------------------------------
(***************************************************************************)
(* The search for an executable that a fn written with syscall/syscall.h   *)
(* does: find_exe, which builds the next candidate out of PATH,            *)
(* handle_execve_err, and the loop around them that the header documents   *)
(* and that test/utility.c and example/naive_example.c contain.            *)
(*                                                                         *)
(* PATH and the buffer are sequences of characters; the pointer *PATH is   *)
(* the index of the character it points to, one past the end for '\0'.     *)
(***************************************************************************)
EXTENDS Integers, Sequences, FiniteSetsExt, SequencesExt

CONSTANTS
  Char,        \* the characters of PATH: ":", "/" and others
  PathLen,     \* PATH has at most this many characters (bound)
  file,        \* the name to look for, without a slash
  PathMax,     \* path_max_len; the buffer has PathMax + 1 cells
  OnTooLong    \* what the loop does on -1, "stop" or "continue"

ASSUME FindExeAssumption ==
  /\ PathLen \in Nat \ {0} /\ PathMax \in Nat
  /\ "/" \in Char /\ "nul" \notin Char
  /\ file \in Seq(Char) /\ file # <<>>
  /\ OnTooLong \in {"stop", "continue"}

(* Results of execve: success, EACCES, an error that means "not there"     *)
(* (ENOENT, ESTALE, ENOTDIR, ENODEV, ETIMEDOUT), any other error.          *)
ExecveResult == {"ok", "EACCES", "ENOENT", "other"}

VARIABLES
  path,         \* the environment variable, never empty
  pos,          \* const char *path in the loop
  buf,          \* constructed_path; cells not written yet hold "?"
  written,      \* history: the most cells any call wrote
  got_eaccess,
  state,        \* "find", "execve", or how the search ended
  tried,        \* history: <<candidate, result>> of every execve
  parity        \* history: calls of find_exe modulo 2, so that a call that
                \* changes nothing else is still a step

vars == <<path, pos, buf, written, got_eaccess, state, tried, parity>>

Init ==
  /\ path \in SeqOf(Char, PathLen) \ {<<>>}
  /\ pos = 1
  /\ buf = [k \in 1 .. PathMax + 1 |-> "?"]
  /\ written = 0
  /\ got_eaccess = FALSE
  /\ state = "find"
  /\ tried = <<>>
  /\ parity = 0
-----------------------------------------------------------------------------
(* The first index from i on whose character is (not) a colon, or the end. *)
SkipColons(i) ==
  Min({j \in i .. Len(path) + 1 : j > Len(path) \/ path[j] # ":"})
NextColon(i) ==
  Min({j \in i .. Len(path) + 1 : j > Len(path) \/ path[j] = ":"})

(* Mutant: a slash is appended to a directory that ends in one.            *)
WithSlash_Always(dir) == Append(dir, "/")

(* The directory, with the slash that find_exe appends unless it has one.  *)
WithSlash(dir) == IF Last(dir) # "/" THEN Append(dir, "/") ELSE dir

(* Mutant: the terminating null byte is counted as part of PathMax + 1.    *)
TooLong_OffByOne(n) == n > PathMax + 1

(* The test of find_exe on the length of what it builds.                   *)
TooLong(n) == n > PathMax

(* Mutant: the end of PATH is skipped like a colon.                        *)
Advance_PastEnd(start, end) == end + 1

(* *PATH += path_prefix_len, and one more for a colon.                     *)
Advance(start, end) == IF end > Len(path) THEN end ELSE end + 1

(* find_exe: what it returns, the cells it writes from the start of        *)
(* constructed_path on, and the new value of *PATH.                        *)
FindExe ==
  LET start == SkipColons(pos)
      end == NextColon(start)
      dir == SubSeq(path, start, end - 1)
  IN IF start > Len(path)
       THEN [ret |-> 0, cells |-> <<>>, next |-> start]
     ELSE IF TooLong(Len(dir))
       THEN [ret |-> -1, cells |-> SubSeq(dir, 1, PathMax), next |-> start]
     ELSE IF TooLong(Len(WithSlash(dir)) + Len(file))
       THEN [ret |-> -1, cells |-> WithSlash(dir), next |-> start]
     ELSE [ret |-> 1, cells |-> WithSlash(dir) \o file \o <<"nul">>,
           next |-> Advance(start, end)]

(* The string constructed_path holds.                                      *)
Candidate == SubSeq(buf, 1, SelectInSeq(buf, LAMBDA ch : ch = "nul") - 1)

(* Mutant: the loop also continues when find_exe returns 0.                *)
AfterFind_NoBreak(r) ==
  CASE r = 1 -> "execve"
    [] r = -1 /\ OnTooLong = "stop" -> "too long"
    [] OTHER -> "find"

(* The switch on what find_exe returned.                                   *)
AfterFind(r) ==
  CASE r = 1 -> "execve"
    [] r = -1 /\ OnTooLong = "stop" -> "too long"
    [] r = -1 /\ OnTooLong = "continue" -> "find"
    [] r = 0 /\ got_eaccess -> "denied"
    [] OTHER -> "not found"

(* One round of the loop, up to execve or to the end of the search.        *)
Find ==
  /\ state = "find"
  /\ pos' = FindExe.next
  /\ buf' = [k \in DOMAIN buf |-> IF k <= Len(FindExe.cells)
                                    THEN FindExe.cells[k] ELSE buf[k]]
  /\ written' = Max({written, Len(FindExe.cells)})
  /\ state' = AfterFind(FindExe.ret)
  /\ parity' = 1 - parity
  /\ UNCHANGED <<path, got_eaccess, tried>>

(* Mutant: only the last candidate counts.                                 *)
GotEaccess_Last(r) == r = "EACCES"

(* *got_eaccess after handle_execve_err.                                   *)
GotEaccess(r) == got_eaccess \/ r = "EACCES"

(* handle_execve_err returns 0.                                            *)
TryNext(r) == r \in {"EACCES", "ENOENT"}

(* psys_execve(constructed_path, ...) and handle_execve_err.               *)
Execve(r) ==
  /\ state = "execve"
  /\ tried' = Append(tried, <<Candidate, r>>)
  /\ got_eaccess' = GotEaccess(r)
  /\ state' = IF r = "ok" THEN "exec" ELSE IF TryNext(r) THEN "find" ELSE "failed"
  /\ UNCHANGED <<path, pos, buf, written, parity>>

Next == Find \/ \E r \in ExecveResult : Execve(r)

Spec == Init /\ [][Next]_vars /\ WF_vars(Next)
-----------------------------------------------------------------------------
(* What PATH means, independently of how find_exe reads it: its entries    *)
(* are the maximal stretches without a colon, and each is joined to the    *)
(* name with one slash.                                                    *)
Entry ==
  {e \in (1 .. Len(path)) \X (1 .. Len(path)) :
     /\ e[1] <= e[2]
     /\ \A k \in e[1] .. e[2] : path[k] # ":"
     /\ e[1] = 1 \/ path[e[1] - 1] = ":"
     /\ e[2] = Len(path) \/ path[e[2] + 1] = ":"}

Join(e) ==
  SubSeq(path, e[1], e[2]) \o (IF path[e[2]] = "/" THEN <<>> ELSE <<"/">>) \o file

(* The entries that begin before index p.                                  *)
Before(p) == {e \in Entry : e[1] < p}
-----------------------------------------------------------------------------
(* Type correctness; among it, find_exe never moves *PATH past the null    *)
(* byte.                                                                   *)
FindExeTypeOK ==
  /\ path \in Seq(Char)
  /\ pos \in 1 .. Len(path) + 1
  /\ buf \in [1 .. PathMax + 1 -> Char \cup {"?", "nul"}]
  /\ got_eaccess \in BOOLEAN
  /\ parity \in {0, 1}
  /\ state \in {"find", "execve", "exec", "failed", "too long", "denied",
                "not found"}
  /\ tried \in Seq(Seq(Char) \X ExecveResult)

(* The candidates are tried in the order of PATH, none twice and none left *)
(* out, and the search only gives up when all were tried or the next one   *)
(* is too long.                                                            *)
TriesInOrder ==
  \E s \in [DOMAIN tried -> Entry] :
    LET all == {s[k] : k \in DOMAIN tried}
    IN /\ \A k \in DOMAIN tried :
            /\ tried[k][1] = Join(s[k])
            /\ Before(s[k][1]) = {s[m] : m \in 1 .. k - 1}
       /\ state \in {"denied", "not found"} => Entry = all
       /\ state = "too long" =>
            \E e \in Entry : Before(e[1]) = all /\ Len(Join(e)) > PathMax

(* constructed_path is never written past its PathMax + 1 cells.           *)
InBounds == written <= PathMax + 1

(* How the search ends is what happened to the candidates: the first one   *)
(* that is neither missing nor denied decides; if there is none, denied    *)
(* means that one was denied.                                              *)
Diagnosis ==
  LET passed == {"EACCES", "ENOENT"}
      results == [k \in DOMAIN tried |-> tried[k][2]]
      denied == \E k \in DOMAIN tried : results[k] = "EACCES"
  IN /\ \A k \in DOMAIN tried : k < Len(tried) => results[k] \in passed
     /\ state = "exec" => Last(results) = "ok"
     /\ state = "failed" => Last(results) = "other"
     /\ state \in {"denied", "not found"} =>
          /\ \A k \in DOMAIN tried : results[k] \in passed
          /\ state = "denied" <=> denied

(* The search comes to an end.                                             *)
Terminates == <>(state \notin {"find", "execve"})
=============================================================================
