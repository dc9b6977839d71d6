--------------------------- MODULE FindExeProofs ---------------------------
(***************************************************************************)
(* The search for the executable, for every PATH, every name and every     *)
(* size of the buffer: find_exe stays inside PATH and the buffer, the      *)
(* candidates are the entries of PATH in their order, and the search ends  *)
(* with the right diagnosis.                                               *)
(***************************************************************************)
EXTENDS FindExe, SequenceTheorems, WellFoundedInduction, TLAPS

(* What Min of FiniteSetsExt is for a set of natural numbers.              *)
LEMMA MinFacts ==
  ASSUME NEW T \in SUBSET Nat, T # {}
  PROVE  Min(T) \in T /\ \A y \in T : Min(T) <= y
<1>1. PICK x \in T : \A y \in T : ~(<<y, x>> \in OpToRel(<, Nat))
  BY NatLessThanWellFounded, WFMin
<1>2. ASSUME NEW y \in T PROVE x <= y
  <2>1. ASSUME y < x PROVE <<y, x>> \in OpToRel(<, Nat)
    BY <2>1 DEF OpToRel
  <2>2. ~(y < x)
    BY <1>1, <2>1, Zenon
  <2> QED BY <2>2
<1> QED BY <1>2 DEF Min

(* What Max of FiniteSetsExt is for two numbers.                           *)
LEMMA MaxOfTwo ==
  ASSUME NEW a \in Int, NEW b \in Int
  PROVE  Max({a, b}) \in {a, b}
<1>1. \E x \in {a, b} : \A y \in {a, b} : x >= y
  <2>1. CASE a >= b
    BY <2>1
  <2>2. CASE b >= a
    BY <2>2
  <2> QED BY <2>1, <2>2
<1> QED BY <1>1 DEF Max
-----------------------------------------------------------------------------
(* What find_exe works with: PATH, and *PATH at the beginning of an entry, *)
(* on a colon or at the end.                                               *)
AtEntry(p) == p = 1 \/ p = Len(path) + 1 \/ path[p - 1] = ":"
PathOK == path \in Seq(Char) /\ pos \in 1 .. Len(path) + 1 /\ AtEntry(pos)

(* The entry that a call of find_exe looks at, and what it makes of it.    *)
Start == SkipColons(pos)
End == NextColon(Start)
Dir == SubSeq(path, Start, End - 1)
Whole == WithSlash(Dir) \o file

(* The two loops over PATH stop where they should.                         *)
LEMMA StartFacts ==
  ASSUME PathOK
  PROVE  /\ Start \in pos .. Len(path) + 1
         /\ Start <= Len(path) => path[Start] # ":"
         /\ \A k \in pos .. Start - 1 : path[k] = ":"
         /\ AtEntry(Start)
<1> DEFINE n == Len(path)
           T == {j \in pos .. n + 1 : j > n \/ path[j] # ":"}
<1>1. n \in Nat /\ pos \in 1 .. n + 1
  BY DEF PathOK
<1>2. Start = Min(T)
  BY DEF Start, SkipColons
<1> HIDE DEF n
<1>3. T \in SUBSET Nat /\ n + 1 \in T
  BY <1>1
<1>4. Start \in T /\ \A y \in T : Start <= y
  BY <1>2, <1>3, MinFacts
<1>5. Start \in pos .. n + 1 /\ (Start <= n => path[Start] # ":")
  BY <1>1, <1>4
<1>6. ASSUME NEW k \in pos .. Start - 1 PROVE path[k] = ":"
  BY <1>1, <1>4, <1>5
<1>7. AtEntry(Start)
  <2>1. CASE Start = pos
    BY <2>1 DEF PathOK
  <2>2. CASE Start # pos
    <3>1. Start - 1 \in pos .. Start - 1
      BY <1>1, <1>5, <2>2
    <3> QED BY <1>6, <3>1 DEF AtEntry
  <2> QED BY <2>1, <2>2
<1> QED BY <1>5, <1>6, <1>7 DEF n

(* So does the search for the end of the entry.                            *)
LEMMA EndFacts ==
  ASSUME PathOK, Start <= Len(path)
  PROVE  /\ End \in Start + 1 .. Len(path) + 1
         /\ End <= Len(path) => path[End] = ":"
         /\ \A k \in Start .. End - 1 : path[k] # ":"
<1> DEFINE n == Len(path)
           T == {j \in Start .. n + 1 : j > n \/ path[j] = ":"}
<1>1. n \in Nat /\ pos \in 1 .. n + 1 /\ Start \in pos .. n + 1 /\ Start <= n
      /\ path[Start] # ":"
  BY StartFacts DEF PathOK
<1>2. End = Min(T)
  BY DEF End, NextColon
<1> HIDE DEF n
<1>3. T \in SUBSET Nat /\ n + 1 \in T
  BY <1>1
<1>4. End \in T /\ \A y \in T : End <= y
  BY <1>2, <1>3, MinFacts
<1>5. End \in Start .. n + 1 /\ (End <= n => path[End] = ":") /\ End # Start
  BY <1>1, <1>4
<1>6. ASSUME NEW k \in Start .. End - 1 PROVE path[k] # ":"
  BY <1>1, <1>4, <1>5
<1>7. End \in Start + 1 .. n + 1
  BY <1>1, <1>5
<1> QED BY <1>5, <1>6, <1>7 DEF n

(* The directory of the entry, as a sequence.                              *)
LEMMA DirFacts ==
  ASSUME PathOK, Start <= Len(path)
  PROVE  /\ Dir \in Seq(Char)
         /\ Len(Dir) = End - Start /\ Len(Dir) \in Nat \ {0}
         /\ Last(Dir) = path[End - 1]
         /\ WithSlash(Dir) \in Seq(Char)
         /\ Len(WithSlash(Dir)) \in Len(Dir) .. Len(Dir) + 1
         /\ Whole \in Seq(Char) /\ Len(Whole) = Len(WithSlash(Dir)) + Len(file)
<1>1. /\ Start \in 1 .. Len(path) /\ End \in Start + 1 .. Len(path) + 1
      /\ Start \in Nat /\ End \in Nat
      /\ path \in Seq(Char) /\ Len(path) \in Nat
  BY StartFacts, EndFacts DEF PathOK
<1>2. /\ Dir \in Seq(Char) /\ Len(Dir) = End - Start
      /\ \A k \in 1 .. End - Start : Dir[k] = path[Start + k - 1]
  <2>1. Start \in 1 .. Len(path) + 1 /\ End - 1 \in Start - 1 .. Len(path)
    BY <1>1
  <2> QED BY <1>1, <2>1, SubSeqProperties DEF Dir
<1>3. Len(Dir) \in Nat \ {0} /\ Last(Dir) = path[End - 1]
  <2>1. End - Start \in 1 .. End - Start /\ Start + (End - Start) - 1 = End - 1
    BY <1>1
  <2> QED BY <1>1, <1>2, <2>1 DEF Last
<1>4. /\ WithSlash(Dir) \in Seq(Char)
      /\ Len(WithSlash(Dir)) \in Len(Dir) .. Len(Dir) + 1
  <2>1. CASE Last(Dir) # "/"
    <3>1. /\ Append(Dir, "/") \in Seq(Char)
          /\ Len(Append(Dir, "/")) = Len(Dir) + 1
      BY <1>2, FindExeAssumption, AppendProperties
    <3> QED BY <1>3, <2>1, <3>1 DEF WithSlash
  <2>2. CASE Last(Dir) = "/"
    BY <1>2, <1>3, <2>2 DEF WithSlash
  <2> QED BY <2>1, <2>2
<1>5. Whole \in Seq(Char) /\ Len(Whole) = Len(WithSlash(Dir)) + Len(file)
  BY <1>4, FindExeAssumption, ConcatProperties DEF Whole
<1> QED BY <1>2, <1>3, <1>4, <1>5

(* The three outcomes of find_exe: the end of PATH, an entry that is too   *)
(* long, a candidate.                                                      *)
AtEnd ==
  /\ Start = Len(path) + 1
  /\ FindExe.ret = 0 /\ FindExe.next = Start
  /\ FindExe.cells = <<>>
Refused ==
  /\ Start <= Len(path) /\ Len(Whole) > PathMax
  /\ FindExe.ret = -1 /\ FindExe.next = Start
  /\ FindExe.cells \in Seq(Char) /\ Len(FindExe.cells) <= PathMax + 1
Built ==
  /\ Start <= Len(path) /\ Len(Whole) <= PathMax
  /\ FindExe.ret = 1 /\ FindExe.next = Advance(Start, End)
  /\ FindExe.cells = Whole \o <<"nul">>

(* There is no fourth.                                                     *)
LEMMA FindExeOutcomes ==
  ASSUME PathOK
  PROVE  AtEnd \/ Refused \/ Built
<1>0. /\ Len(path) \in Nat /\ Start \in Nat /\ Start <= Len(path) + 1
      /\ Len(file) \in Nat /\ PathMax \in Nat
  BY StartFacts, FindExeAssumption DEF PathOK
<1>1. CASE Start > Len(path)
  <2>1. FindExe = [ret |-> 0, cells |-> <<>>, next |-> Start]
    BY <1>1 DEF FindExe, Start
  <2>2. FindExe.ret = 0 /\ FindExe.cells = <<>> /\ FindExe.next = Start
    BY <2>1
  <2> QED BY <1>0, <1>1, <2>2 DEF AtEnd
<1>2. CASE Start <= Len(path) /\ TooLong(Len(Dir))
  <2>1. FindExe = [ret |-> -1, cells |-> SubSeq(Dir, 1, PathMax), next |-> Start]
    BY <1>0, <1>2 DEF FindExe, Start, End, Dir
  <2>2. /\ FindExe.ret = -1 /\ FindExe.cells = SubSeq(Dir, 1, PathMax)
        /\ FindExe.next = Start
    BY <2>1
  <2>3. Len(Dir) > PathMax /\ Dir \in Seq(Char)
    BY <1>2, DirFacts DEF TooLong
  <2>4. \A k \in 1 .. PathMax : Dir[k] \in Char
    BY <1>0, <2>3
  <2>5. /\ SubSeq(Dir, 1, PathMax) \in Seq(Char)
        /\ Len(SubSeq(Dir, 1, PathMax)) <= PathMax + 1
    BY <1>0, <2>4, SubSeqProperties
  <2>6. Len(Whole) > PathMax
    BY <1>0, <1>2, <2>3, DirFacts
  <2> QED BY <1>2, <2>2, <2>5, <2>6 DEF Refused
<1>3. CASE /\ Start <= Len(path) /\ ~TooLong(Len(Dir))
           /\ TooLong(Len(WithSlash(Dir)) + Len(file))
  <2>1. FindExe = [ret |-> -1, cells |-> WithSlash(Dir), next |-> Start]
    BY <1>0, <1>3 DEF FindExe, Start, End, Dir
  <2>2. /\ FindExe.ret = -1 /\ FindExe.cells = WithSlash(Dir)
        /\ FindExe.next = Start
    BY <2>1
  <2>3. Len(Dir) <= PathMax /\ Len(Whole) > PathMax
    BY <1>0, <1>3, DirFacts DEF TooLong
  <2>4. WithSlash(Dir) \in Seq(Char) /\ Len(WithSlash(Dir)) <= PathMax + 1
    BY <1>0, <1>3, <2>3, DirFacts
  <2> QED BY <1>3, <2>2, <2>3, <2>4 DEF Refused
<1>4. CASE /\ Start <= Len(path) /\ ~TooLong(Len(Dir))
           /\ ~TooLong(Len(WithSlash(Dir)) + Len(file))
  <2>1. FindExe = [ret |-> 1, cells |-> WithSlash(Dir) \o file \o <<"nul">>,
                   next |-> Advance(Start, End)]
    BY <1>0, <1>4 DEF FindExe, Start, End, Dir
  <2>2. /\ FindExe.ret = 1 /\ FindExe.cells = Whole \o <<"nul">>
        /\ FindExe.next = Advance(Start, End)
    BY <2>1 DEF Whole
  <2>3. Len(Whole) <= PathMax
    BY <1>0, <1>4, DirFacts DEF TooLong
  <2> QED BY <1>4, <2>2, <2>3 DEF Built
<1> QED BY <1>0, <1>1, <1>2, <1>3, <1>4

(* *PATH moves on to an entry, a colon or the end.                         *)
LEMMA AdvanceFacts ==
  ASSUME PathOK, Start <= Len(path)
  PROVE  /\ Advance(Start, End) \in End .. Len(path) + 1
         /\ Advance(Start, End) <= End + 1
         /\ AtEntry(Advance(Start, End))
<1>1. /\ End \in Start + 1 .. Len(path) + 1 /\ (End <= Len(path) => path[End] = ":")
      /\ Len(path) \in Nat /\ Start \in Nat
  BY StartFacts, EndFacts DEF PathOK
<1>2. CASE End > Len(path)
  BY <1>1, <1>2 DEF Advance, AtEntry
<1>3. CASE End <= Len(path)
  <2>1. Advance(Start, End) = End + 1 /\ End + 1 - 1 = End
    BY <1>1, <1>3 DEF Advance
  <2> QED BY <1>1, <1>3, <2>1 DEF AtEntry
<1> QED BY <1>1, <1>2, <1>3
-----------------------------------------------------------------------------
(* What find_exe reads, against what PATH means.                           *)
LEMMA EntryFacts ==
  ASSUME PathOK, NEW e \in Entry
  PROVE  /\ e[1] \in 1 .. Len(path) /\ e[2] \in 1 .. Len(path) /\ e[1] <= e[2]
         /\ e = <<e[1], e[2]>>
         /\ \A k \in e[1] .. e[2] : path[k] # ":"
         /\ e[1] = 1 \/ path[e[1] - 1] = ":"
         /\ e[2] = Len(path) \/ path[e[2] + 1] = ":"
BY DEF Entry

(* No entry begins on a colon that find_exe skips.                         *)
LEMMA NothingSkipped ==
  ASSUME PathOK
  PROVE  Before(Start) = Before(pos)
<1>1. /\ Start \in pos .. Len(path) + 1 /\ pos \in Nat /\ Len(path) \in Nat
      /\ \A k \in pos .. Start - 1 : path[k] = ":"
  BY StartFacts DEF PathOK
<1>2. ASSUME NEW e \in Entry PROVE e[1] < Start <=> e[1] < pos
  <2>1. e[1] \in 1 .. Len(path) /\ path[e[1]] # ":"
    BY EntryFacts
  <2> QED BY <1>1, <2>1
<1> QED BY <1>2 DEF Before

(* At the end of PATH all entries have been seen.                          *)
LEMMA AllSeen ==
  ASSUME PathOK, Start = Len(path) + 1
  PROVE  Before(pos) = Entry
<1>1. ASSUME NEW e \in Entry PROVE e[1] < Start
  BY EntryFacts DEF PathOK
<1>2. Before(Start) = Entry
  BY <1>1 DEF Before
<1> QED BY <1>2, NothingSkipped

(* Otherwise find_exe has found the next one, and moves behind it.         *)
This == <<Start, End - 1>>

(* It is an entry of PATH.                                                 *)
LEMMA ThisIsEntry ==
  ASSUME PathOK, Start <= Len(path)
  PROVE  This \in Entry /\ This[1] = Start /\ This[2] = End - 1
<1>1. /\ Start \in 1 .. Len(path) /\ Len(path) \in Nat /\ AtEntry(Start)
      /\ End \in Start + 1 .. Len(path) + 1
      /\ End <= Len(path) => path[End] = ":"
      /\ \A k \in Start .. End - 1 : path[k] # ":"
  BY StartFacts, EndFacts DEF PathOK
<1>2. This[1] = Start /\ This[2] = End - 1
  BY DEF This
<1>3. This \in (1 .. Len(path)) \X (1 .. Len(path)) /\ Start <= End - 1
  BY <1>1 DEF This
<1>4. Start = 1 \/ path[Start - 1] = ":"
  BY <1>1 DEF AtEntry
<1>5. End - 1 = Len(path) \/ path[End - 1 + 1] = ":"
  <2>1. End - 1 + 1 = End
    BY <1>1
  <2> QED BY <1>1, <2>1
<1> QED BY <1>1, <1>2, <1>3, <1>4, <1>5 DEF Entry

(* No other entry begins up to where *PATH is moved.                       *)
LEMMA NextEntry ==
  ASSUME PathOK, Start <= Len(path)
  PROVE  Before(Advance(Start, End)) = Before(pos) \cup {This}
<1> DEFINE next == Advance(Start, End)
<1>1. /\ Start \in 1 .. Len(path) /\ Len(path) \in Nat
      /\ End \in Start + 1 .. Len(path) + 1
      /\ End <= Len(path) => path[End] = ":"
      /\ \A k \in Start .. End - 1 : path[k] # ":"
      /\ next \in End .. End + 1
  BY StartFacts, EndFacts, AdvanceFacts DEF PathOK
<1> HIDE DEF next
<1>2. ASSUME NEW e \in Entry, e[1] = Start PROVE e = This
  <2>1. /\ e[2] \in Start .. Len(path) /\ e = <<Start, e[2]>>
        /\ \A k \in Start .. e[2] : path[k] # ":"
        /\ e[2] = Len(path) \/ path[e[2] + 1] = ":"
    BY <1>1, <1>2, EntryFacts
  <2>2. ~(e[2] < End - 1)
    <3>1. ASSUME e[2] < End - 1 PROVE e[2] + 1 \in Start .. End - 1 /\ e[2] # Len(path)
      BY <1>1, <2>1, <3>1
    <3> QED BY <1>1, <2>1, <3>1
  <2>3. ~(e[2] > End - 1)
    <3>1. ASSUME e[2] > End - 1 PROVE End \in Start .. e[2] /\ End <= Len(path)
      BY <1>1, <2>1, <3>1
    <3> QED BY <1>1, <2>1, <3>1
  <2>4. e[2] = End - 1
    BY <1>1, <2>1, <2>2, <2>3
  <2> QED BY <2>1, <2>4 DEF This
<1>3. ASSUME NEW e \in Entry, e[1] < next, e[1] > Start PROVE FALSE
  <2>1. /\ e[1] \in 1 .. Len(path) /\ path[e[1]] # ":"
        /\ path[e[1] - 1] = ":"
    BY <1>1, <1>3, EntryFacts
  <2>2. CASE e[1] = End
    BY <1>1, <2>1, <2>2
  <2>3. CASE e[1] < End
    <3>1. e[1] - 1 \in Start .. End - 1
      BY <1>1, <1>3, <2>1, <2>3
    <3> QED BY <1>1, <2>1, <3>1
  <2> QED BY <1>1, <1>3, <2>1, <2>2, <2>3
<1>4. ASSUME NEW e \in Entry
      PROVE  e[1] < next <=> e[1] < Start \/ e = This
  <2>1. e[1] \in Nat
    BY EntryFacts DEF PathOK
  <2>2. e = This => e[1] = Start
    BY ThisIsEntry
  <2> QED BY <1>1, <1>2, <1>3, <2>1, <2>2
<1>5. Before(next) = Before(Start) \cup {This}
  BY <1>4, ThisIsEntry DEF Before
<1> QED BY <1>5, NothingSkipped DEF next

(* The candidate is the entry joined to the name.                          *)
LEMMA WholeIsJoin ==
  ASSUME PathOK, Start <= Len(path)
  PROVE  Join(This) = Whole
<1>1. This[1] = Start /\ This[2] = End - 1
  BY DEF This
<1>2. Join(This) = Dir \o (IF path[End - 1] = "/" THEN <<>> ELSE <<"/">>) \o file
  BY <1>1 DEF Join, Dir
<1>3. Dir \in Seq(Char) /\ Last(Dir) = path[End - 1]
  BY DirFacts
<1>4. CASE path[End - 1] = "/"
  <2>1. WithSlash(Dir) = Dir /\ Dir \o <<>> = Dir
    BY <1>3, <1>4, ConcatEmptySeq DEF WithSlash
  <2> QED BY <1>2, <1>4, <2>1 DEF Whole
<1>5. CASE path[End - 1] # "/"
  <2>1. WithSlash(Dir) = Append(Dir, "/")
    BY <1>3, <1>5 DEF WithSlash
  <2>2. Append(Dir, "/") = Dir \o <<"/">>
    BY <1>3, FindExeAssumption, AppendIsConcat
  <2> QED BY <1>2, <1>5, <2>1, <2>2 DEF Whole
<1> QED BY <1>4, <1>5
-----------------------------------------------------------------------------
(* The index of the first null byte, or 0.                                 *)
FirstNul(b) ==
  LET I == {k \in 1 .. Len(b) : b[k] = "nul"} IN IF I # {} THEN Min(I) ELSE 0

(* A buffer that holds w and a null byte behind it holds the string w.     *)
LEMMA StringInBuffer ==
  ASSUME NEW b \in [1 .. PathMax + 1 -> Char \cup {"?", "nul"}],
         NEW w \in Seq(Char), Len(w) <= PathMax,
         \A k \in 1 .. Len(w) : b[k] = w[k], b[Len(w) + 1] = "nul"
  PROVE  SubSeq(b, 1, FirstNul(b) - 1) = w
<1> DEFINE I == {k \in 1 .. Len(b) : b[k] = "nul"}
           n == Len(w)
<1>1. n \in Nat /\ n <= PathMax /\ PathMax \in Nat /\ Len(b) = PathMax + 1
  BY FindExeAssumption
<1>2. FirstNul(b) = IF I # {} THEN Min(I) ELSE 0
  BY DEF FirstNul
<1>3. \A k \in 1 .. n : w[k] \in Char /\ b[k] # "nul"
  BY FindExeAssumption
<1>4. b[n + 1] = "nul"
  OBVIOUS
<1> HIDE DEF n
<1>5. n + 1 \in I /\ I \in SUBSET Nat
  BY <1>1, <1>4
<1>6. Min(I) \in I /\ Min(I) <= n + 1
  BY <1>5, MinFacts
<1>7. Min(I) = n + 1
  BY <1>1, <1>3, <1>6
<1>8. FirstNul(b) - 1 = n
  BY <1>1, <1>2, <1>5, <1>7
<1>9. /\ SubSeq(b, 1, n) \in Seq(Char) /\ Len(SubSeq(b, 1, n)) = n
      /\ \A k \in 1 .. n : SubSeq(b, 1, n)[k] = b[k]
  <2>1. \A k \in 1 .. n : b[k] \in Char
    BY <1>3 DEF n
  <2>2. /\ SubSeq(b, 1, n) \in Seq(Char)
        /\ Len(SubSeq(b, 1, n)) = IF 1 <= n THEN n - 1 + 1 ELSE 0
        /\ \A k \in 1 .. n - 1 + 1 : SubSeq(b, 1, n)[k] = b[1 + k - 1]
    BY <1>1, <2>1, SubSeqProperties
  <2>3. \A k \in 1 .. n : 1 + k - 1 = k /\ k \in 1 .. n - 1 + 1
    BY <1>1
  <2> QED BY <1>1, <2>2, <2>3
<1>10. SubSeq(b, 1, n) = w
  BY <1>9, SeqEqual DEF n
<1> QED BY <1>8, <1>10

(* Type correctness, with what it needs to be inductive.                   *)
TypeInv ==
  /\ FindExeTypeOK
  /\ AtEntry(pos)
  /\ written \in 0 .. PathMax + 1
  /\ state = "execve" => Candidate \in Seq(Char)

(* What the lemmas on find_exe assume.                                     *)
LEMMA TypeInvPath == TypeInv => PathOK
BY DEF TypeInv, FindExeTypeOK, PathOK

(* What find_exe writes fits into the buffer.                              *)
LEMMA CellsFit ==
  ASSUME PathOK
  PROVE  /\ FindExe.cells \in Seq(Char \cup {"?", "nul"})
         /\ Len(FindExe.cells) <= PathMax + 1
<1>1. CASE AtEnd
  BY <1>1, FindExeAssumption DEF AtEnd
<1>2. CASE Refused
  BY <1>2 DEF Refused
<1>3. CASE Built
  <2>1. Whole \in Seq(Char) /\ Len(Whole) <= PathMax
    BY <1>3, DirFacts DEF Built
  <2>2. /\ Whole \in Seq(Char \cup {"?", "nul"})
        /\ <<"nul">> \in Seq(Char \cup {"?", "nul"})
    BY <2>1
  <2>3. /\ Whole \o <<"nul">> \in Seq(Char \cup {"?", "nul"})
        /\ Len(Whole \o <<"nul">>) = Len(Whole) + 1
    BY <2>2, ConcatProperties
  <2> QED BY <1>3, <2>1, <2>3, FindExeAssumption DEF Built
<1> QED BY <1>1, <1>2, <1>3, FindExeOutcomes

(* After find_exe has built a candidate, the buffer holds it.              *)
LEMMA FindBuffer ==
  ASSUME TypeInv, Find
  PROVE  /\ buf' \in [1 .. PathMax + 1 -> Char \cup {"?", "nul"}]
         /\ written' \in 0 .. PathMax + 1
         /\ Built => Candidate' = Whole
<1> DEFINE cells == FindExe.cells
<1>0. PathOK
  BY TypeInvPath
<1>1. cells \in Seq(Char \cup {"?", "nul"}) /\ Len(cells) <= PathMax + 1
  BY <1>0, CellsFit
<1>2. /\ buf \in [1 .. PathMax + 1 -> Char \cup {"?", "nul"}]
      /\ written \in 0 .. PathMax + 1
  BY DEF TypeInv, FindExeTypeOK
<1>3. /\ buf' = [k \in DOMAIN buf |-> IF k <= Len(cells) THEN cells[k] ELSE buf[k]]
      /\ written' = Max({written, Len(cells)})
  BY DEF Find
<1> HIDE DEF cells
<1>4. /\ Len(cells) \in Nat
      /\ PathMax \in Nat
      /\ \A k \in 1 .. Len(cells) : cells[k] \in Char \cup {"?", "nul"}
  BY <1>1, FindExeAssumption
<1>5. buf' \in [1 .. PathMax + 1 -> Char \cup {"?", "nul"}]
  BY <1>2, <1>3, <1>4
<1>6. written' \in 0 .. PathMax + 1
  <2>1. written' \in {written, Len(cells)}
    BY <1>2, <1>3, <1>4, MaxOfTwo
  <2> QED BY <1>1, <1>2, <1>4, <2>1
<1>7. ASSUME Built PROVE Candidate' = Whole
  <2>1. Whole \in Seq(Char) /\ Len(Whole) <= PathMax /\ Len(Whole) \in Nat
    BY <1>0, <1>7, DirFacts DEF Built
  <2>2. cells = Whole \o <<"nul">>
    BY <1>7 DEF Built, cells
  <2>3. /\ Len(cells) = Len(Whole) + 1
        /\ \A k \in 1 .. Len(Whole) : cells[k] = Whole[k]
        /\ cells[Len(Whole) + 1] = "nul"
    <3>1. /\ Whole \in Seq(Char \cup {"nul"})
          /\ <<"nul">> \in Seq(Char \cup {"nul"})
          /\ Len(<<"nul">>) = 1 /\ <<"nul">>[1] = "nul"
      BY <2>1
    <3>2. /\ Len(Whole \o <<"nul">>) = Len(Whole) + Len(<<"nul">>)
          /\ \A k \in 1 .. Len(Whole) + Len(<<"nul">>) :
               (Whole \o <<"nul">>)[k] =
                 IF k <= Len(Whole) THEN Whole[k] ELSE <<"nul">>[k - Len(Whole)]
      BY <3>1, ConcatProperties
    <3>3. /\ Len(Whole) + 1 \in 1 .. Len(Whole) + 1 /\ ~(Len(Whole) + 1 <= Len(Whole))
          /\ Len(Whole) + 1 - Len(Whole) = 1
      BY <2>1
    <3> QED BY <2>1, <2>2, <3>1, <3>2, <3>3
  <2>4. /\ (\A k \in 1 .. Len(Whole) : buf'[k] = Whole[k])
        /\ buf'[Len(Whole) + 1] = "nul"
    BY <1>2, <1>3, <1>4, <2>1, <2>3
  <2>5. SubSeq(buf', 1, FirstNul(buf') - 1) = Whole
    BY <1>5, <2>1, <2>4, StringInBuffer
  <2>6. Candidate' = SubSeq(buf', 1, FirstNul(buf') - 1)
    BY DEF Candidate, FirstNul, SelectInSeq
  <2> QED BY <2>5, <2>6
<1> QED BY <1>5, <1>6, <1>7

(* One round of the loop, up to execve.                                    *)
LEMMA FindKeepsTypes ==
  ASSUME TypeInv, Find
  PROVE  TypeInv'
<1>0. PathOK /\ UNCHANGED <<path, got_eaccess, tried>>
  BY TypeInvPath DEF Find
<1>1. pos' \in 1 .. Len(path) + 1 /\ AtEntry(pos')
  <2>1. /\ Start \in 1 .. Len(path) + 1 /\ AtEntry(Start) /\ Len(path) \in Nat
        /\ pos' = FindExe.next
    BY <1>0, StartFacts DEF PathOK, Find
  <2>2. CASE Built
    <3>1. End \in 1 .. Len(path) + 1
      BY <1>0, <2>1, <2>2, EndFacts DEF Built
    <3> QED BY <1>0, <2>1, <2>2, <3>1, AdvanceFacts DEF Built
  <2>3. CASE AtEnd \/ Refused
    BY <2>1, <2>3 DEF AtEnd, Refused
  <2> QED BY <1>0, <2>2, <2>3, FindExeOutcomes
<1>2. AtEntry(pos)'
  BY <1>0, <1>1 DEF AtEntry
<1>3. /\ buf' \in [1 .. PathMax + 1 -> Char \cup {"?", "nul"}]
      /\ written' \in 0 .. PathMax + 1
  BY FindBuffer
<1>4. parity' \in {0, 1}
  BY DEF Find, TypeInv, FindExeTypeOK
<1>5. state' \in {"find", "execve", "too long", "denied", "not found"}
  BY DEF Find, AfterFind
<1>6. state' = "execve" => Candidate' \in Seq(Char)
  <2>1. CASE Built
    BY <1>0, <2>1, FindBuffer, DirFacts DEF Built
  <2>2. CASE AtEnd \/ Refused
    BY <2>2 DEF AtEnd, Refused, Find, AfterFind
  <2> QED BY <1>0, <2>1, <2>2, FindExeOutcomes
<1> QED BY <1>0, <1>1, <1>2, <1>3, <1>4, <1>5, <1>6 DEF TypeInv, FindExeTypeOK

(* execve and handle_execve_err.                                           *)
LEMMA ExecveKeepsTypes ==
  ASSUME TypeInv, NEW r \in ExecveResult, Execve(r)
  PROVE  TypeInv'
<1>1. /\ UNCHANGED <<path, pos, buf, written, parity>>
      /\ state' \in {"exec", "find", "failed"}
      /\ got_eaccess' \in BOOLEAN
  BY DEF Execve, GotEaccess, TypeInv, FindExeTypeOK
<1>2. tried' \in Seq(Seq(Char) \X ExecveResult)
  <2>1. <<Candidate, r>> \in Seq(Char) \X ExecveResult
    BY DEF Execve, TypeInv
  <2>2. /\ tried \in Seq(Seq(Char) \X ExecveResult)
        /\ tried' = Append(tried, <<Candidate, r>>)
    BY DEF Execve, TypeInv, FindExeTypeOK
  <2> QED BY <2>1, <2>2, AppendProperties
<1> QED BY <1>1, <1>2 DEF TypeInv, FindExeTypeOK, AtEntry

(* TypeInv holds throughout.                                               *)
LEMMA TypeInvHolds == Spec => []TypeInv
<1>1. Init => TypeInv
  <2> SUFFICES ASSUME Init PROVE TypeInv
    OBVIOUS
  <2>1. path \in Seq(Char) /\ Len(path) \in Nat
    BY FindExeAssumption DEF Init, SeqOf
  <2>2. buf \in [1 .. PathMax + 1 -> Char \cup {"?", "nul"}]
    BY DEF Init
  <2>3. tried \in Seq(Seq(Char) \X ExecveResult)
    BY DEF Init
  <2>4. written \in 0 .. PathMax + 1
    BY FindExeAssumption DEF Init
  <2>5. /\ pos \in 1 .. Len(path) + 1 /\ AtEntry(pos) /\ parity \in {0, 1}
        /\ state = "find"
    BY <2>1 DEF Init, AtEntry
  <2>6. got_eaccess \in BOOLEAN
    BY DEF Init
  <2> QED BY <2>1, <2>2, <2>3, <2>4, <2>5, <2>6 DEF TypeInv, FindExeTypeOK
<1>2. TypeInv /\ [Next]_vars => TypeInv'
  <2> SUFFICES ASSUME TypeInv, [Next]_vars PROVE TypeInv'
    OBVIOUS
  <2>1. CASE UNCHANGED vars
    <3>1. Candidate' = Candidate
      BY <2>1 DEF vars, Candidate, SelectInSeq
    <3> QED BY <2>1, <3>1 DEF vars, TypeInv, FindExeTypeOK, AtEntry
  <2> QED BY <2>1, FindKeepsTypes, ExecveKeepsTypes DEF Next
<1> QED BY <1>1, <1>2, PTL DEF Spec

(* Type correctness of FindExe: in particular, *PATH never moves past the  *)
(* null byte and every candidate is a proper string.                       *)
THEOREM FindExeTypeCorrect == Spec => []FindExeTypeOK
BY TypeInvHolds, PTL DEF TypeInv

(* find_exe never writes past the path_max_len + 1 bytes of                *)
(* constructed_path, for every PATH and every name: syscall.c.             *)
THEOREM BufferIsNotOverrun == Spec => []InBounds
<1>1. TypeInv => InBounds
  BY FindExeAssumption DEF TypeInv, InBounds
<1> QED BY <1>1, TypeInvHolds, PTL
-----------------------------------------------------------------------------
(* What the results of the candidates tried so far are, step by step.      *)
Denied == \E k \in 1 .. Len(tried) : tried[k][2] = "EACCES"
DiagnosisInv ==
  /\ \A k \in 1 .. Len(tried) : k < Len(tried) => TryNext(tried[k][2])
  /\ state \notin {"exec", "failed"} =>
       \A k \in 1 .. Len(tried) : TryNext(tried[k][2])
  /\ state \in {"exec", "failed"} =>
       /\ Len(tried) # 0
       /\ tried[Len(tried)][2] = IF state = "exec" THEN "ok" ELSE "other"
  /\ got_eaccess <=> Denied
  /\ state = "denied" => Denied
  /\ state = "not found" => ~Denied

(* The end of PATH is reported by what got_eaccess says.                   *)
LEMMA FindKeepsDiagnosis ==
  ASSUME TypeInv, DiagnosisInv, Find
  PROVE  DiagnosisInv'
<1>1. UNCHANGED <<tried, got_eaccess>> /\ state = "find"
  BY DEF Find
<1>2. FindExe.ret \in {0, 1, -1}
  BY TypeInvPath, FindExeOutcomes DEF AtEnd, Refused, Built
<1>3. /\ state' \in {"find", "execve", "too long", "denied", "not found"}
      /\ state' = "denied" => got_eaccess
      /\ state' = "not found" => ~got_eaccess
  BY <1>2, FindExeAssumption DEF Find, AfterFind
<1> QED BY <1>1, <1>3 DEF DiagnosisInv, Denied

(* handle_execve_err lets the loop go on only after EACCES and ENOENT.     *)
LEMMA ExecveKeepsDiagnosis ==
  ASSUME TypeInv, DiagnosisInv, NEW r \in ExecveResult, Execve(r)
  PROVE  DiagnosisInv'
<1> DEFINE n == Len(tried)
<1>1. /\ n \in Nat /\ Len(tried') = n + 1
      /\ \A k \in 1 .. n : tried'[k] = tried[k]
      /\ tried'[n + 1] = <<Candidate, r>>
  <2>1. <<Candidate, r>> \in Seq(Char) \X ExecveResult
    BY DEF Execve, TypeInv
  <2>2. /\ tried \in Seq(Seq(Char) \X ExecveResult)
        /\ tried' = Append(tried, <<Candidate, r>>)
    BY DEF Execve, TypeInv, FindExeTypeOK
  <2>3. n \in Nat
    BY <2>2
  <2> QED BY <2>1, <2>2, <2>3, AppendProperties
<1>2. /\ \A k \in 1 .. n : tried'[k][2] = tried[k][2]
      /\ tried'[n + 1][2] = r
  BY <1>1
<1>3. tried'[Len(tried')][2] = r
  BY <1>1
<1>4. \A k \in 1 .. n : TryNext(tried[k][2])
  BY DEF Execve, DiagnosisInv
<1>5. /\ got_eaccess' <=> got_eaccess \/ r = "EACCES"
      /\ state' = IF r = "ok" THEN "exec" ELSE IF TryNext(r) THEN "find" ELSE "failed"
  BY DEF Execve, GotEaccess
<1> HIDE DEF n
<1>6. \A k \in 1 .. Len(tried') : k \in 1 .. n \/ k = n + 1
  BY <1>1
<1>7. Denied' <=> Denied \/ r = "EACCES"
  <2>1. ASSUME Denied PROVE Denied'
    BY <1>1, <1>2, <2>1 DEF Denied, n
  <2>2. ASSUME r = "EACCES" PROVE Denied'
    BY <1>1, <1>2, <2>2 DEF Denied
  <2>3. ASSUME Denied' PROVE Denied \/ r = "EACCES"
    BY <1>1, <1>2, <1>6, <2>3 DEF Denied, n
  <2> QED BY <2>1, <2>2, <2>3
<1>8. \A k \in 1 .. n : TryNext(tried'[k][2])
  BY <1>2, <1>4
<1>9. r # "ok" /\ ~TryNext(r) => r = "other"
  BY DEF ExecveResult, TryNext
<1>10. \A k \in 1 .. Len(tried') : k < Len(tried') => TryNext(tried'[k][2])
  BY <1>1, <1>6, <1>8
<1>11. state' = "find" => \A k \in 1 .. Len(tried') : TryNext(tried'[k][2])
  BY <1>2, <1>5, <1>6, <1>8
<1>12. got_eaccess' <=> Denied'
  BY <1>5, <1>7 DEF DiagnosisInv
<1>13. state' \in {"exec", "find", "failed"} /\ Len(tried') # 0
  BY <1>1, <1>5
<1> QED
  BY <1>3, <1>5, <1>9, <1>10, <1>11, <1>12, <1>13 DEF DiagnosisInv, TryNext

(* How the search ends is what happened to the candidates, however many    *)
(* there were: handle_execve_err and the loop around it.                   *)
THEOREM DiagnosisIsRight == Spec => []Diagnosis
<1>1. Init => DiagnosisInv
  BY DEF Init, DiagnosisInv, Denied
<1>2. TypeInv /\ DiagnosisInv /\ [Next]_vars => DiagnosisInv'
  <2> SUFFICES ASSUME TypeInv, DiagnosisInv, [Next]_vars PROVE DiagnosisInv'
    OBVIOUS
  <2>1. CASE UNCHANGED vars
    BY <2>1 DEF vars, DiagnosisInv, Denied
  <2> QED BY <2>1, FindKeepsDiagnosis, ExecveKeepsDiagnosis DEF Next
<1>3. TypeInv /\ DiagnosisInv => Diagnosis
  <2> SUFFICES ASSUME TypeInv, DiagnosisInv PROVE Diagnosis
    OBVIOUS
  <2> DEFINE results == [k \in DOMAIN tried |-> tried[k][2]]
             n == Len(tried)
  <2>0. tried \in Seq(Seq(Char) \X ExecveResult)
    BY DEF TypeInv, FindExeTypeOK
  <2>1. n \in Nat /\ DOMAIN tried = 1 .. n
    BY <2>0
  <2>2. /\ \A k \in 1 .. n : results[k] = tried[k][2]
        /\ Len(results) = n
    BY <2>1
  <2>3. n # 0 => Last(results) = tried[n][2]
    BY <2>1, <2>2 DEF Last
  <2>4. \A k \in 1 .. n : TryNext(tried[k][2]) <=> results[k] \in {"EACCES", "ENOENT"}
    BY <2>2 DEF TryNext
  <2>5. Denied <=> \E k \in DOMAIN tried : results[k] = "EACCES"
    BY <2>1, <2>2 DEF Denied
  <2> HIDE DEF results
  <2>6. \A k \in DOMAIN tried : k < Len(tried) => results[k] \in {"EACCES", "ENOENT"}
    BY <2>1, <2>4 DEF DiagnosisInv
  <2>7. /\ state = "exec" => Last(results) = "ok"
        /\ state = "failed" => Last(results) = "other"
    BY <2>3 DEF DiagnosisInv
  <2>8. state \in {"denied", "not found"} =>
          /\ \A k \in DOMAIN tried : results[k] \in {"EACCES", "ENOENT"}
          /\ state = "denied" <=> \E k \in DOMAIN tried : results[k] = "EACCES"
    BY <2>1, <2>4, <2>5 DEF DiagnosisInv
  <2> QED BY <2>6, <2>7, <2>8 DEF Diagnosis, results
<1> QED BY <1>1, <1>2, <1>3, TypeInvHolds, PTL DEF Spec
-----------------------------------------------------------------------------
(* s lists the entries behind the candidates tried: from the first entry   *)
(* of PATH on, in order, none left out.                                    *)
Lists(s) ==
  /\ s \in [1 .. Len(tried) -> Entry]
  /\ \A k \in 1 .. Len(tried) :
       /\ tried[k][1] = Join(s[k])
       /\ Before(s[k][1]) = {s[m] : m \in 1 .. k - 1}

(* What is left of PATH behind the entries listed, step by step.           *)
Reached(all) ==
  /\ state = "find" => Before(pos) = all
  /\ state = "execve" =>
       \E e \in Entry : /\ Before(e[1]) = all /\ Before(pos) = all \cup {e}
                        /\ Candidate = Join(e)
  /\ state \in {"denied", "not found"} => Entry = all
  /\ state = "too long" =>
       \E e \in Entry : Before(e[1]) = all /\ Len(Join(e)) > PathMax

Listed(s) == {s[k] : k \in 1 .. Len(tried)}
SearchInv == \E s : Lists(s) /\ Reached(Listed(s))

(* What depends on PATH alone stays as it is.                              *)
LEMMA PathFixed ==
  ASSUME path' = path
  PROVE  /\ Entry' = Entry
         /\ \A p : Before(p)' = Before(p)
         /\ \A e : Join(e)' = Join(e)
BY DEF Entry, Before, Join

(* A list stays one while nothing is tried.                                *)
LEMMA ListsFixed ==
  ASSUME path' = path, tried' = tried, NEW s
  PROVE  (Lists(s)' <=> Lists(s)) /\ Listed(s)' = Listed(s)
BY PathFixed DEF Lists, Listed

(* The switch on what find_exe returned.                                   *)
LEMMA AfterFindFacts ==
  ASSUME Find
  PROVE  /\ FindExe.ret = 0 => state' \in {"denied", "not found"}
         /\ FindExe.ret = 1 => state' = "execve"
         /\ FindExe.ret = -1 => state' \in {"find", "too long"}
<1>1. state' = AfterFind(FindExe.ret)
  BY DEF Find
<1>2. AfterFind(0) \in {"denied", "not found"}
  BY DEF AfterFind
<1>3. AfterFind(1) = "execve"
  BY DEF AfterFind
<1>4. AfterFind(-1) \in {"find", "too long"}
  BY FindExeAssumption DEF AfterFind
<1> QED BY <1>1, <1>2, <1>3, <1>4

(* find_exe takes the next entry, and leaves none out.                     *)
LEMMA FindKeepsSearch ==
  ASSUME TypeInv, SearchInv, Find
  PROVE  SearchInv'
<1>0. PathOK /\ UNCHANGED <<path, tried>> /\ state = "find"
  BY TypeInvPath DEF Find
<1>1. PICK s : Lists(s) /\ Reached(Listed(s))
  BY DEF SearchInv
<1>a. PICK all : all = Listed(s)
  OBVIOUS
<1>2. Before(pos) = all
  BY <1>0, <1>1, <1>a DEF Reached
<1>3. Lists(s)' /\ Listed(s)' = all
  BY <1>0, <1>1, <1>a, ListsFixed
<1>4. /\ Entry' = Entry /\ (\A p : Before(p)' = Before(p))
      /\ \A e : Join(e)' = Join(e)
  BY <1>0, PathFixed
<1>5. CASE AtEnd
  <2>1. state' \in {"denied", "not found"}
    BY <1>5, AfterFindFacts DEF AtEnd
  <2>2. Entry = all
    BY <1>0, <1>2, <1>5, AllSeen DEF AtEnd
  <2>3. Reached(all)'
    BY <2>1, <2>2, <1>4 DEF Reached
  <2> QED BY <1>3, <2>3 DEF SearchInv
<1>6. CASE Refused
  <2>1. state' \in {"find", "too long"} /\ pos' = Start
    BY <1>6, AfterFindFacts DEF Refused, Find
  <2>2. Before(Start) = all
    BY <1>0, <1>2, NothingSkipped
  <2>3. This \in Entry /\ This[1] = Start /\ Len(Join(This)) > PathMax
    BY <1>0, <1>6, ThisIsEntry, WholeIsJoin DEF Refused
  <2>4. Reached(all)'
    BY <1>4, <2>1, <2>2, <2>3 DEF Reached
  <2> QED BY <1>3, <2>4 DEF SearchInv
<1>7. CASE Built
  <2>1. state' = "execve" /\ pos' = Advance(Start, End)
    BY <1>7, AfterFindFacts DEF Built, Find
  <2>2. This \in Entry /\ This[1] = Start /\ Before(Start) = all
    BY <1>0, <1>2, <1>7, ThisIsEntry, NothingSkipped DEF Built
  <2>3. Before(pos') = all \cup {This}
    BY <1>0, <1>2, <1>7, <2>1, NextEntry DEF Built
  <2>4. Candidate' = Join(This)
    BY <1>0, <1>7, FindBuffer, WholeIsJoin DEF Built
  <2>5. Reached(all)'
    BY <1>4, <2>1, <2>2, <2>3, <2>4 DEF Reached
  <2> QED BY <1>3, <2>5 DEF SearchInv
<1> QED BY <1>0, <1>5, <1>6, <1>7, FindExeOutcomes

(* execve adds the entry to the list.                                      *)
LEMMA ExecveKeepsSearch ==
  ASSUME TypeInv, SearchInv, NEW r \in ExecveResult, Execve(r)
  PROVE  SearchInv'
<1>0. /\ UNCHANGED <<path, pos>> /\ state = "execve"
      /\ state' \in {"exec", "find", "failed"}
  BY DEF Execve
<1>1. PICK s : Lists(s) /\ Reached(Listed(s))
  BY DEF SearchInv
<1>2. PICK n \in Nat : n = Len(tried)
  <2>1. tried \in Seq(Seq(Char) \X ExecveResult)
    BY DEF TypeInv, FindExeTypeOK
  <2>2. Len(tried) \in Nat
    BY <2>1
  <2> QED BY <2>2
<1>3. PICK e \in Entry : /\ Before(e[1]) = Listed(s)
                         /\ Before(pos) = Listed(s) \cup {e}
                         /\ Candidate = Join(e)
  BY <1>0, <1>1 DEF Reached
<1>4. /\ Len(tried') = n + 1
      /\ \A k \in 1 .. n : tried'[k] = tried[k]
      /\ tried'[n + 1] = <<Candidate, r>>
  <2>1. <<Candidate, r>> \in Seq(Char) \X ExecveResult
    BY <1>0 DEF TypeInv
  <2>2. /\ tried \in Seq(Seq(Char) \X ExecveResult)
        /\ tried' = Append(tried, <<Candidate, r>>)
    BY DEF Execve, TypeInv, FindExeTypeOK
  <2> QED BY <1>2, <2>1, <2>2, AppendProperties
<1>5. /\ Entry' = Entry /\ (\A p : Before(p)' = Before(p))
      /\ \A d : Join(d)' = Join(d)
  BY <1>0, PathFixed
<1>6. /\ s \in [1 .. n -> Entry]
      /\ \A k \in 1 .. n : /\ tried[k][1] = Join(s[k])
                           /\ Before(s[k][1]) = {s[m] : m \in 1 .. k - 1}
  BY <1>1, <1>2 DEF Lists
<1>7. Listed(s) = {s[k] : k \in 1 .. n}
  BY <1>2 DEF Listed
<1>8. PICK t : t = [k \in 1 .. n + 1 |-> IF k <= n THEN s[k] ELSE e]
  OBVIOUS
<1>9. /\ t \in [1 .. n + 1 -> Entry] /\ t[n + 1] = e
      /\ \A k \in 1 .. n : t[k] = s[k]
  BY <1>6, <1>8
<1>10. ASSUME NEW k \in 1 .. n + 1
       PROVE  /\ tried'[k][1] = Join(t[k])
              /\ Before(t[k][1]) = {t[m] : m \in 1 .. k - 1}
  <2>1. CASE k \in 1 .. n
    <3>1. {t[m] : m \in 1 .. k - 1} = {s[m] : m \in 1 .. k - 1}
      <4>1. \A m \in 1 .. k - 1 : t[m] = s[m]
        BY <1>9, <2>1
      <4> QED BY <4>1
    <3> QED BY <1>4, <1>6, <1>9, <2>1, <3>1
  <2>2. CASE k = n + 1
    <3>1. {t[m] : m \in 1 .. k - 1} = {s[m] : m \in 1 .. n}
      <4>1. k - 1 = n
        BY <2>2
      <4> QED BY <1>9, <4>1
    <3> QED BY <1>3, <1>4, <1>7, <1>9, <2>2, <3>1
  <2> QED BY <2>1, <2>2
<1>11. {t[k] : k \in 1 .. n + 1} = Before(pos)
  <2>1. \A k \in 1 .. n + 1 : k \in 1 .. n \/ k = n + 1
    OBVIOUS
  <2>2. n + 1 \in 1 .. n + 1 /\ \A k \in 1 .. n : k \in 1 .. n + 1
    OBVIOUS
  <2> QED BY <1>3, <1>7, <1>9, <2>1, <2>2
<1>12. Lists(t)'
  BY <1>4, <1>5, <1>9, <1>10 DEF Lists
<1>13. PICK all : all = Before(pos)
  OBVIOUS
<1>14. Listed(t)' = all
  BY <1>4, <1>11, <1>13 DEF Listed
<1>15. Reached(all)'
  BY <1>0, <1>5, <1>13 DEF Reached
<1> QED BY <1>12, <1>14, <1>15 DEF SearchInv

(* The candidates are tried in the order of PATH, none twice and none left *)
(* out, and each is its entry joined to the name with one slash, for every *)
(* PATH and every name; the search gives up only when all were tried or    *)
(* the next one does not fit: syscall.c, and the loop around it.           *)
THEOREM CandidatesInOrder == Spec => []TriesInOrder
<1>1. Init => SearchInv
  <2> SUFFICES ASSUME Init PROVE SearchInv
    OBVIOUS
  <2>1. Len(tried) = 0 /\ 1 .. 0 = {} /\ pos = 1 /\ state = "find"
    BY DEF Init
  <2>2. path \in Seq(Char) /\ Len(path) \in Nat
    BY FindExeAssumption DEF Init, SeqOf
  <2>3. Before(pos) = {}
    <3>1. \A e \in Entry : e[1] \in 1 .. Len(path)
      BY DEF Entry
    <3> QED BY <2>1, <2>2, <3>1 DEF Before
  <2>4. PICK s : s = [k \in 1 .. 0 |-> k]
    OBVIOUS
  <2>5. Lists(s) /\ Listed(s) = {}
    BY <2>1, <2>4 DEF Lists, Listed
  <2>6. Reached({})
    BY <2>1, <2>3 DEF Reached
  <2> QED BY <2>5, <2>6 DEF SearchInv
<1>2. TypeInv /\ SearchInv /\ [Next]_vars => SearchInv'
  <2> SUFFICES ASSUME TypeInv, SearchInv, [Next]_vars PROVE SearchInv'
    OBVIOUS
  <2>1. CASE UNCHANGED vars
    <3>1. UNCHANGED <<path, pos, tried, state>> /\ Candidate' = Candidate
      BY <2>1 DEF vars, Candidate, SelectInSeq
    <3>2. PICK s : Lists(s) /\ Reached(Listed(s))
      BY DEF SearchInv
    <3>3. PICK all : all = Listed(s)
      OBVIOUS
    <3>4. Lists(s)' /\ Listed(s)' = all
      BY <3>1, <3>2, <3>3, ListsFixed
    <3>5. Reached(all)
      BY <3>2, <3>3
    <3>6. /\ Entry' = Entry /\ (\A p : Before(p)' = Before(p))
          /\ \A e : Join(e)' = Join(e)
      BY <3>1, PathFixed
    <3>7. Reached(all)'
      BY <3>1, <3>5, <3>6 DEF Reached
    <3> QED BY <3>4, <3>7 DEF SearchInv
  <2> QED BY <2>1, FindKeepsSearch, ExecveKeepsSearch DEF Next
<1>3. TypeInv /\ SearchInv => TriesInOrder
  <2> SUFFICES ASSUME TypeInv, SearchInv PROVE TriesInOrder
    OBVIOUS
  <2>1. tried \in Seq(Seq(Char) \X ExecveResult)
    BY DEF TypeInv, FindExeTypeOK
  <2>2. DOMAIN tried = 1 .. Len(tried)
    BY <2>1
  <2>3. PICK s : Lists(s) /\ Reached(Listed(s))
    BY DEF SearchInv
  <2>4. s \in [DOMAIN tried -> Entry]
    BY <2>2, <2>3 DEF Lists
  <2>5. \A k \in DOMAIN tried : /\ tried[k][1] = Join(s[k])
                                /\ Before(s[k][1]) = {s[m] : m \in 1 .. k - 1}
    BY <2>2, <2>3 DEF Lists
  <2>6. Listed(s) = {s[k] : k \in DOMAIN tried}
    BY <2>2 DEF Listed
  <2>7. /\ state \in {"denied", "not found"} => Entry = Listed(s)
        /\ state = "too long" =>
             \E e \in Entry : Before(e[1]) = Listed(s) /\ Len(Join(e)) > PathMax
    BY <2>3 DEF Reached
  <2> QED BY <2>4, <2>5, <2>6, <2>7 DEF TriesInOrder
<1> QED BY <1>1, <1>2, <1>3, TypeInvHolds, PTL DEF Spec
=============================================================================
