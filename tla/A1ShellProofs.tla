--------------------------- MODULE A1ShellProofs ----------------------------
(***************************************************************************)
(* Proofs about A1Shell and the variable memory, for every table, every    *)
(* limit on open files, every set of scripts and every line typed.         *)
(***************************************************************************)
EXTENDS A1Shell, CountingLemmas, SequenceTheorems

Call == [kind : {"script", "directory", "branch"}, lines : Seq(Line)]

-----------------------------------------------------------------------------
(* What the operators return.                                              *)

\* InOrder lists a set of word numbers.
LEMMA InOrderType ==
    ASSUME NEW b \in Nat, NEW S \in SUBSET (0..b)
    PROVE  InOrder(S) \in [1..Cardinality(S) -> S]
BY Listing DEF InOrder

\* executeCommands cuts a part of the line into commands, each a sequence of
\* words of the line.
LEMMA CommandsType ==
    ASSUME words \in Line, NEW start \in Nat \ {0}, NEW end \in 0..Len(words)
    PROVE  Commands(start, end) \in Seq(Line)
<1> DEFINE last == {i \in start..end - 1 : i + 1 = end \/ words[i + 1] \in {"else", "fi"}}
           from(i) == LET earlier == {j \in last : j < i}
                      IN IF earlier = {} THEN start ELSE Max(earlier) + 2
           order == InOrder(last)
<1>1. Len(words) \in Nat /\ \A i \in 1..Len(words) : words[i] \in Word
  BY LenProperties DEF Line
<1>2. last \in SUBSET (0..Len(words)) /\ last \in SUBSET (start..end - 1)
  BY <1>1
<1>3. order \in [1..Cardinality(last) -> last]
  <2> HIDE DEF last
  <2> QED
    BY <1>1, <1>2, InOrderType
<1>4. Cardinality(last) \in Nat
  <2>1. IsFiniteSet(0..Len(words))
    BY <1>1, FS_Interval
  <2> QED
    BY <2>1, <1>2, FS_Subset, FS_CardinalityType
<1>5. ASSUME NEW i \in last PROVE SubSeq(words, from(i), i) \in Line
  <2> DEFINE earlier == {j \in last : j < i}
  <2>1. i \in Nat /\ i \in 1..Len(words)
    BY <1>1, <1>2
  <2>2. from(i) \in Nat \ {0}
    <3>1. CASE earlier = {}
      BY <3>1
    <3>2. CASE earlier # {}
      <4>1. earlier \in SUBSET (0..Len(words))
        BY <1>2
      <4>2. PICK m \in earlier : \A k \in earlier : k <= m
        <5> HIDE DEF earlier
        <5> QED
          BY <3>2, <4>1, <1>1, GreatestNat
      <4>3. m \in Nat /\ \A k \in earlier : k \in Nat
        BY <4>1, <1>1
      <4>4. \A y \in earlier : m >= y
        BY <4>2, <4>3
      <4>5. Max(earlier) \in earlier
        <5> HIDE DEF earlier
        <5> QED
          BY <4>2, <4>4 DEF Max
      <4>6. Max(earlier) \in Nat
        BY <4>5, <4>3
      <4> HIDE DEF earlier
      <4>7. Max(earlier) + 2 \in Nat \ {0}
        BY <4>6
      <4>8. from(i) = Max(earlier) + 2
        BY <3>2 DEF earlier
      <4> QED
        BY <4>7, <4>8
    <3> QED
      BY <3>1, <3>2
  <2> HIDE DEF from, last
  <2>3. \A k \in from(i)..i : words[k] \in Word
    BY <2>1, <2>2, <1>1
  <2>4. from(i) \in Int /\ i \in Int
    BY <2>1, <2>2
  <2> QED
    BY <2>3, <2>4, SubSeqProperties DEF Line
<1> DEFINE n == Cardinality(last)
           c(k) == SubSeq(words, from(order[k]), order[k])
<1>6. Commands(start, end) = [k \in DOMAIN order |-> c(k)]
  BY DEF Commands
<1>7. DOMAIN order = 1..n
  BY <1>3
<1>8. \A k \in 1..n : c(k) \in Line
  <2> HIDE DEF last, from
  <2> QED
    BY <1>3, <1>5
<1>9. n \in Nat
  BY <1>4
<1>10. [k \in 1..n |-> c(k)] \in Seq(Line)
  <2> HIDE DEF n, c
  <2> QED
    BY <1>8, <1>9, IsASeq
<1> QED
  BY <1>6, <1>7, <1>10

\* The words of an accepted if hold an else in front of the last one, and both
\* branches are sequences of commands.
LEMMA BranchType ==
    ASSUME words \in Line, Interpret("if"), IfAccepted
    PROVE  Branch \in Seq(Line)
<1>1. Len(words) \in Nat /\ Len(words) >= 7
  <2>1. Len(words) \in 7..MAX_WORDS
    BY DEF Interpret, Accepts, Arity
  <2>2. Len(words) \in Nat
    BY LenProperties DEF Line
  <2>3. \A n \in 7..100 : n >= 7
    OBVIOUS
  <2> QED
    BY <2>1, <2>2, <2>3, Zenon DEF MAX_WORDS
<1> DEFINE S == {i \in 5..Len(words) : words[i] = "else"} \cup {Len(words) + 1}
<1>2. S \in SUBSET Nat /\ S # {} /\ \A i \in S : i >= 5
  BY <1>1
<1> HIDE DEF S
<1>3. PICK m \in S : \A k \in S : m <= k
  BY <1>2, LeastNat
<1>4. Min(S) \in S
  BY <1>3 DEF Min
<1>5. ElseIndex \in Nat /\ ElseIndex >= 5
  BY <1>2, <1>4 DEF ElseIndex, S
<1>6. ElseIndex \in 0..Len(words) /\ ElseIndex + 1 \in Nat \ {0} /\ Len(words) \in 0..Len(words)
  BY <1>1, <1>5 DEF IfAccepted
<1>7. 6 \in Nat \ {0}
  OBVIOUS
<1>8. Commands(6, ElseIndex) \in Seq(Line)
  BY <1>6, <1>7, CommandsType
<1>9. Commands(ElseIndex + 1, Len(words)) \in Seq(Line)
  BY <1>6, CommandsType
<1> QED
  BY <1>8, <1>9 DEF Branch

\* A stack is its calls but the last, and the last.
LEMMA TopOfStack ==
    ASSUME NEW s \in Seq(Call), s # <<>>
    PROVE  Front(s) \in Seq(Call) /\ Last(s) \in Call /\ s = Append(Front(s), Last(s))
<1>1. Len(s) \in Nat \ {0} /\ \A i \in 1..Len(s) : s[i] \in Call
  BY EmptySeq, LenProperties
<1>2. /\ Front(s) \in Seq(Call) /\ Len(Front(s)) = Len(s) - 1
      /\ \A i \in 1..Len(s) - 1 : Front(s)[i] = s[i]
  <2>1. 1 \in Int /\ Len(s) - 1 \in Int /\ \A i \in 1..Len(s) - 1 : s[i] \in Call
    BY <1>1
  <2>2. /\ Front(s) \in Seq(Call)
        /\ Len(Front(s)) = IF 1 <= Len(s) - 1 THEN Len(s) - 1 - 1 + 1 ELSE 0
        /\ \A i \in 1..Len(s) - 1 - 1 + 1 : Front(s)[i] = s[1 + i - 1]
    BY <2>1, SubSeqProperties DEF Front
  <2>3. \A n \in Nat \ {0} : (IF 1 <= n - 1 THEN n - 1 - 1 + 1 ELSE 0) = n - 1
    OBVIOUS
  <2>4. Len(Front(s)) = Len(s) - 1
    BY <1>1, <2>2, <2>3, Zenon
  <2>5. \A i \in 1..Len(s) - 1 : Front(s)[i] = s[i]
    BY <1>1, <2>2
  <2> QED
    BY <2>2, <2>4, <2>5
<1>3. Last(s) \in Call /\ Last(s) = s[Len(s)]
  BY <1>1 DEF Last
<1>4. /\ Append(Front(s), Last(s)) \in Seq(Call)
      /\ Len(Append(Front(s), Last(s))) = Len(s)
      /\ \A i \in 1..Len(s) : Append(Front(s), Last(s))[i] = s[i]
  BY <1>1, <1>2, <1>3, AppendProperties
<1> QED
  BY <1>2, <1>3, <1>4, SeqEqual

RunningIn(s) == {i \in DOMAIN s : s[i].kind # "branch"}

\* A call that is added to a stack adds one to the files that run reads, or none.
LEMMA CountAppend ==
    ASSUME NEW s \in Seq(Call), NEW r \in Call
    PROVE  /\ Append(s, r) \in Seq(Call)
           /\ Cardinality(RunningIn(s)) \in Nat
           /\ Cardinality(RunningIn(Append(s, r))) =
                Cardinality(RunningIn(s)) + (IF r.kind # "branch" THEN 1 ELSE 0)
<1> DEFINE t == Append(s, r)
<1>1. Len(s) \in Nat /\ DOMAIN s = 1..Len(s)
  BY LenProperties
<1>2. t \in Seq(Call) /\ Len(t) = Len(s) + 1 /\ DOMAIN t = 1..Len(s) + 1
  BY <1>1, AppendProperties, LenProperties
<1>3. t[Len(s) + 1] = r /\ \A i \in 1..Len(s) : t[i] = s[i]
  BY <1>1, AppendProperties
<1>4. IsFiniteSet(RunningIn(s)) /\ Cardinality(RunningIn(s)) \in Nat
  <2>1. IsFiniteSet(1..Len(s)) /\ RunningIn(s) \subseteq 1..Len(s)
    BY <1>1, FS_Interval DEF RunningIn
  <2> QED
    BY <2>1, FS_Subset, FS_CardinalityType
<1> HIDE DEF t
<1>5. CASE r.kind # "branch"
  <2>1. RunningIn(t) = RunningIn(s) \cup {Len(s) + 1} /\ Len(s) + 1 \notin RunningIn(s)
    BY <1>1, <1>2, <1>3, <1>5 DEF RunningIn
  <2> QED
    BY <2>1, <1>2, <1>4, <1>5, FS_AddElement, ZenonT(60) DEF t
<1>6. CASE r.kind = "branch"
  <2>1. RunningIn(t) = RunningIn(s)
    BY <1>1, <1>2, <1>3, <1>6 DEF RunningIn
  <2> QED
    BY <2>1, <1>2, <1>4, <1>6 DEF t
<1> QED
  BY <1>5, <1>6

-----------------------------------------------------------------------------
(* The variable memory.                                                    *)

MemOK == shellmemory \in [1..Slots -> [var : Word, value : Line]] /\ OneSlot

\* The loops of mem_set_value and mem_get_value stop at a slot they look for.
LEMMA FirstFound ==
    ASSUME NEW S \in SUBSET (1..Slots), S # {}
    PROVE  First(S) \in S
<1>1. S \in SUBSET Nat
  BY SlotsAssumption
<1>2. \E m \in S : \A k \in S : m <= k
  BY <1>1, LeastNat
<1> QED
  BY <1>2 DEF First

\* mem_set_value changes nothing, or one slot: the name's own, or a free one
\* if the name has none.
LEMMA SetSlot ==
    ASSUME MemOK, NEW n \in Word, NEW v \in Line, v # <<>>, mem_set_value(n, v)
    PROVE  \/ shellmemory' = shellmemory
           \/ \E i \in 1..Slots :
                /\ \/ shellmemory[i].var = n
                   \/ /\ shellmemory[i].var = "none"
                      /\ \A j \in 1..Slots : shellmemory[j].var # n
                /\ shellmemory' = [shellmemory EXCEPT ![i] = [var |-> n, value |-> v]]
<1> DEFINE slots == IF Holding(n) # {} THEN Holding(n) ELSE Holding("none")
<1>1. CASE slots = {}
  BY <1>1 DEF mem_set_value
<1>2. CASE slots # {}
  <2> DEFINE i == First(slots)
  <2>1. slots \in SUBSET (1..Slots)
    BY DEF Holding
  <2>2. i \in slots
    BY <1>2, <2>1, FirstFound
  <2>3. shellmemory' = [shellmemory EXCEPT ![i] = [var |-> n, value |-> v]]
    BY <1>2 DEF mem_set_value
  <2>4. i \in 1..Slots
    BY <2>1, <2>2
  <2>5. \/ shellmemory[i].var = n
        \/ /\ shellmemory[i].var = "none"
           /\ \A j \in 1..Slots : shellmemory[j].var # n
    BY <2>2 DEF Holding
  <2> HIDE DEF i, slots
  <2> QED
    BY <2>3, <2>4, <2>5
<1> QED
  BY <1>1, <1>2

\* A set keeps the table in order.
LEMMA SetKeepsOrder ==
    ASSUME MemOK, NEW n \in Word, NEW v \in Line, v # <<>>, mem_set_value(n, v)
    PROVE  MemOK'
<1>1. CASE shellmemory' = shellmemory
  BY <1>1 DEF MemOK, OneSlot
<1>2. ASSUME NEW i \in 1..Slots,
             \/ shellmemory[i].var = n
             \/ /\ shellmemory[i].var = "none"
                /\ \A j \in 1..Slots : shellmemory[j].var # n,
             shellmemory' = [shellmemory EXCEPT ![i] = [var |-> n, value |-> v]]
      PROVE  MemOK'
  <2>1. /\ shellmemory' \in [1..Slots -> [var : Word, value : Line]]
        /\ shellmemory'[i].var = n /\ shellmemory'[i].value = v
        /\ \A j \in 1..Slots : j # i => shellmemory'[j] = shellmemory[j]
    BY <1>2 DEF MemOK
  <2>2. \A j \in 1..Slots : j # i /\ shellmemory[j].var # "none" => shellmemory[j].var # n
    BY <1>2 DEF MemOK, OneSlot
  <2>3. OneSlot'
    BY <2>1, <2>2, <1>2 DEF MemOK, OneSlot
  <2> QED
    BY <2>1, <2>3 DEF MemOK
<1> QED
  BY <1>1, <1>2, SetSlot

\* What a variable is, from the slot that has its name.
ReadsSlots ==
    /\ Variables = [m \in Names |-> Variables[m]]
    /\ \A m \in Names :
         \/ (\A i \in 1..Slots : shellmemory[i].var # m) /\ Variables[m] = <<>>
         \/ \E i \in 1..Slots : /\ shellmemory[i].var = m
                                /\ Variables[m] = shellmemory[i].value
                                /\ Variables[m] # <<>>

\* A variable is set exactly when a slot has its name.
LEMMA VariablesRead == MemOK => ReadsSlots
<1> SUFFICES ASSUME MemOK PROVE ReadsSlots
  OBVIOUS
<1>1. Variables = [m \in Names |-> Variables[m]]
  BY DEF Variables
<1>2. ASSUME NEW m \in Names
      PROVE  \/ (\A i \in 1..Slots : shellmemory[i].var # m) /\ Variables[m] = <<>>
             \/ \E i \in 1..Slots : /\ shellmemory[i].var = m
                                    /\ Variables[m] = shellmemory[i].value
                                    /\ Variables[m] # <<>>
  <2>1. CASE Holding(m) = {}
    BY <2>1 DEF Variables, Holding
  <2>2. CASE Holding(m) # {}
    <3> DEFINE i == First(Holding(m))
    <3>1. i \in Holding(m)
      BY <2>2, FirstFound DEF Holding
    <3>2. i \in 1..Slots /\ shellmemory[i].var = m /\ m # "none"
      BY <3>1, NamesAssumption DEF Holding
    <3>3. Variables[m] = shellmemory[i].value
      BY <2>2 DEF Variables, mem_get_value
    <3>4. shellmemory[i].value # <<>>
      BY <3>2 DEF MemOK, OneSlot
    <3> HIDE DEF i
    <3> QED
      BY <3>2, <3>3, <3>4
  <2> QED
    BY <2>1, <2>2
<1> QED
  BY <1>1, <1>2 DEF ReadsSlots

\* The variables that are set have slots of their own: while a slot is free
\* there are fewer of them than slots.
LEMMA RoomLeft ==
    ASSUME MemOK, ReadsSlots, NEW i \in 1..Slots, shellmemory[i].var = "none"
    PROVE  Cardinality({m \in Names : Variables[m] # <<>>}) < Slots
<1> DEFINE S == {m \in Names : Variables[m] # <<>>}
           T == (1..Slots) \ {i}
           slot(m) == CHOOSE j \in 1..Slots : shellmemory[j].var = m
           f == [m \in S |-> slot(m)]
<1>1. \A m \in S : \E j \in 1..Slots : shellmemory[j].var = m
  BY DEF ReadsSlots
<1>2. \A m \in S : slot(m) \in 1..Slots /\ shellmemory[slot(m)].var = m
  BY <1>1
<1>3. \A m \in S : m # "none"
  BY NamesAssumption
<1>4. f \in Injection(S, T)
  <2> HIDE DEF S, slot
  <2>1. f \in [S -> T]
    BY <1>2, <1>3
  <2>2. \A a, b \in S : f[a] = f[b] => a = b
    BY <1>2
  <2> QED
    BY <2>1, <2>2 DEF Injection, IsInjective
<1>5. IsFiniteSet(1..Slots) /\ Cardinality(1..Slots) = Slots
  BY SlotsAssumption, FS_Interval
<1>6. IsFiniteSet(T) /\ Cardinality(T) = Slots - 1
  BY <1>5, FS_RemoveElement
<1>7. IsFiniteSet(S) /\ Cardinality(S) <= Cardinality(T)
  <2> HIDE DEF S, T, f
  <2> QED
    BY <1>4, <1>6, FS_Injection
<1>8. Cardinality(S) \in Nat
  BY <1>7, FS_CardinalityType
<1> HIDE DEF S, T
<1>9. Cardinality(S) < Slots
  BY <1>6, <1>7, <1>8, SlotsAssumption
<1> QED
  BY <1>9 DEF S

\* mem_set_value is a step of the abstract store, or leaves it alone.
LEMMA SetRefines ==
    ASSUME MemOK, ReadsSlots, ReadsSlots',
           NEW n \in Word, NEW v \in Line, v # <<>>, mem_set_value(n, v)
    PROVE  \/ \E m \in Names : Store!Set(m)
           \/ Variables' = Variables
<1>1. CASE shellmemory' = shellmemory
  BY <1>1 DEF Variables, Holding, mem_get_value
<1>2. ASSUME NEW i \in 1..Slots,
             \/ shellmemory[i].var = n
             \/ /\ shellmemory[i].var = "none"
                /\ \A j \in 1..Slots : shellmemory[j].var # n,
             shellmemory' = [shellmemory EXCEPT ![i] = [var |-> n, value |-> v]]
      PROVE  \/ \E m \in Names : Store!Set(m)
             \/ Variables' = Variables
  <2>1. /\ shellmemory'[i].var = n /\ shellmemory'[i].value = v
        /\ \A j \in 1..Slots : j # i => shellmemory'[j] = shellmemory[j]
    BY <1>2 DEF MemOK
  <2>2. \A j \in 1..Slots : j # i /\ shellmemory[j].var # "none" => shellmemory[j].var # n
    BY <1>2 DEF MemOK, OneSlot
  <2>3. ASSUME NEW m \in Names, m # n PROVE Variables'[m] = Variables[m]
    <3>1. m # "none" /\ shellmemory[i].var # m /\ shellmemory'[i].var # m
      BY <1>2, <2>1, <2>3, NamesAssumption
    <3>2. \A j \in 1..Slots : shellmemory'[j].var = m <=> shellmemory[j].var = m
      BY <3>1, <2>1
    <3>3. CASE \A j \in 1..Slots : shellmemory[j].var # m
      BY <3>2, <3>3 DEF ReadsSlots
    <3>4. ASSUME NEW j \in 1..Slots, shellmemory[j].var = m PROVE Variables'[m] = Variables[m]
      <4>1. j # i /\ shellmemory'[j] = shellmemory[j]
        BY <3>1, <3>4, <2>1
      <4>2. Variables[m] = shellmemory[j].value
        BY <3>1, <3>4 DEF ReadsSlots, MemOK, OneSlot
      <4>3. PICK k \in 1..Slots : shellmemory'[k].var = m /\ Variables'[m] = shellmemory'[k].value
        BY <3>2, <3>4 DEF ReadsSlots
      <4>4. k = j
        BY <4>3, <3>1, <3>2, <3>4 DEF MemOK, OneSlot
      <4> QED
        BY <4>1, <4>2, <4>3, <4>4
    <3> QED
      BY <3>3, <3>4
  <2>4. CASE n \notin Names
    BY <2>3, <2>4 DEF ReadsSlots
  <2>5. CASE n \in Names
    <3>1. Variables'[n] # <<>>
      BY <2>1, <2>5 DEF ReadsSlots
    <3>2. Variables' = [Variables EXCEPT ![n] = Variables'[n]]
      BY <2>3, <2>5 DEF ReadsSlots
    <3>3. Variables[n] # <<>> \/ Store!Room
      <4>1. CASE shellmemory[i].var = n
        BY <4>1, <2>5 DEF ReadsSlots
      <4>2. CASE shellmemory[i].var = "none"
        <5>1. Cardinality({m \in Names : Variables[m] # <<>>}) < Slots
          BY <4>2, RoomLeft
        <5>2. \A S : Store!Cardinality(S) = Cardinality(S)
          BY Zenon DEF Store!Cardinality, Cardinality
        <5> QED
          BY <5>1, <5>2, Zenon DEF Store!Room, Store!IsSet
      <4> QED
        BY <4>1, <4>2, <1>2
    <3> QED
      BY <2>5, <3>1, <3>2, <3>3 DEF Store!Set, Store!IsSet
  <2> QED
    BY <2>4, <2>5
<1> QED
  BY <1>1, <1>2, SetSlot

-----------------------------------------------------------------------------
(* The invariant.                                                          *)

\* mem_init and main establish it.
LEMMA InitIInv == Init => IInv
<1> SUFFICES ASSUME Init PROVE IInv
  OBVIOUS
<1>1. shellmemory \in [1..Slots -> [var : Word, value : Line]] /\ OneSlot
  <2>1. <<"none">> \in Line
    BY WordAssumption DEF Line
  <2> DEFINE none == <<"none">>
  <2>2. shellmemory = [i \in 1..Slots |-> [var |-> "none", value |-> none]]
    BY DEF Init, mem_init, FreeSlot
  <2>3. none \in Line
    BY <2>1
  <2> HIDE DEF none
  <2>4. \A i \in 1..Slots : shellmemory[i].var = "none"
    BY <2>2
  <2>6. shellmemory \in [1..Slots -> [var : Word, value : Line]]
    BY <2>2, <2>3, WordAssumption
  <2> QED
    BY <2>4, <2>6 DEF OneSlot
<1>2. stack = <<>> /\ stack \in Seq([kind : {"script", "directory", "branch"}, lines : Seq(Line)])
  BY EmptySeq DEF Init
<1>3. words \in Line
  BY EmptySeq DEF Init, Line
<1>4. TypeOK
  BY <1>1, <1>2, <1>3, ShellAssumption DEF Init, TypeOK
<1>5. open = Cardinality(Running)
  <2>1. Running = {}
    BY <1>2 DEF Running
  <2> QED
    BY <2>1, FS_EmptySet DEF Init
<1> QED
  BY <1>1, <1>4, <1>5 DEF IInv, OpenWhileRunning

\* set is given at least one word for the value.
LEMMA ValueType ==
    ASSUME words \in Line, Interpret("set")
    PROVE  words[2] \in Word /\ Value(words) \in Line /\ Value(words) # <<>>
<1>1. Len(words) \in Nat /\ \A i \in 1..Len(words) : words[i] \in Word
  BY LenProperties DEF Line
<1>2. Len(words) \in 3..7
  BY DEF Interpret, Accepts, Arity
<1>3. \A n \in 3..7 : n >= 3 /\ 2 \in 1..n /\ (IF 3 <= n THEN n - 3 + 1 ELSE 0) # 0 /\ n \in Int
  OBVIOUS
<1>4. 2 \in 1..Len(words) /\ Len(words) \in Int /\ (IF 3 <= Len(words) THEN Len(words) - 3 + 1 ELSE 0) # 0
  BY <1>2, <1>3, Zenon
<1>5. \A i \in 3..Len(words) : words[i] \in Word
  BY <1>1
<1>6. /\ Value(words) \in Seq(Word)
      /\ Len(Value(words)) = IF 3 <= Len(words) THEN Len(words) - 3 + 1 ELSE 0
  BY <1>4, <1>5, SubSeqProperties DEF Value
<1>7. Len(<<>>) = 0
  BY EmptySeq
<1>8. Value(words) # <<>>
  BY <1>4, <1>6, <1>7, Zenon
<1> QED
  BY <1>1, <1>4, <1>6, <1>8 DEF Line

\* A step that leaves the stack, the open files and the memory alone keeps the
\* invariant if it keeps the rest of the types.
LEMMA SameCalls ==
    ASSUME IInv, UNCHANGED <<shellmemory, stack, open>>,
           cwd' \in dirs', \A f \in DOMAIN files' : files'[f] \in TextFile,
           mode' \in {"prompt", "interpret", "return", "exit", "tailf"}, mode # "undefined",
           words' \in Line, code' \in {-1, 0, 1, 3}
    PROVE  IInv'
BY DEF IInv, OpenWhileRunning, Running, OneSlot, TypeOK

\* A call is pushed: run opens a file for a script, if opens none.
LEMMA Pushed ==
    ASSUME IInv, UNCHANGED <<shellmemory, host, words>>, mode # "undefined",
           NEW r \in Call, stack' = Append(stack, r),
           open' = open + (IF r.kind # "branch" THEN 1 ELSE 0), open' <= MaxOpen,
           mode' = "return", code' = 0
    PROVE  IInv'
<1>1. stack \in Seq(Call) /\ open = Cardinality(Running)
  BY DEF IInv, OpenWhileRunning, TypeOK, Call
<1>2. /\ stack' \in Seq(Call)
      /\ Cardinality(RunningIn(stack)) \in Nat
      /\ Cardinality(RunningIn(stack')) = Cardinality(RunningIn(stack)) + (IF r.kind # "branch" THEN 1 ELSE 0)
  BY <1>1, CountAppend
<1>3. open' = Cardinality(Running') /\ open' \in Nat
  <2>1. Running = RunningIn(stack) /\ Running' = RunningIn(stack')
    BY DEF Running, RunningIn
  <2> QED
    BY <1>1, <1>2, <2>1
<1>4. TypeOK'
  BY <1>2, <1>3, ShellAssumption DEF IInv, OpenWhileRunning, TypeOK, Call, host
<1> QED
  BY <1>3, <1>4 DEF IInv, OpenWhileRunning, OneSlot

\* The last call is popped: the end of a script closes a file.
LEMMA Popped ==
    ASSUME IInv, Leave, mode = "return", stack # <<>>, UNCHANGED code,
           open' = open - (IF Last(stack).kind # "branch" THEN 1 ELSE 0)
    PROVE  IInv'
<1> DEFINE r == Last(stack)
<1>1. stack \in Seq(Call) /\ open = Cardinality(Running)
  BY DEF IInv, OpenWhileRunning, TypeOK, Call
<1>2. Front(stack) \in Seq(Call) /\ r \in Call /\ stack = Append(Front(stack), r)
  BY <1>1, TopOfStack
<1>3. /\ Cardinality(RunningIn(Front(stack))) \in Nat
      /\ Cardinality(RunningIn(Append(Front(stack), r))) =
           Cardinality(RunningIn(Front(stack))) + (IF r.kind # "branch" THEN 1 ELSE 0)
  BY <1>2, CountAppend
<1>4. stack' = Front(stack)
  BY DEF Leave
<1> HIDE DEF r
<1>5. open' = Cardinality(Running') /\ open' \in Nat /\ open' <= open
  <2>1. Running = RunningIn(stack) /\ Running' = RunningIn(stack')
    BY DEF Running, RunningIn
  <2>2. open' = open - (IF r.kind # "branch" THEN 1 ELSE 0)
    BY DEF r
  <2>3. open = Cardinality(RunningIn(Front(stack))) + (IF r.kind # "branch" THEN 1 ELSE 0)
    BY <1>1, <1>2, <1>3, <2>1
  <2>4. open' = Cardinality(RunningIn(Front(stack)))
    BY <1>3, <2>2, <2>3
  <2> QED
    BY <1>3, <1>4, <2>1, <2>3, <2>4
<1>6. TypeOK'
  BY <1>2, <1>4, <1>5, ShellAssumption DEF IInv, OpenWhileRunning, TypeOK, Call, host, Leave
<1> QED
  BY <1>5, <1>6 DEF IInv, OpenWhileRunning, OneSlot, Leave

\* The next line of the last call is read.
LEMMA LineRead ==
    ASSUME IInv, NextLine, mode = "return", stack # <<>>, Last(stack).lines # <<>>
    PROVE  IInv'
<1> DEFINE r == Last(stack)
           s == [r EXCEPT !.lines = Tail(@)]
<1>1. stack \in Seq(Call) /\ open = Cardinality(Running)
  BY DEF IInv, OpenWhileRunning, TypeOK, Call
<1>2. Front(stack) \in Seq(Call) /\ r \in Call /\ stack = Append(Front(stack), r)
  BY <1>1, TopOfStack
<1>3. r.lines \in Seq(Line) /\ r.lines # <<>>
  BY <1>2 DEF Call
<1>4. Head(r.lines) \in Line /\ Tail(r.lines) \in Seq(Line)
  BY <1>3, HeadTailProperties
<1>5. s \in Call /\ s.kind = r.kind
  BY <1>2, <1>4 DEF Call
<1>6. /\ Cardinality(RunningIn(Front(stack))) \in Nat
      /\ Cardinality(RunningIn(Append(Front(stack), r))) =
           Cardinality(RunningIn(Front(stack))) + (IF r.kind # "branch" THEN 1 ELSE 0)
  BY <1>2, CountAppend
<1>7. /\ Append(Front(stack), s) \in Seq(Call)
      /\ Cardinality(RunningIn(Append(Front(stack), s))) =
           Cardinality(RunningIn(Front(stack))) + (IF s.kind # "branch" THEN 1 ELSE 0)
  BY <1>2, <1>5, CountAppend
<1>8. stack' = Append(Front(stack), s) /\ words' = Head(r.lines) /\ mode' = "interpret"
      /\ UNCHANGED <<shellmemory, cwd, dirs, files, open, code>>
  BY DEF NextLine, host
<1> HIDE DEF r, s
<1>9. open' = Cardinality(Running')
  <2>1. Running = RunningIn(stack) /\ Running' = RunningIn(stack')
    BY DEF Running, RunningIn
  <2> QED
    BY <1>1, <1>2, <1>5, <1>6, <1>7, <1>8, <2>1
<1>10. TypeOK'
  BY <1>4, <1>7, <1>8 DEF IInv, OpenWhileRunning, TypeOK, Call
<1> QED
  BY <1>8, <1>9, <1>10 DEF IInv, OpenWhileRunning, OneSlot

\* Every step keeps the invariant.
LEMMA NextIInv == IInv /\ [Next]_vars => IInv'
<1> SUFFICES ASSUME IInv, [Next]_vars PROVE IInv'
  OBVIOUS
<1> USE DEF host
<1>t. TypeOK
  BY DEF IInv, OpenWhileRunning
<1>1. CASE MainInput
  BY <1>1, <1>t, SameCalls, ShellAssumption DEF MainInput, TypeOK
<1>2. CASE MainReturn
  BY <1>2, <1>t, SameCalls, EmptySeq DEF MainReturn, TypeOK, Line
<1>3. CASE badcommand \/ help \/ myLs \/ myCat \/ quit
  BY <1>3, <1>t, SameCalls
    DEF badcommand, help, myLs, myCat, quit, Interpret, Return, Quiet, TypeOK
<1>4. CASE set
  <2>1. words[2] \in Word /\ Value(words) \in Line /\ Value(words) # <<>>
    BY <1>4, <1>t, ValueType DEF set, TypeOK
  <2>2. MemOK
    BY <1>t DEF MemOK, TypeOK, IInv
  <2>3. MemOK'
    BY <1>4, <2>1, <2>2, SetKeepsOrder DEF set
  <2>4. /\ UNCHANGED <<cwd, dirs, files, stack, open, words>>
        /\ mode = "interpret" /\ mode' = "return" /\ code' = 0
    BY <1>4 DEF set, Interpret, Return
  <2>5. TypeOK'
    BY <1>t, <2>3, <2>4 DEF MemOK, TypeOK
  <2> QED
    BY <2>3, <2>4, <2>5 DEF MemOK, IInv, OpenWhileRunning, Running
<1>5. CASE print \/ echo
  BY <1>5, <1>t, SameCalls DEF print, echo, Show, Interpret, Return, TypeOK
<1>6. CASE myMkdir
  BY <1>6, <1>t, SameCalls DEF myMkdir, Interpret, Return, TypeOK
<1>7. CASE myCd
  BY <1>7, <1>t, SameCalls DEF myCd, Interpret, Return, TypeOK
<1>8. CASE myTouch
  <2>1. EmptyFile \in TextFile
    BY EmptySeq DEF EmptyFile, TextFile
  <2>2. \A f \in DOMAIN files' : files'[f] \in TextFile
    BY <1>8, <1>t, <2>1 DEF myTouch, TypeOK
  <2> QED
    BY <1>8, <1>t, <2>2, SameCalls DEF myTouch, Interpret, Return, TypeOK
<1>9. CASE tailf
  BY <1>9, <1>t, SameCalls DEF tailf, Interpret, Return, Quiet, TypeOK
<1>10. CASE run
  <2>1. CASE ~CanOpen
    BY <1>10, <2>1, <1>t, SameCalls DEF run, Interpret, Return, TypeOK
  <2>2. CASE CanOpen
    <3> DEFINE lines == LinesRead(files[<<cwd, words[2]>>])
    <3>1. open' = open + 1 /\ open' \in 0..MaxOpen
      BY <1>10, <2>2, <1>t, ShellAssumption DEF run, CanOpen, TypeOK
    <3>2. CASE Garbage
      BY <1>10, <2>2, <3>1, <3>2, <1>t
        DEF run, Garbage, IInv, OpenWhileRunning, OneSlot, TypeOK
    <3>3. ASSUME NEW r \in Call, r.kind # "branch", Called(r.kind, r.lines)
          PROVE  IInv'
      <4>1. stack' = Append(stack, r) /\ mode' = "return" /\ code' = 0
        BY <3>3 DEF Called, Return, Call
      <4>2. mode # "undefined" /\ UNCHANGED <<shellmemory, host, words>>
        BY <1>10 DEF run, Interpret
      <4>3. open' = open + (IF r.kind # "branch" THEN 1 ELSE 0) /\ open' <= MaxOpen
        BY <3>1, <3>3, ShellAssumption
      <4> QED
        BY <4>1, <4>2, <4>3, Pushed
    <3>4. CASE IsDirectory
      <4>1. Garbage \/ Called("directory", <<>>)
        BY <1>10, <2>2, <3>4 DEF run
      <4> DEFINE r == [kind |-> "directory", lines |-> <<>>]
      <4>2. r \in Call /\ r.kind # "branch" /\ r.kind = "directory" /\ r.lines = <<>>
        BY EmptySeq DEF Call
      <4> HIDE DEF r
      <4> QED
        BY <3>2, <3>3, <4>1, <4>2
    <3>5. CASE ~IsDirectory
      <4>1. Garbage \/ Called("script", lines)
        BY <1>10, <2>2, <3>5 DEF run
      <4>2. lines \in Seq(Line)
        <5>1. files[<<cwd, words[2]>>] \in TextFile
          BY <2>2, <3>5, <1>t DEF CanOpen, IsFile, TypeOK
        <5>2. <<>> \in Line
          BY EmptySeq DEF Line
        <5> QED
          BY <5>1, <5>2, AppendProperties DEF LinesRead, TextFile
      <4> DEFINE r == [kind |-> "script", lines |-> lines]
      <4> HIDE DEF lines
      <4>3. r \in Call /\ r.kind # "branch" /\ r.kind = "script" /\ r.lines = lines
        BY <4>2 DEF Call
      <4> HIDE DEF r
      <4> QED
        BY <3>2, <3>3, <4>1, <4>3
    <3> QED
      BY <3>4, <3>5
  <2> QED
    BY <2>1, <2>2
<1>11. CASE IfCommand
  <2>1. CASE ~IfAccepted
    BY <1>11, <2>1, <1>t, SameCalls DEF IfCommand, Interpret, Return, TypeOK
  <2>2. CASE IfAccepted
    <3> DEFINE r == [kind |-> "branch", lines |-> Branch]
    <3>1. Branch \in Seq(Line)
      BY <1>11, <2>2, <1>t, BranchType DEF IfCommand, TypeOK
    <3>2. r \in Call /\ r.kind = "branch"
      BY <3>1 DEF Call
    <3>3. stack' = Append(stack, r) /\ mode' = "return" /\ code' = 0
      BY <1>11, <2>2 DEF IfCommand, Called, Return
    <3>4. mode # "undefined" /\ UNCHANGED <<shellmemory, host, words, open>>
      BY <1>11 DEF IfCommand, Interpret
    <3>5. open' = open + (IF r.kind # "branch" THEN 1 ELSE 0) /\ open' <= MaxOpen
      BY <3>2, <3>4, <1>t, ShellAssumption DEF TypeOK
    <3> HIDE DEF r
    <3> QED
      BY <3>2, <3>3, <3>4, <3>5, Pushed
  <2> QED
    BY <2>1, <2>2
<1>12. CASE ScriptLine
  BY <1>12, LineRead DEF ScriptLine, Returned
<1>13. CASE BranchLine
  BY <1>13, LineRead DEF BranchLine, Returned
<1>14. CASE ScriptEnd
  BY <1>14, Popped DEF ScriptEnd, Returned
<1>15. CASE BranchEnd
  <2>1. open' = open - 0
    BY <1>15, <1>t, ShellAssumption DEF BranchEnd, TypeOK
  <2> QED
    BY <1>15, <2>1, Popped DEF BranchEnd, Returned
<1>17. CASE DirectoryLine
  BY <1>17, <1>t, SameCalls, EmptySeq DEF DirectoryLine, Returned, TypeOK, Line
<1>16. CASE UNCHANGED vars
  BY <1>16 DEF vars, IInv, OpenWhileRunning, Running, OneSlot, TypeOK
<1> QED
  BY <1>1, <1>2, <1>3, <1>4, <1>5, <1>6, <1>7, <1>8, <1>9, <1>10, <1>11, <1>12, <1>13,
     <1>14, <1>15, <1>16, <1>17 DEF Next, Step

\* Types, and one slot for a name, in every state of the shell.
THEOREM Invariance == Spec => []IInv
BY InitIInv, NextIInv, PTL DEF Spec

\* A script is open exactly while its run has not returned, whatever scripts
\* there are, however they run each other or themselves, and however their
\* lines fail: no FILE is left open or closed early.
THEOREM FilesClosed == Spec => []OpenWhileRunning
<1>1. IInv => OpenWhileRunning
  BY DEF IInv
<1> QED
  BY <1>1, Invariance, PTL

\* The slots of the memory behave as a map of at most Slots variables, whatever
\* lines are typed and scripts are run.
THEOREM MemoryRefinement == Spec => RefinesVarStore
<1>1. Init => Store!StoreInit
  <2> SUFFICES ASSUME Init PROVE Variables = [m \in Names |-> <<>>]
    BY DEF Store!StoreInit
  <2>1. \A m \in Names : Holding(m) = {}
    BY NamesAssumption DEF Init, mem_init, FreeSlot, Holding
  <2> QED
    BY <2>1 DEF Variables
<1>2. IInv => MemOK
  BY DEF IInv, MemOK, OpenWhileRunning, TypeOK
<1>3. IInv => ReadsSlots
  BY <1>2, VariablesRead
<1>4. IInv /\ ReadsSlots /\ ReadsSlots' /\ [Next]_vars
        => [Store!StoreNext]_Variables
  <2> SUFFICES ASSUME IInv, ReadsSlots, ReadsSlots', [Next]_vars
               PROVE  Store!StoreNext \/ Variables' = Variables
    OBVIOUS
  <2>1. CASE set
    <3>1. words[2] \in Word /\ Value(words) \in Line /\ Value(words) # <<>>
      BY <2>1, ValueType DEF set, TypeOK, IInv, OpenWhileRunning
    <3> QED
      BY <2>1, <3>1, <1>2, SetRefines DEF set, Store!StoreNext
  <2>2. CASE UNCHANGED shellmemory
    BY <2>2 DEF Variables, Holding, mem_get_value
  <2>3. ~set => UNCHANGED shellmemory
    BY DEF vars, Next, Step, MainInput, MainReturn, badcommand, help, myLs, myCat, quit, print,
           echo, Show, Quiet, myMkdir, myCd, myTouch, tailf, run, IfCommand, ScriptLine,
           BranchLine, DirectoryLine, ScriptEnd, BranchEnd, NextLine, Leave, Called, Garbage
  <2> QED
    BY <2>1, <2>2, <2>3
<1> QED
  BY <1>1, <1>3, <1>4, Invariance, PTL DEF Spec, RefinesVarStore, Store!StoreSpec
=============================================================================
