---------------------------- MODULE ShellMemory -----------------------------
(* The variable memory of the a1 shell (a1/shellmemory.c): a table of slots, *)
(* each a name and a value; the name "none" marks a slot that is free. The   *)
(* a2 shell keeps the same table and the same two loops, with another length *)
(* and NULL for a name that has no slot.                                     *)
(*                                                                           *)
(* A value is the sequence of the words `set` was given (parseSetInput joins *)
(* them with single spaces, and no word holds a space, so two sequences are  *)
(* equal exactly when the strings are).                                      *)
EXTENDS Naturals, Sequences

CONSTANTS Word,       \* the strings a line is split into
          Slots,      \* the length of the table, 1000 in the code
          Names       \* the names of variables, "none" not among them

ASSUME SlotsAssumption == Slots \in Nat \ {0}
ASSUME NamesAssumption == "none" \notin Names
ASSUME WordAssumption == "none" \in Word

VARIABLE shellmemory

FreeSlot == [var |-> "none", value |-> <<"none">>]

\* What mem_get_value returns for a name without a slot.
Missing == <<"Variable", "does", "not", "exist">>

mem_init == shellmemory = [i \in 1..Slots |-> FreeSlot]

Holding(var) == {i \in 1..Slots : shellmemory[i].var = var}

First(S) == CHOOSE i \in S : \A j \in S : i <= j

\* Mutant of mem_set_value: the search for a free slot takes any slot that
\* does not hold the name, a full table overwriting its first variable.
mem_set_value_evict(var_in, value_in) ==
  LET found == Holding(var_in)
      slots == CASE found # {}           -> found
                 [] Holding("none") # {} -> Holding("none")
                 [] OTHER                -> 1..Slots
  IN shellmemory' = [shellmemory EXCEPT ![First(slots)] =
                       [var |-> var_in, value |-> value_in]]

\* The first slot with this name, else the first free one. A full table drops
\* the new variable without a word; the name "none" finds a free slot and
\* leaves it free.
mem_set_value(var_in, value_in) ==
  LET found == Holding(var_in)
      slots == IF found # {} THEN found ELSE Holding("none")
  IN shellmemory' = IF slots = {}
                    THEN shellmemory
                    ELSE [shellmemory EXCEPT ![First(slots)] =
                            [var |-> var_in, value |-> value_in]]

mem_get_value(var_in) ==
  IF Holding(var_in) = {} THEN Missing
                          ELSE shellmemory[First(Holding(var_in))].value

-----------------------------------------------------------------------------
\* A name has one slot at most, and a value that is not empty.
OneSlot ==
    \A i \in 1..Slots : shellmemory[i].var # "none" =>
        /\ shellmemory[i].value # <<>>
        /\ \A j \in 1..Slots : shellmemory[j].var = shellmemory[i].var => j = i

\* The variables the slots stand for.
Variables == [n \in Names |-> IF Holding(n) = {} THEN <<>> ELSE mem_get_value(n)]

Store == INSTANCE VarStore WITH vars <- Variables, Unset <- <<>>,
                                Capacity <- Slots

\* The slots behave as a map of at most Slots variables: whatever the order of
\* sets, of new names, old names, the name "none" and names that find the table
\* full, no variable is lost, doubled or given another's value.
RefinesVarStore == Store!StoreSpec

=============================================================================
