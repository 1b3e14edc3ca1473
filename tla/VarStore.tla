------------------------------ MODULE VarStore ------------------------------
(* What a shell's variable memory promises its user: a partial map from      *)
(* variable names to values that holds at most Capacity variables. A step    *)
(* gives one variable a new value; a variable is never lost, and setting one *)
(* never changes another.                                                    *)
EXTENDS Naturals, FiniteSets

CONSTANTS Names,      \* the names a user gives variables
          Unset,      \* the "value" of a name that was never set
          Capacity    \* how many variables the memory holds

VARIABLE vars

IsSet(n) == vars[n] # Unset

Room == Cardinality({n \in Names : IsSet(n)}) < Capacity

StoreInit == vars = [n \in Names |-> Unset]

Set(n) == /\ IsSet(n) \/ Room
          /\ vars' = [vars EXCEPT ![n] = vars'[n]]
          /\ vars'[n] # Unset

StoreNext == \E n \in Names : Set(n)

StoreSpec == StoreInit /\ [][StoreNext]_vars
=============================================================================
