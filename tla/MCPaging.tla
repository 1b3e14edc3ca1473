------------------------------ MODULE MCPaging -------------------------------
(***************************************************************************)
(* Instances of Paging: scripts that only print, and scripts that start    *)
(* other scripts.                                                          *)
(***************************************************************************)
EXTENDS Paging

Echo(n) == [i \in 1..n |-> [op |-> "echo", args |-> <<>>]]
Run(f) == [op |-> "run", args |-> <<f>>]
Exec(fs) == [op |-> "exec", args |-> fs]
Quit == [op |-> "quit", args |-> <<>>]

\* One page, a page and a bit, exactly three pages, and five.
FlatScripts == [s |-> Echo(2), m |-> Echo(4), l |-> Echo(9), x |-> Echo(15)]

FlatCommands ==
    {Echo(1)[1], Quit, Run("missing")}
    \cup {Run(f) : f \in DOMAIN FlatScripts}
    \cup {Exec(fs) : fs \in [1..1 -> DOMAIN FlatScripts] \cup [1..2 -> DOMAIN FlatScripts]
                            \cup [1..3 -> DOMAIN FlatScripts]}

\* main starts others in its first page, late in its text, or quits.
NestedScripts ==
    [s |-> Echo(2), m |-> Echo(4), e |-> <<>>,
     main |-> <<Run("m")>> \o Echo(7),
     late |-> Echo(6) \o <<Exec(<<"s", "m">>), Run("missing")>>,
     bye |-> <<Run("s")>> \o Echo(1) \o <<Quit>>]

NestedCommands ==
    {Run(f) : f \in DOMAIN NestedScripts}
    \cup {Exec(fs) : fs \in [1..2 -> DOMAIN NestedScripts]}
    \cup {Exec(<<"s", "missing">>), Quit, Echo(1)[1]}
=============================================================================
