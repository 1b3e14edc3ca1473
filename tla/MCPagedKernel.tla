---------------------------- MODULE MCPagedKernel ----------------------------
(***************************************************************************)
(* Instances of PagedKernel: plain scripts, and scripts with what the      *)
(* kernel does not expect: an end of line at the end, blank lines,         *)
(* commands that return 1, no lines at all.                                *)
(***************************************************************************)
EXTENDS PagedKernel

Ok(n) == [i \in 1..n |-> "ok"]
Plain(ls) == [lines |-> ls, trailing |-> FALSE]
Ended(ls) == [lines |-> ls, trailing |-> TRUE]

\* One page, a page and a bit, two pages and a bit, exactly three pages.
PlainScripts == [s |-> Plain(Ok(2)), m |-> Plain(Ok(4)), l |-> Plain(Ok(7)), x |-> Plain(Ok(9))]

OddScripts ==
    [ended |-> Ended(Ok(3)), one |-> Plain(Ok(2) \o <<"one", "ok">>),
     late |-> Plain(Ok(5) \o <<"one", "ok">>), blank |-> Plain(<<"ok", "blank", "ok", "ok", "ok">>),
     empty |-> Plain(<<>>)]

AllScripts == PlainScripts @@ OddScripts

Tuples(S, n) == UNION {[1..i -> S] : i \in 1..n}
PlainBatches == Tuples(DOMAIN PlainScripts, 3) \cup {<<"s", "missing">>}
AllBatches == PlainBatches \cup Tuples(DOMAIN OddScripts \cup {"s"}, 2)
=============================================================================
