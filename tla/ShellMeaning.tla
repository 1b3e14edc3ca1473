---------------------------- MODULE ShellMeaning -----------------------------
(***************************************************************************)
(* What a line given to the a1 shell means, without slots, a stack or      *)
(* returned values handed from call to call: the state after the line as a *)
(* function of the state before it. It is recursive, and is compared with  *)
(* what A1Shell does by model checking only.                               *)
(***************************************************************************)
EXTENDS A1Shell

\* if identifier1 op identifier2 then command1 else command2 fi, neither
\* command another if.
Conditional(ws) ==
    /\ ws[3] \in {"==", "!="} /\ ws[5] = "then" /\ Last(ws) = "fi"
    /\ \A i \in 2..Len(ws) - 1 : ws[i] \notin {"if", "fi"}
    /\ \E e \in 6..Len(ws) : \A i \in 1..Len(ws) : ws[i] = "else" <=> i = e

Documented(ws) == Accepts(ws) /\ ws[1] = "if" => Conditional(ws)

TextOf(s, w) ==
    IF w \notin DOMAIN VariableOf THEN <<w>>
    ELSE IF s.vars[VariableOf[w]] = <<>> THEN Missing ELSE s.vars[VariableOf[w]]

Chosen(s, ws) ==
    LET e == CHOOSE i \in 1..Len(ws) : ws[i] = "else"
        equal == TextOf(s, ws[2]) = TextOf(s, ws[4])
    IN IF equal = (ws[3] = "==") THEN SubSeq(ws, 6, e - 1)
                                 ELSE SubSeq(ws, e + 1, Len(ws) - 1)

With(s, c) == [s EXCEPT !.code = c]

Assigned(s, n, value) ==
    LET taken == {m \in Names : s.vars[m] # <<>>}
    IN IF n \in Names /\ (n \in taken \/ Cardinality(taken) < Slots)
       THEN [s EXCEPT !.vars[n] = value] ELSE s

RECURSIVE Meaning(_, _, _)

\* scripts: how many scripts are running.
Meaning(s, ws, scripts) ==
    LET file == <<s.cwd, ws[2]>>
        here == file \in DOMAIN s.files
        path == Path(s.cwd, ws[2])
        directory == path \in s.dirs
        opens == (here \/ directory) /\ scripts < MaxOpen
        text == TextOf(s, ws[2])
        After(t, line) == IF t.mode = "prompt" THEN Meaning(t, line, scripts + 1) ELSE t
    IN CASE s.mode # "prompt" -> s
         [] ~Accepts(ws) -> With(s, 1)
         [] Accepts(ws) ->
      CASE ws[1] \in {"help", "my_ls"} -> With(s, 0)
        [] ws[1] = "my_cat" -> With(s, IF opens THEN 0 ELSE 1)
        [] ws[1] = "tailf"  -> IF opens THEN [s EXCEPT !.mode = "tailf"] ELSE With(s, 0)
        [] ws[1] = "quit"   -> [s EXCEPT !.mode = "exit"]
        [] ws[1] = "set"    -> With(Assigned(s, ws[2], Value(ws)), 0)
        [] ws[1] = "echo"   -> With([s EXCEPT !.shown = IF text = Missing THEN <<>> ELSE text], 0)
        [] ws[1] = "print"  ->
             With([s EXCEPT !.shown = IF s.vars[ws[2]] = <<>> THEN Missing ELSE s.vars[ws[2]]], 0)
        [] ws[1] = "my_mkdir" ->
             IF here \/ path \in s.dirs \cup {NoPath} THEN With(s, -1)
             ELSE With([s EXCEPT !.dirs = @ \cup {path}], 0)
        [] ws[1] = "my_cd" ->
             IF path \in s.dirs THEN With([s EXCEPT !.cwd = path], 0) ELSE With(s, 1)
        [] ws[1] = "my_touch" ->
             With(IF directory THEN s ELSE [s EXCEPT !.files = @ @@ (file :> EmptyFile)], 0)
        [] ws[1] = "run" ->
             CASE ~opens -> With(s, 3)
               [] opens /\ (directory \/ s.files[file] = EmptyFile) ->
                    [s EXCEPT !.mode = "undefined"]
               [] OTHER -> FoldLeft(After, s, LinesRead(s.files[file]))
        [] ws[1] = "if" ->
             LET command == Chosen(s, ws)
             IN IF command = <<>> THEN With(s, 0) ELSE Meaning(s, command, scripts)

-----------------------------------------------------------------------------
\* What a line leaves behind (variables, directories, files, what was shown,
\* the value it returns, or that it ended the shell) is what the line means:
\* the scripts it runs are run to their ends, in place, in the order of their
\* lines, in the directory that is current when their line comes, however
\* they are nested in scripts and branches. The run of a directory is over only
\* where what it parses first is undefined.
LineMeaning ==
    LET over == \/ mode = "return" /\ stack = <<>>
                \/ mode \in {"exit", "tailf", "undefined"}
        wanted == Meaning(before[1].state, before[1].line, 0)
        is == [State EXCEPT !.mode = IF @ = "return" THEN "prompt" ELSE @]
    IN over /\ before # <<>> /\ Documented(before[1].line)
          => is = [wanted EXCEPT !.code = IF mode = "return" THEN @ ELSE code]
=============================================================================
