----------------------------- MODULE MCA1Shell ------------------------------
(***************************************************************************)
(* A1Shell for TLC: two slots for three variables, one directory that can  *)
(* be made, and scripts that run each other and themselves.                *)
(***************************************************************************)
EXTENDS ShellMeaning

AllStrings == STRING

SmallVariableOf == [w \in {"$x", "$y"} |-> IF w = "$x" THEN "x" ELSE "y"]

SmallResolve == (<<"/", "d">> :> "d") @@ (<<"d", "..">> :> "/")

SmallScripts ==
    LET file(dir, name, lines, newline) ==
          <<dir, name>> :> [lines |-> lines, newline |-> newline]
    IN \* runs itself, between two lines, the last of them in a directory
       file("/", "self", << <<"set", "x", "a">>, <<"run", "self">>,
                            <<"if", "$x", "==", "a", "then", "run", "end", "else", "set", "x", "a", "fi">>,
                            <<"set", "y", "b">> >>, TRUE)
       \* ends without a newline: what its last line returns is what it returns
    @@ file("/", "end", << <<"set", "x", "b">>, <<"my_mkdir", "d">> >>, FALSE)
    @@ file("/", "go", << <<"my_cd", "d">>, <<"run", "end">>, <<"run", "self">>, <<"echo", "$x">> >>, FALSE)
    @@ file("d", "self", << <<"my_cat", "self">>, <<"my_cd", "..">>, <<"quit", "now">>, <<"run", "none">>, <<"print", "y">> >>, TRUE)
    @@ file("/", "bye", << <<"set", "y", "a">>, <<"quit">>, <<"set", "y", "b">> >>, TRUE)

SmallInputs ==
    { <<>>, <<"help">>, <<"my_ls">>, <<"my_cat", "bye">>, <<"my_cat", "t">>, <<"quit">>,
      <<"set", "x">>, <<"set", "x", "a">>, <<"set", "y", "a", "b">>, <<"set", "z", "a">>,
      <<"set", "none", "a">>, <<"set", "x", "Variable", "does", "not", "exist">>,
      <<"print", "x">>, <<"echo", "$x">>, <<"echo", "a">>,
      <<"my_mkdir", "d">>, <<"my_cd", "d">>, <<"my_cd", "..">>, <<"my_touch", "t">>,
      <<"tailf", "bye">>, <<"tailf", "t">>,
      <<"my_cat", "d">>, <<"my_touch", "d">>, <<"tailf", "d">>, <<"run", "d">>,
      <<"run", "t">>, <<"run", "self">>, <<"run", "go">>, <<"run", "bye">>,
      <<"if", "$x", "==", "$y", "then", "set", "x", "b", "else", "run", "go", "fi">>,
      <<"if", "$x", "!=", "a", "then", "run", "end", "else", "fi">>,
      <<"if", "$x", "<", "a", "then", "run", "end", "else", "fi">>,
      \* not of the documented form: fi separates two commands of a branch
      <<"if", "a", "==", "a", "then", "run", "end", "fi", "set", "x", "a", "else", "set", "x", "b", "fi">>,
      \* an if in the branches of another
      <<"if", "$x", "==", "a", "then", "if", "a", "==", "a", "then", "set", "x", "b", "else",
        "set", "x", "a", "fi", "else", "set", "y", "b", "fi">> }
=============================================================================
