------------------------------ MODULE A1Shell -------------------------------
(***************************************************************************)
(* The a1 shell: main and parseInput (shell.c) and the interpreter with    *)
(* its commands (interpreter.c). `run` calls parseInput for every line of  *)
(* a script and `if` calls interpreter for the commands of a branch, so a  *)
(* command runs in a stack of scripts and branches, and what it returns    *)
(* decides what the caller does next.                                      *)
(*                                                                         *)
(* A line is the sequence of its words, as parseInput splits it; what is   *)
(* printed is kept only for print and echo.                                *)
(***************************************************************************)
EXTENDS Integers, SequencesExt, ShellMemory

CONSTANTS
    VariableOf,   \* the words that start with $, and the name that follows it
    Root, Resolve,\* the host's paths: [directory, word] to directory
    MaxOpen,      \* how many files a process may have open (external)
    Inputs,       \* bound: the lines typed at the prompt
    Scripts       \* bound: the files there are at the start

\* A line is a sequence of words; a file of the host is a sequence of lines.
Line == Seq(Word)
TextFile == [lines : Seq(Line), newline : BOOLEAN]

ASSUME ShellAssumption ==
    /\ MaxOpen \in Nat
    /\ Inputs \subseteq Line
    /\ \A f \in DOMAIN Scripts : Scripts[f] \in TextFile

VARIABLES
    cwd, dirs, files,  \* the host's: current directory, directories, files
    stack,             \* the calls of run and executeCommands not yet returned
    open,              \* FILE objects that are open
    mode,              \* what happens next: see TypeOK
    words, code,       \* the line to interpret; what the last call returned
    shown,             \* what print and echo have printed last, in this call
    before             \* history: the line typed and the state it was typed in

EmptyFile == [lines |-> <<>>, newline |-> FALSE]

\* The lines run parses. Only a read that finds nothing sets the end of file
\* when the last line ends with a newline, so the emptied buffer is parsed
\* as one more line.
LinesRead(f) == IF f.newline THEN Append(f.lines, <<>>) ELSE f.lines

NoPath == "no such path"
Path(dir, w) == IF <<dir, w>> \in DOMAIN Resolve THEN Resolve[<<dir, w>>] ELSE NoPath

MAX_WORDS == 100

\* The number of words each command accepts, its own name included.
Arity == [help |-> {1}, quit |-> {1}, set |-> 3..7, print |-> {2}, run |-> {2},
          echo |-> {2}, my_mkdir |-> {2}, my_touch |-> {2}, my_cd |-> {2},
          my_cat |-> {2}, my_ls |-> {1}, if |-> 7..MAX_WORDS, tailf |-> {2}]

Accepts(ws) ==
    ws # <<>> /\ ws[1] \in DOMAIN Arity /\ Len(ws) \in Arity[ws[1]]

\* parseSetInput: the words after the variable's name.
Value(ws) == SubSeq(ws, 3, Len(ws))

-----------------------------------------------------------------------------
host == <<cwd, dirs, files>>
vars == <<shellmemory, host, stack, open, mode, words, code, shown, before>>

State == [vars |-> Variables, cwd |-> cwd, dirs |-> dirs, files |-> files,
          shown |-> shown, code |-> code, mode |-> mode]

Init ==
    /\ mem_init
    /\ cwd = Root /\ dirs = {Root} /\ files = Scripts
    /\ stack = <<>> /\ open = 0
    /\ mode = "prompt" /\ words = <<>> /\ code = 0
    /\ shown = <<>> /\ before = <<>>

-----------------------------------------------------------------------------
(* interpreter: the command's own function, when its words are accepted.   *)

Interpret(command) == mode = "interpret" /\ Accepts(words) /\ words[1] = command

Return(c) == mode' = "return" /\ code' = c

Quiet == UNCHANGED <<shellmemory, host, stack, open, words, shown, before>>

\* badcommand, badCommandFrom and emptyIf: an unknown command, or a known one
\* with the wrong number of words.
badcommand == mode = "interpret" /\ ~Accepts(words) /\ Return(1) /\ Quiet

\* They only print: my_ls what `ls .` shows.
help == Interpret("help") /\ Return(0) /\ Quiet
myLs == Interpret("my_ls") /\ Return(0) /\ Quiet

\* fopen for reading opens a directory as well; it fails for a file that is
\* not there and when MaxOpen files are open.
IsFile == <<cwd, words[2]>> \in DOMAIN files
IsDirectory == Path(cwd, words[2]) \in dirs
CanOpen == (IsFile \/ IsDirectory) /\ open < MaxOpen

\* Nothing can be read from a directory: it is shown as an empty file is.
myCat ==
    /\ Interpret("my_cat")
    /\ Return(IF CanOpen THEN 0 ELSE 1)
    /\ Quiet

quit ==
    /\ Interpret("quit")
    /\ mode' = "exit"
    /\ UNCHANGED code /\ Quiet

set ==
    /\ Interpret("set")
    /\ mem_set_value(words[2], Value(words))
    /\ Return(0)
    /\ UNCHANGED <<host, stack, open, words, shown, before>>

Show(text) ==
    /\ shown' = text
    /\ Return(0)
    /\ UNCHANGED <<shellmemory, host, stack, open, words, before>>

print == Interpret("print") /\ Show(mem_get_value(words[2]))

\* A variable that is not set, or holds the text mem_get_value returns for one
\* that is not, is echoed as the empty string.
Echoed(arg) ==
    IF arg \notin DOMAIN VariableOf THEN <<arg>>
    ELSE LET value == mem_get_value(VariableOf[arg])
         IN IF value = Missing THEN <<>> ELSE value

echo == Interpret("echo") /\ Show(Echoed(words[2]))

\* mkdir returns -1 when the name exists or its parent does not, and that is
\* what the command returns.
myMkdir ==
    /\ Interpret("my_mkdir")
    /\ LET new == Path(cwd, words[2])
       IN IF IsFile \/ new \in {NoPath} \cup dirs
          THEN Return(-1) /\ UNCHANGED dirs
          ELSE Return(0) /\ dirs' = dirs \cup {new}
    /\ UNCHANGED <<shellmemory, cwd, files, stack, open, words, shown, before>>

myCd ==
    /\ Interpret("my_cd")
    /\ LET to == Path(cwd, words[2])
       IN IF to \in dirs THEN Return(0) /\ cwd' = to
                         ELSE Return(1) /\ UNCHANGED cwd
    /\ UNCHANGED <<shellmemory, dirs, files, stack, open, words, shown, before>>

\* touch creates an empty file and leaves a file or directory that exists
\* alone.
myTouch ==
    /\ Interpret("my_touch")
    /\ files' = IF IsDirectory THEN files
                ELSE [f \in DOMAIN files \cup {<<cwd, words[2]>>} |->
                        IF f \in DOMAIN files THEN files[f] ELSE EmptyFile]
    /\ Return(0)
    /\ UNCHANGED <<shellmemory, cwd, dirs, stack, open, words, shown, before>>

\* tailf follows a file, or a directory, for ever.
tailf ==
    /\ Interpret("tailf")
    /\ IF CanOpen
       THEN mode' = "tailf" /\ UNCHANGED code
       ELSE Return(0)
    /\ Quiet

Called(kind, lines) ==
    /\ stack' = Append(stack, [kind |-> kind, lines |-> lines])
    /\ Return(0)

Garbage == mode' = "undefined" /\ UNCHANGED <<stack, code>>

\* run: the first line of an empty file or of a directory is never written to
\* the buffer that is parsed. A read of a directory fails without being at the
\* end of a file, so when that first line leaves the shell running, run's loop
\* has no end.
run ==
    /\ Interpret("run")
    /\ \/ ~CanOpen /\ Return(3) /\ UNCHANGED <<stack, open>>
       \/ /\ CanOpen
          /\ open' = open + 1
          /\ IF IsDirectory
             THEN Garbage \/ Called("directory", <<>>)
             ELSE LET lines == LinesRead(files[<<cwd, words[2]>>])
                  IN IF lines = <<>> THEN Garbage ELSE Called("script", lines)
    /\ UNCHANGED <<shellmemory, host, words, shown, before>>

resolveIdentifier(w) ==
    IF w \in DOMAIN VariableOf THEN mem_get_value(VariableOf[w]) ELSE <<w>>

evaluateCondition ==
    LET same == resolveIdentifier(words[2]) = resolveIdentifier(words[4])
    IN IF words[3] = "==" THEN same ELSE ~same

\* The numbers in S, in the order in which a loop that counts up meets them.
InOrder(S) ==
    CHOOSE f \in [1..Cardinality(S) -> S] : \A j, k \in DOMAIN f : j < k => f[j] < f[k]

\* executeCommands(start, end): a command ends where the next word is else or
\* fi, or where the branch ends; the next one starts behind that word. (C's
\* words are numbered from 0, and end is the word after the last one.)
Commands(start, end) ==
    LET last == {i \in start..end - 1 :
                    i + 1 = end \/ words[i + 1] \in {"else", "fi"}}
        from(i) == LET earlier == {j \in last : j < i}
                   IN IF earlier = {} THEN start ELSE Max(earlier) + 2
        command(i) == SubSeq(words, from(i), i)
        order == InOrder(last)
    IN [k \in DOMAIN order |-> command(order[k])]

ElseIndex == Min({i \in 5..Len(words) : words[i] = "else"} \cup {Len(words) + 1})

IfAccepted ==
    /\ words[3] \in {"==", "!="}
    /\ ElseIndex <= Len(words)
    /\ words[Len(words)] = "fi"

\* Mutant of Branch: the true branch starts at the word after the condition.
BranchFromThen == IF evaluateCondition THEN Commands(5, ElseIndex)
                                       ELSE Commands(ElseIndex + 1, Len(words))

\* The words of the true branch start at the sixth, whatever the fifth is.
Branch == IF evaluateCondition THEN Commands(6, ElseIndex)
                               ELSE Commands(ElseIndex + 1, Len(words))

IfCommand ==
    /\ Interpret("if")
    /\ \/ ~IfAccepted /\ Return(1) /\ UNCHANGED stack
       \/ /\ IfAccepted
          /\ Called("branch", Branch)
    /\ UNCHANGED <<shellmemory, host, open, words, shown, before>>

-----------------------------------------------------------------------------
(* What the caller does with the value returned.                           *)

Returned(kind) == mode = "return" /\ stack # <<>> /\ Last(stack).kind = kind

NextLine ==
    LET top == Last(stack)
    IN /\ words' = Head(top.lines)
       /\ stack' = Append(Front(stack), [top EXCEPT !.lines = Tail(@)])
       /\ mode' = "interpret"
       /\ UNCHANGED <<shellmemory, host, open, code, shown, before>>

Leave == /\ stack' = Front(stack)
         /\ UNCHANGED <<shellmemory, host, mode, words, shown, before>>

\* Mutant of ScriptLine: the loop parses the line again and reads no other.
ScriptLineAgain ==
    /\ Returned("script") /\ Last(stack).lines # <<>>
    /\ words' = Head(Last(stack).lines)
    /\ mode' = "interpret"
    /\ UNCHANGED <<shellmemory, host, stack, open, code, shown, before>>

\* Mutant of ScriptEnd: the file is not closed.
ScriptEndOpen ==
    /\ Returned("script")
    /\ Last(stack).lines = <<>>
    /\ Leave /\ UNCHANGED <<code, open>>

\* run's loop goes on whatever a line returned; the script returns what its
\* last line did.
ScriptLine == Returned("script") /\ Last(stack).lines # <<>> /\ NextLine

ScriptEnd ==
    /\ Returned("script")
    /\ Last(stack).lines = <<>>
    /\ open' = open - 1
    /\ Leave /\ UNCHANGED code

\* The buffer was emptied, and the read wrote nothing to it.
DirectoryLine ==
    /\ Returned("directory")
    /\ words' = <<>>
    /\ mode' = "interpret"
    /\ UNCHANGED <<shellmemory, host, stack, open, code, shown, before>>

\* executeCommands returns at the first command that fails.
BranchLine ==
    /\ Returned("branch")
    /\ code = 0 /\ Last(stack).lines # <<>>
    /\ NextLine

BranchEnd ==
    /\ Returned("branch")
    /\ code # 0 \/ Last(stack).lines = <<>>
    /\ Leave /\ UNCHANGED <<code, open>>

\* main's loop: an error is ignored, except for -1.
MainReturn ==
    /\ mode = "return" /\ stack = <<>>
    /\ mode' = IF code = -1 THEN "exit" ELSE "prompt"
    /\ words' = <<>>
    /\ before' = <<>> /\ shown' = <<>>
    /\ UNCHANGED <<shellmemory, host, stack, open, code>>

MainInput ==
    /\ mode = "prompt"
    /\ words' \in Inputs
    /\ mode' = "interpret"
    /\ before' = <<[line |-> words', state |-> State]>>
    /\ UNCHANGED <<shellmemory, host, stack, open, code, shown>>

-----------------------------------------------------------------------------
Step ==
    \/ badcommand \/ help \/ myLs \/ myCat \/ quit \/ set \/ print \/ echo
    \/ myMkdir \/ myCd \/ myTouch \/ tailf \/ run \/ IfCommand
    \/ ScriptLine \/ ScriptEnd \/ DirectoryLine \/ BranchLine \/ BranchEnd
    \/ MainReturn

Next == MainInput \/ Step

\* The shell runs on while it has something to do; nobody has to type.
Spec == Init /\ [][Next]_vars /\ WF_vars(Step)

-----------------------------------------------------------------------------
(* Properties.                                                             *)

\* Type correctness, and that the current directory exists.
TypeOK ==
    /\ shellmemory \in [1..Slots -> [var : Word, value : Line]]
    /\ cwd \in dirs
    /\ \A f \in DOMAIN files : files[f] \in TextFile
    /\ stack \in Seq([kind : {"script", "directory", "branch"}, lines : Seq(Line)])
    /\ open \in 0..MaxOpen
    /\ mode \in {"prompt", "interpret", "return", "exit", "tailf", "undefined"}
    /\ words \in Line
    /\ code \in {-1, 0, 1, 3}

\* The scripts, and directories, whose run has not returned.
Running == {i \in DOMAIN stack : stack[i].kind # "branch"}

\* A script is open exactly while its run has not returned: no end of a
\* script, no failing line and no limit leaves a FILE open or closes one that
\* is still read.
OpenWhileRunning ==
    /\ TypeOK
    /\ mode # "undefined" => open = Cardinality(Running)

\* What every step preserves.
IInv == OpenWhileRunning /\ OneSlot

\* Every line typed is answered: the prompt comes back or the shell ends,
\* also when a script runs itself, unless tailf follows a file or what is run
\* is a directory. A script that runs itself is stopped by the limit on open
\* files.
LineReturns ==
    mode = "interpret" ~> \/ mode \in {"prompt", "exit", "tailf", "undefined"}
                          \/ \E i \in Running : stack[i].kind = "directory"
=============================================================================
