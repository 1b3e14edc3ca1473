------------------------------- MODULE Paging --------------------------------
(***************************************************************************)
(* Demand paging and scheduling in the a2 shell: kernel.c, framestore.c,   *)
(* pcb.c, ready_queue.c, page.c, lru.c and the run, exec and quit commands *)
(* of interpreter.c.  The shell is one thread; a step is one call of the   *)
(* interpreter, one scheduling decision or one pass of execute_process's   *)
(* loop.  A script line is the pair of its file and its number; what it    *)
(* does to the variables is left out, what it does to processes is not.    *)
(* A malloc never fails, and pid, timer and page numbers are far below     *)
(* INT_MAX.                                                                *)
(***************************************************************************)
EXTENDS Integers, Sequences, FiniteSets

CONSTANTS
    Script,            \* [file name -> sequence of commands], the files that exist
    UserCommands,      \* the commands typed at the prompt
    FRAMESTORE_LENGTH, \* frames of three lines
    MAX_INT,           \* the quanta FCFS grants
    StdioLines,        \* lines of a script that fit into one stdio buffer
    MaxPid             \* bound: no command is typed once this many pids are used

IsSequence(s) == s \in Seq({s[i] : i \in DOMAIN s})
IsCommand(c) == c.op \in {"run", "exec", "quit", "echo"} /\ IsSequence(c.args)

ASSUME FramesAssumption == FRAMESTORE_LENGTH \in Nat \ {0}
ASSUME StdioAssumption == StdioLines \in Nat /\ StdioLines >= 3
ASSUME QuantaAssumption == MAX_INT \in Nat /\ MAX_INT >= 2
ASSUME ScriptAssumption ==
    /\ \A f \in DOMAIN Script : /\ IsSequence(Script[f])
                                /\ \A n \in DOMAIN Script[f] : IsCommand(Script[f][n])
    /\ \A c \in UserCommands : IsCommand(c)

VARIABLES
    framestore,   \* Page *framestore[]
    timer,        \* the LRU clock of lru.c
    pid_counter,  \* the next pid
    pcb,          \* the live PCBs, by pid
    ready,        \* the ready queue, a sequence of pids
    cpu,          \* where the thread is: see Cpu
    status,       \* "ok", "exit" (quit) or "ub" (undefined behaviour)
    text,         \* ghost: the lines of each process's script, by pid
    executed      \* ghost: the lines each process has interpreted, by pid

vars == <<framestore, timer, pid_counter, pcb, ready, cpu, status, text, executed>>

Frames == 0..(FRAMESTORE_LENGTH - 1)

None == <<"none", 0>>
LinesOf(f) == [n \in DOMAIN Script[f] |-> <<f, n>>]
Command(line) == Script[line[1]][line[2]]
NoCommand == [op |-> "echo", args |-> <<>>]
Policies == {"FCFS", "RR"}

\* at: "prompt", "command" (in interpreter), "schedule" (top of the scheduler
\* loop), "execute" (top of execute_process's loop), "advance" (its end).
Prompt == [at |-> "prompt", pid |-> 0, quanta |-> 0, policy |-> "FCFS", cmd |-> NoCommand]
in_background == cpu.pid # 0

-----------------------------------------------------------------------------
\* init_page
EmptyPage == [pid |-> -1, page_number |-> -1, lines |-> <<None, None, None>>,
              available |-> TRUE, last_used |-> 0]

\* The page fgets and set_page build from up to three lines.
set_page(page_number, pid, ls, timestamp) ==
    [pid |-> pid, page_number |-> page_number, available |-> FALSE,
     last_used |-> timestamp,
     lines |-> [k \in 1..3 |-> IF k <= Len(ls) THEN ls[k] ELSE None]]

\* Mutant: one line too many is skipped.
AfterOneMore(ls, n) == SubSeq(ls, n + 2, Len(ls))

\* Lines 3k+1 to 3k+3 of a file, as many as there are, and what follows them.
Chunk(ls, k) == SubSeq(ls, 3 * k + 1, IF Len(ls) < 3 * k + 3 THEN Len(ls) ELSE 3 * k + 3)
After(ls, n) == SubSeq(ls, n + 1, Len(ls))

FreeFrames == {i \in Frames : framestore[i].available}

\* A loop that counts up meets i, of the numbers in S, at this place; and the
\* number it meets at the place c.
Place(S, i) == Cardinality({j \in S : j <= i})
Nth(S, c) == CHOOSE i \in S : Place(S, i) = c

\* Where get_free_page_space comes to frame i when frames are taken in turn.
Turn(i) == Place(FreeFrames, i)

get_free_page_space == IF FreeFrames = {} THEN -1
                       ELSE CHOOSE i \in FreeFrames : \A j \in FreeFrames : i <= j

\* Mutant: the time stamps are not compared, the first page found is taken.
get_first_page_index ==
    LET used == Frames \ FreeFrames
    IN  CHOOSE i \in used : \A j \in used : i <= j

\* Least recently used, the first of equals.
get_victim_page_index ==
    LET used == Frames \ FreeFrames
        Older(i, j) == \/ framestore[i].last_used < framestore[j].last_used
                       \/ framestore[i].last_used = framestore[j].last_used /\ i <= j
    IN  CHOOSE i \in used : \A j \in used : Older(i, j)

Init ==
    /\ framestore = [i \in Frames |-> EmptyPage]
    /\ timer = 0
    /\ pid_counter = 1
    /\ pcb = <<>>
    /\ ready = <<>>
    /\ cpu = Prompt
    /\ status = "ok"
    /\ text = <<>>
    /\ executed = <<>>

-----------------------------------------------------------------------------
\* Loading: two rounds of one page for each file that still has lines.
Round(k, texts, timestamp) ==
    LET some == {i \in DOMAIN texts : Len(texts[i]) > 3 * k}
        page(i) == set_page(k, pid_counter + i - 1, Chunk(texts[i], k), timestamp)
    IN  [c \in 1..Cardinality(some) |-> page(Nth(some, c))]

\* Mutant: a third round.
LoadsThree(texts) ==
    Round(0, texts, timer) \o Round(1, texts, timer + 1) \o Round(2, texts, timer + 2)

Loads(texts) == Round(0, texts, timer) \o Round(1, texts, timer + 1)

Loaded(loads) ==
    [i \in Frames |-> IF i \in FreeFrames /\ Turn(i) <= Len(loads) THEN loads[Turn(i)]
                      ELSE framestore[i]]

get_page_table(fs, pid) ==
    LET own == {i \in Frames : fs[i].pid = pid}
    IN  [k \in {fs[i].page_number : i \in own} |-> CHOOSE i \in own : fs[i].page_number = k]

makePCB(pagetable, rest) ==
    [pagetable |-> pagetable, num_pages |-> Cardinality(DOMAIN pagetable),
     curr_page |-> 0, curr_line |-> 0, fp |-> rest]

\* The processes of the given files (their whole text, and the part the loader
\* can see) get pids, frames and PCBs and queue up, in order.  Neither loader
\* looks whether get_free_page_space found a frame: framestore[-1] is next.
Admit(whole, seen, ticks) ==
    LET loads == Loads(seen)
        pids == pid_counter..(pid_counter + Len(seen) - 1)
    IN  IF Len(loads) > Cardinality(FreeFrames)
        THEN /\ status' = "ub"
             /\ UNCHANGED <<framestore, timer, pid_counter, pcb, ready, text, executed>>
        ELSE /\ framestore' = Loaded(loads)
             /\ timer' = timer + ticks
             /\ pid_counter' = pid_counter + Len(seen)
             /\ pcb' = [p \in DOMAIN pcb \cup pids |->
                          IF p \in pids
                          THEN makePCB(get_page_table(framestore', p), After(seen[p - pid_counter + 1], 6))
                          ELSE pcb[p]]
             /\ ready' = ready \o [i \in DOMAIN seen |-> pid_counter + i - 1]
             /\ text' = text \o whole
             /\ executed' = executed \o [i \in DOMAIN whole |-> <<>>]
             /\ UNCHANGED status

kernelVars == <<framestore, timer, pid_counter, pcb, ready, status, text, executed>>

\* process_initialize: each loaded page takes one tick.
process_initialize(f) ==
    IF f \in DOMAIN Script
    THEN Admit(<<LinesOf(f)>>, <<LinesOf(f)>>, Len(Loads(<<LinesOf(f)>>)))
    ELSE UNCHANGED kernelVars

\* initialize_multiple_process: the second round of load_multiple_files reopens
\* the backing file for writing while it still reads from it, so only what the
\* first round buffered is left.  A file that does not exist is read through a
\* null pointer.
initialize_multiple_process(fs) ==
    LET whole == [i \in DOMAIN fs |-> LinesOf(fs[i])]
        seen == [i \in DOMAIN fs |-> SubSeq(whole[i], 1, IF Len(whole[i]) < StdioLines
                                                         THEN Len(whole[i]) ELSE StdioLines)]
    IN  IF \A i \in DOMAIN fs : fs[i] \in DOMAIN Script
        THEN Admit(whole, seen, 2)
        ELSE /\ status' = "ub"
             /\ UNCHANGED <<framestore, timer, pid_counter, pcb, ready, text, executed>>

-----------------------------------------------------------------------------
\* main: a command is typed.
Type(c) ==
    /\ status = "ok" /\ cpu.at = "prompt"
    /\ pid_counter <= MaxPid
    /\ cpu' = [Prompt EXCEPT !.at = "command", !.cmd = c]
    /\ UNCHANGED kernelVars

\* Where interpreter returns to; schedule_by_policy does nothing in_background.
Return(policy) == cpu' = IF in_background THEN [cpu EXCEPT !.at = "advance"]
                         ELSE [cpu EXCEPT !.at = "schedule", !.policy = policy]

run ==
    /\ status = "ok" /\ cpu.at = "command" /\ cpu.cmd.op = "run"
    /\ process_initialize(cpu.cmd.args[1])
    /\ Return("FCFS")

exec ==
    /\ status = "ok" /\ cpu.at = "command" /\ cpu.cmd.op = "exec"
    /\ initialize_multiple_process(cpu.cmd.args)
    /\ Return("RR")

quit ==
    /\ status = "ok" /\ cpu.at = "command" /\ cpu.cmd.op = "quit"
    /\ status' = "exit"
    /\ ready' = <<>>
    /\ UNCHANGED <<framestore, timer, pid_counter, pcb, cpu, text, executed>>

\* Every other command: no effect on processes.
echo ==
    /\ status = "ok" /\ cpu.at = "command" /\ cpu.cmd.op = "echo"
    /\ cpu' = IF in_background THEN [cpu EXCEPT !.at = "advance"] ELSE Prompt
    /\ UNCHANGED kernelVars

-----------------------------------------------------------------------------
\* The loop of scheduler_FCFS and scheduler_RR.
Quanta == IF cpu.policy = "RR" THEN 2 ELSE MAX_INT

\* Mutant: the head is read but not popped.
DispatchPeek ==
    /\ status = "ok" /\ cpu.at = "schedule" /\ ready # <<>>
    /\ cpu' = [cpu EXCEPT !.at = "execute", !.pid = Head(ready), !.quanta = Quanta]
    /\ UNCHANGED <<framestore, timer, pid_counter, pcb, ready, status, text, executed>>

Dispatch ==
    /\ status = "ok" /\ cpu.at = "schedule" /\ ready # <<>>
    /\ cpu' = [cpu EXCEPT !.at = "execute", !.pid = Head(ready), !.quanta = Quanta]
    /\ ready' = Tail(ready)
    /\ UNCHANGED <<framestore, timer, pid_counter, pcb, status, text, executed>>

SchedulerReturns ==
    /\ status = "ok" /\ cpu.at = "schedule" /\ ready = <<>>
    /\ cpu' = Prompt
    /\ UNCHANGED kernelVars

Rescheduled == [cpu EXCEPT !.at = "schedule", !.pid = 0, !.quanta = 0, !.cmd = NoCommand]

\* execute_process returns false: FCFS puts the process back at the head.
Requeue ==
    /\ cpu' = Rescheduled
    /\ ready' = IF cpu.policy = "RR" THEN Append(ready, cpu.pid) ELSE <<cpu.pid>> \o ready

\* execute_process returns true.  The frames keep the pages of the process.
terminate_process ==
    /\ cpu' = Rescheduled
    /\ pcb' = [p \in DOMAIN pcb \ {cpu.pid} |-> pcb[p]]
    /\ UNCHANGED <<ready, pid_counter, status, text, executed>>

Current == pcb[cpu.pid]
Executing == status = "ok" /\ cpu.at = "execute"
page_fault == Current.curr_page >= Current.num_pages

\* The ints malloc gives to a table of n of them: its blocks are multiples of
\* 16 bytes, 32 at least, and 8 of them are its own.
Allocated(n) == IF n <= 6 THEN 6 ELSE 4 * ((4 * n + 23) \div 16) - 2

\* fetch_a_page clears the entry of the faulting process's table at the number
\* of the victim's frame: past its end, that can be past its allocation.
EvictsPastTable == /\ get_free_page_space = -1
                   /\ get_victim_page_index >= Allocated(Current.num_pages)

\* Mutant: the entry is cleared after the new one has been stored.
fetch_a_page_clearing_last ==
    /\ Executing /\ page_fault /\ Current.fp # <<>>
    /\ ~EvictsPastTable
    /\ LET free == get_free_page_space
           victim == get_victim_page_index
           frame == IF free = -1 THEN victim ELSE free
       IN  /\ framestore' = [framestore EXCEPT ![frame] =
                               set_page(Current.curr_page, cpu.pid, Chunk(Current.fp, 0), timer)]
           /\ pcb' = [pcb EXCEPT ![cpu.pid].fp = After(Current.fp, Len(Chunk(Current.fp, 0))),
                         ![cpu.pid].num_pages = @ + 1,
                         ![cpu.pid].pagetable =
                             [k \in DOMAIN Current.pagetable \cup {Current.num_pages} |->
                                 CASE free = -1 /\ k = victim -> -1
                                   [] k = Current.num_pages /\ ~(free = -1 /\ k = victim) -> frame
                                   [] OTHER -> Current.pagetable[k]]]
    /\ timer' = timer + 1
    /\ Requeue
    /\ UNCHANGED <<pid_counter, status, text, executed>>

\* fetch_a_page, while the entry it clears lies in the allocation: one past the
\* end of the table is never read.
fetch_a_page ==
    /\ Executing /\ page_fault /\ Current.fp # <<>>
    /\ ~EvictsPastTable
    /\ LET free == get_free_page_space
           victim == get_victim_page_index
           frame == IF free = -1 THEN victim ELSE free
           table == [k \in DOMAIN Current.pagetable |->
                       IF free = -1 /\ k = victim THEN -1 ELSE Current.pagetable[k]]
       IN  /\ framestore' = [framestore EXCEPT ![frame] =
                               set_page(Current.curr_page, cpu.pid, Chunk(Current.fp, 0), timer)]
           /\ pcb' = [pcb EXCEPT ![cpu.pid].fp = After(Current.fp, Len(Chunk(Current.fp, 0))),
                         ![cpu.pid].num_pages = @ + 1,
                         ![cpu.pid].pagetable =
                             [k \in DOMAIN table \cup {Current.num_pages} |->
                                 IF k = Current.num_pages THEN frame ELSE table[k]]]
    /\ timer' = timer + 1
    /\ Requeue
    /\ UNCHANGED <<pid_counter, status, text, executed>>

\* fetch_a_page, when it clears four bytes of another allocation.
FetchPastTable ==
    /\ Executing /\ page_fault /\ Current.fp # <<>>
    /\ EvictsPastTable
    /\ status' = "ub"
    /\ UNCHANGED <<framestore, timer, pid_counter, pcb, ready, cpu, text, executed>>

\* Mutant: the end of the file is taken for one more page fault.
EndOfFileRequeue ==
    /\ Executing /\ page_fault /\ Current.fp = <<>>
    /\ Requeue
    /\ UNCHANGED <<framestore, timer, pid_counter, pcb, status, text, executed>>

EndOfFile ==
    /\ Executing /\ page_fault /\ Current.fp = <<>>
    /\ terminate_process
    /\ UNCHANGED <<framestore, timer>>

\* The frame and the line execute_process reads next.
CurrentFrame == Current.pagetable[Current.curr_page]
CurrentLine == framestore[CurrentFrame].lines[Current.curr_line + 1]

\* get_line and update_page_timestamp: the timer moves twice.
Touch ==
    /\ framestore' = [framestore EXCEPT ![CurrentFrame].last_used = timer + 1]
    /\ timer' = timer + 2

NoneLine ==
    /\ Executing /\ ~page_fault /\ CurrentLine = None
    /\ Touch
    /\ terminate_process

\* The line goes to parseInput.
get_line ==
    /\ Executing /\ ~page_fault /\ CurrentLine # None
    /\ Touch
    /\ cpu' = [cpu EXCEPT !.at = "command", !.cmd = Command(CurrentLine)]
    /\ executed' = [executed EXCEPT ![cpu.pid] = Append(@, CurrentLine)]
    /\ UNCHANGED <<pid_counter, pcb, ready, status, text>>

\* parseInput has returned: the program counter moves, the quantum shrinks.
Advance ==
    /\ status = "ok" /\ cpu.at = "advance"
    /\ pcb' = [pcb EXCEPT
         ![cpu.pid].curr_line = IF @ = 2 THEN 0 ELSE @ + 1,
         ![cpu.pid].curr_page = IF Current.curr_line = 2 THEN @ + 1 ELSE @]
    /\ IF cpu.quanta = 1
       THEN Requeue
       ELSE /\ cpu' = [cpu EXCEPT !.at = "execute", !.quanta = @ - 1, !.cmd = NoCommand]
            /\ UNCHANGED ready
    /\ UNCHANGED <<framestore, timer, pid_counter, status, text, executed>>

Kernel ==
    \/ run \/ exec \/ quit \/ echo
    \/ Dispatch \/ SchedulerReturns
    \/ fetch_a_page \/ FetchPastTable \/ EndOfFile \/ NoneLine \/ get_line \/ Advance

Next == (\E c \in UserCommands : Type(c)) \/ Kernel

SafetySpec == Init /\ [][Next]_vars

\* The thread never blocks except at the prompt.
Spec == SafetySpec /\ WF_vars(Kernel)

-----------------------------------------------------------------------------
Pids == 1..(pid_counter - 1)

Line == UNION {{<<f, n>> : n \in DOMAIN Script[f]} : f \in DOMAIN Script}
Page == [pid : Pids \cup {-1}, page_number : Nat \cup {-1}, lines : [1..3 -> Line \cup {None}],
         available : BOOLEAN, last_used : 0..timer]

IsPCB(c) ==
    /\ c \in [pagetable : {c.pagetable}, num_pages : Nat, curr_page : Nat, curr_line : 0..2,
              fp : Seq(Line)]
    /\ c.curr_page <= c.num_pages
    /\ c.pagetable \in [0..(c.num_pages - 1) -> Frames \cup {-1}]

\* Type correctness of the frame store, the PCBs and the thread's position.
TypeOK ==
    /\ framestore \in [Frames -> Page]
    /\ timer \in Nat /\ pid_counter \in Nat \ {0}
    /\ DOMAIN pcb \subseteq Pids
    /\ \A p \in DOMAIN pcb : IsPCB(pcb[p])
    /\ ready \in Seq(Pids)
    /\ cpu \in [at : {"prompt", "command", "schedule", "execute", "advance"}, pid : Pids \cup {0},
                quanta : 0..MAX_INT, policy : Policies, cmd : {cpu.cmd}]
    /\ IsCommand(cpu.cmd)
    /\ status \in {"ok", "exit", "ub"}

\* No process is lost, queued twice or scheduled after terminate_process freed
\* it: while the shell runs, each live PCB is either in the ready queue, once,
\* or in the hands of execute_process, also when a script line runs more.
Waiting == {ready[i] : i \in DOMAIN ready}

QueueIntegrity ==
    /\ TypeOK
    /\ \A i, j \in DOMAIN ready : ready[i] = ready[j] => i = j
    /\ cpu.pid \notin Waiting
    /\ status = "ok" => DOMAIN pcb = Waiting \cup ({cpu.pid} \ {0})

\* The entry execute_process follows is never one that fetch_a_page has set
\* to -1, although the index it clears is that of a frame, not of a page.
TableEntryValid ==
    \A p \in DOMAIN pcb : \A k \in pcb[p].curr_page..(pcb[p].num_pages - 1) :
        pcb[p].pagetable[k] \in Frames

\* A process has the thread exactly from its dispatch to the end of its quanta,
\* and a line being interpreted is one of a page that is loaded.
ThreadInHand ==
    /\ cpu.pid # 0 <=> cpu.quanta > 0
    /\ cpu.at \in {"prompt", "schedule"} => cpu.pid = 0
    /\ cpu.at \in {"execute", "advance"} => cpu.pid # 0
    /\ status = "ok" /\ cpu.pid # 0 /\ cpu.at \in {"command", "advance"} => ~page_fault

\* What a step preserves.
IInv == QueueIntegrity /\ TableEntryValid /\ ThreadInHand

\* LRU replacement never takes a page its owner has yet to execute: what the
\* page table still leads to is the owner's text, and the rest is in the file.
PagesAhead ==
    \A p \in DOMAIN pcb :
        /\ \A k \in pcb[p].curr_page..(pcb[p].num_pages - 1) :
             LET page == framestore[pcb[p].pagetable[k]]
             IN  page = set_page(k, p, Chunk(text[p], k), page.last_used)
        /\ pcb[p].fp = After(text[p], 3 * pcb[p].num_pages)

\* "run SCRIPT.TXT  Executes the file SCRIPT.TXT": a process interprets the
\* lines of its own script, in order, and has interpreted all of them when it
\* is terminated.
ExecutesScript ==
    \A p \in Pids :
        /\ executed[p] = SubSeq(text[p], 1, Len(executed[p]))
        /\ p \notin DOMAIN pcb => Len(executed[p]) >= Len(text[p])

\* Nothing but the pages of completed processes keeps a command's scripts from
\* being loaded: with those frames given back, or in a shell that has just
\* started, get_free_page_space finds one whenever a loader calls it.
DeadPagesInTheWay ==
    status = "ub" /\ cpu.at # "execute" =>
        LET dead == {i \in Frames : framestore[i].pid \in Pids \ DOMAIN pcb}
            texts == [i \in DOMAIN cpu.cmd.args |-> LinesOf(cpu.cmd.args[i])]
        IN  Len(Loads(texts)) <= Cardinality(dead \cup FreeFrames)

\* A command comes back to the prompt: every process finishes.
PromptReturns == [](cpu.at # "prompt" => <>(cpu.at = "prompt" \/ status # "ok"))

-----------------------------------------------------------------------------
(***************************************************************************)
(* Flat scripts start no others and fit into one stdio buffer.  What is    *)
(* invariant for them.                                                     *)
(***************************************************************************)
AllFlat == \A f \in DOMAIN Script : /\ Len(Script[f]) <= StdioLines
                                    /\ \A n \in DOMAIN Script[f] : Script[f][n].op \in {"echo", "quit"}

\* The lines p has interpreted, and those in front of its program counter; the
\* line in hand lies between.
Ran(p) == Len(executed[p])
Position(c) == 3 * c.curr_page + c.curr_line
InLine(p) == p = cpu.pid /\ cpu.at \in {"command", "advance"}

Texts ==
    /\ text \in Seq(Seq(Line)) /\ executed \in Seq(Seq(Line))
    /\ Len(text) = pid_counter - 1 /\ Len(executed) = pid_counter - 1
    /\ \A p \in Pids : /\ Ran(p) <= Len(text[p])
                       /\ \A i \in 1..Ran(p) : executed[p][i] = text[p][i]
                       /\ p \notin DOMAIN pcb => Ran(p) = Len(text[p])

\* Two pages are loaded at the start, the others when their first line is due.
OnTime(c, t) ==
    /\ Position(c) <= 3 * c.num_pages
    /\ 3 * c.num_pages < Len(t) + 3 /\ (c.num_pages >= 2 \/ Len(t) <= 3 * c.num_pages)
    /\ c.num_pages > 2 => 3 * (c.num_pages - 1) <= Position(c)
Follows(p) ==
    /\ Ran(p) = Position(pcb[p]) + (IF InLine(p) THEN 1 ELSE 0)
    /\ OnTime(pcb[p], text[p])

Used == Frames \ FreeFrames
Stored ==
    /\ \A i \in Used : LET pg == framestore[i]
                      IN  /\ pg.pid \in Pids /\ pg.page_number \in Nat
                          /\ 3 * pg.page_number < Len(text[pg.pid])
                          /\ pg.pid \in DOMAIN pcb => pg.page_number < pcb[pg.pid].num_pages
                          /\ pg.last_used < timer
    /\ \A i, j \in Used : framestore[i].pid = framestore[j].pid
                          /\ framestore[i].page_number = framestore[j].page_number => i = j

\* The processes of the last command, from pid b on, have younger pages than
\* all before, and there is a frame for each page they started with.
Starters(b) == {x \in (b..(pid_counter - 1)) \X {0, 1} : 3 * x[2] < Len(text[x[1]])}
Batch(b) ==
    /\ \A p \in DOMAIN pcb : b <= p
    /\ Cardinality(Starters(b)) <= FRAMESTORE_LENGTH
    /\ \A i, j \in Used : framestore[i].pid < b /\ b <= framestore[j].pid =>
                            framestore[i].last_used < framestore[j].last_used

\* Who has a turn before whom, and the lines run before this turn, up to 6.
Before(s, p, q) == \E i, j \in DOMAIN s : i < j /\ s[i] = p /\ s[j] = q
Precedes(p, q) == Before(ready, p, q) \/ (p = cpu.pid /\ q \in Waiting)
LinesNow == Quanta - cpu.quanta + (IF cpu.at \in {"command", "advance"} THEN 1 ELSE 0)
Begun(p) == IF p = cpu.pid THEN Ran(p) - LinesNow ELSE Ran(p)
Early(p) == IF Begun(p) < 6 THEN Begun(p) ELSE 6

\* Up to the first page fault all processes run two lines in a turn.
InStep ==
    /\ cpu.pid # 0 => cpu.quanta \in {1, 2}
    /\ \A p \in DOMAIN pcb : Early(p) \in {0, 2, 4, 6}
    /\ \A p, q \in DOMAIN pcb : Precedes(p, q) => Early(p) <= Early(q) /\ Early(q) <= Early(p) + 2

\* The frames used since frame i was, and that one.
Since(i) == {j \in Used : framestore[j].last_used >= framestore[i].last_used}

\* Two pages of one process, both even or both odd.
SamePlace(x, y) == /\ framestore[x].pid = framestore[y].pid
                   /\ framestore[x].page_number % 2 = framestore[y].page_number % 2

\* Since q used the page it runs on, every other process has had one turn at
\* most, and has used no more than two pages, one after the other.
Recent(i, q) ==
    /\ \A x, y \in Since(i) : SamePlace(x, y) => x = y
    /\ \A x \in Since(i) : Precedes(framestore[x].pid, q) =>
         /\ framestore[x].pid = cpu.pid
         /\ \E m \in 1..LinesNow : framestore[x].page_number = (Ran(cpu.pid) - m) \div 3
ToRun(c) == c.curr_page..(c.num_pages - 1)
UsedLately == \A q \in Waiting : Ran(q) >= 4 => \A k \in ToRun(pcb[q]) : Recent(pcb[q].pagetable[k], q)

\* No frame has been used after frame i.
Newest(i) == \A j \in Used : j # i => framestore[j].last_used < framestore[i].last_used

\* A process under FCFS is the only one, a command is typed when there is none,
\* and what a script line does starts none.
Turns ==
    /\ cpu.at = "prompt" \/ (cpu.at = "command" /\ cpu.pid = 0) => DOMAIN pcb = {}
    /\ cpu.at = "command" /\ cpu.pid # 0 => cpu.cmd.op \in {"echo", "quit"}
    /\ cpu.at = "command" /\ cpu.pid = 0 => cpu.cmd \in UserCommands
    /\ cpu.pid # 0 /\ cpu.at \in {"command", "advance"} => Newest(CurrentFrame)
    /\ IF cpu.policy = "RR" THEN InStep /\ UsedLately
                            ELSE \A p, q \in DOMAIN pcb : p = q
    /\ \E b \in Pids \cup {pid_counter} : Batch(b)

\* What every step preserves when all scripts are flat.
FlatIInv ==
    /\ IInv /\ Texts /\ Stored /\ PagesAhead
    /\ \A p \in DOMAIN pcb : Follows(p)
    /\ status = "ok" => Turns
    /\ status = "ub" /\ cpu.at # "execute" =>
         DOMAIN pcb = {} /\ cpu.cmd \in UserCommands /\ cpu.cmd.op \in {"run", "exec"}
=============================================================================
