----------------------------- MODULE PagedKernel -----------------------------
(***************************************************************************)
(* The round-robin scheduler and demand paging of the a3 shell: kernel.c,  *)
(* pcb.c, cpu.c, linked_list.c, shellmemory.c and the run, exec, set and   *)
(* resetmem commands.  One thread; a step is a command at the prompt or    *)
(* one call of run_proc.  A script line is <<file, number>>; of a command  *)
(* only parseInput's result counts, because run_proc takes a 1 for a page  *)
(* fault.  Script lines that start scripts are left out, and malloc never  *)
(* fails.                                                                  *)
(***************************************************************************)
EXTENDS Integers, Sequences, FiniteSets, SequencesExt

CONSTANTS
    Script,            \* [file -> [lines : Seq(results and "blank"), trailing : BOOLEAN]]
    Batches,           \* the argument lists typed after run and exec
    Names,             \* names of shell variables
    NoName,            \* "none" in the variable zone
    FRAME_STORE_SIZE,  \* slots for script lines
    VAR_STORE_SIZE,    \* slots for variables
    NameRoom           \* scripts of a session whose backing-store names fit

ASSUME StoreAssumption ==
    /\ FRAME_STORE_SIZE \in Nat \ {0}
    /\ VAR_STORE_SIZE \in Nat /\ VAR_STORE_SIZE >= 2
    /\ NoName \notin Names

IsScript(s) == s.lines \in Seq({"ok", "one", "blank"}) /\ s.trailing \in BOOLEAN

\* run takes one argument, exec one to three.
ASSUME ScriptAssumption ==
    /\ \A f \in DOMAIN Script : IsScript(Script[f])
    /\ \A fs \in Batches : Len(fs) \in Nat \ {0} /\ DOMAIN fs = 1..Len(fs)

VARIABLES
    frames,     \* shellmemory below FRAME_VAR_BORDER: owner 0 is "none"
    variables,  \* shellmemory from FRAME_VAR_BORDER on: the names
    pcb,        \* ALL_PCB, by pid
    queue,      \* QUEUE, a sequence of pids
    lru,        \* LRU_CACHE, pages <<pid, page index>>, the newest first
    pid_counter,
    cpu,        \* [at |-> "prompt", "first" or "second" of a turn, pid |-> of the second]
    status,     \* "ok", "exit" (exit(99)) or "ub" (undefined behaviour)
    stored,     \* ghost: the names set and not reset
    text,       \* ghost: the lines of each process's script
    executed    \* ghost: the lines each process has interpreted

vars == <<frames, variables, pcb, queue, lru, pid_counter, cpu, status, stored, text, executed>>

FRAME_VAR_BORDER == FRAME_STORE_SIZE
FrameSlots == 0..(FRAME_VAR_BORDER - 1)
VarSlots == FRAME_VAR_BORDER..(FRAME_VAR_BORDER + VAR_STORE_SIZE - 1)

NoLine == <<"none", 0>>
none == [owner |-> 0, line |-> NoLine]
LinesOf(f) == [n \in DOMAIN Script[f].lines |-> <<f, n>>]
\* What parseInput makes of a line: "ok", "one" (it returns 1) or "blank",
\* which like the text "none" is a bad command and nothing else.
Kind(ln) == IF ln = NoLine THEN "blank" ELSE Script[ln[1]].lines[ln[2]]
Lowest(S) == CHOOSE x \in S : \A y \in S : x <= y
Prompt == [at |-> "prompt", pid |-> 0]

\* mem_init and kernel_setup
Init ==
    /\ frames = [i \in FrameSlots |-> none]
    /\ variables = [i \in VarSlots |-> NoName]
    /\ pcb = <<>> /\ queue = <<>> /\ lru = <<>>
    /\ pid_counter = 1
    /\ cpu = Prompt
    /\ status = "ok"
    /\ stored = {}
    /\ text = <<>> /\ executed = <<>>

-----------------------------------------------------------------------------
\* Mutant: the ends of lines only.
count_ends(f) == Cardinality({i \in 1..(Len(Script[f].lines) - 1) : Script[f].lines[i] # "blank"})

\* Mutant: one line too many.
count_lines_plus(f) == Len(Script[f].lines) + 1

\* count_lines: the ends of lines that are not blank, and one more for a last
\* line without an end.
count_lines(f) ==
    LET n == Len(Script[f].lines)
        ended == IF Script[f].trailing THEN 1..n ELSE 1..(n - 1)
    IN  1 + Cardinality({i \in ended : Script[f].lines[i] # "blank"})

PAGE_table_size(size) == (size + 2) \div 3

\* The position of a page that was never loaded is 1000.
PAGE_init == [index |-> [j \in 0..2 |-> 1000], valid_bit |-> [j \in 0..2 |-> FALSE]]

\* PCB_init before it loads pages.
FreshPCB(f) ==
    LET pages == 0..(PAGE_table_size(count_lines(f)) - 1)
    IN  [size |-> count_lines(f), page_table_size |-> PAGE_table_size(count_lines(f)),
         source_file |-> LinesOf(f),
         page_table |-> [k \in pages |-> PAGE_init],
         program_counter |-> [k \in pages |-> 0]]

InitialPages(f) == IF PAGE_table_size(count_lines(f)) < 2 THEN PAGE_table_size(count_lines(f)) ELSE 2

\* frame_alloc: three free slots in a row.
Spaces(fr) == {i \in FrameSlots : i + 2 < FRAME_VAR_BORDER /\ \A j \in i..(i + 2) : fr[j].owner = 0}

\* A page of which the first n lines are at base, and a PCB with such a page,
\* its file read on by n lines.
PageAt(base, n) == [index |-> [j \in 0..2 |-> base + j], valid_bit |-> [j \in 0..2 |-> j < n]]
WithPage(c, k, base, n) == [c EXCEPT !.source_file = SubSeq(@, n + 1, Len(@)), !.page_table[k] = PageAt(base, n)]

\* The frame at base, with the lines ls of process p.
FrameWith(fr, p, base, ls) ==
    [i \in FrameSlots |->
       IF i \in base..(base + 2)
       THEN [owner |-> p, line |-> IF i - base < Len(ls) THEN ls[i - base + 1] ELSE fr[i].line]
       ELSE fr[i]]

\* load_PAGE, reading on where the file was left.  st is the frames, the
\* PCBs, the LRU list and whether a frame was found.
load_PAGE(st, p, k) ==
    LET file == st.pcb[p].source_file
        ls == SubSeq(file, 1, IF Len(file) < 3 THEN Len(file) ELSE 3)
        base == Lowest(Spaces(st.fr))
    IN  IF Spaces(st.fr) = {} THEN [st EXCEPT !.ok = FALSE]
        ELSE [st EXCEPT !.fr = FrameWith(@, p, base, ls), !.pcb[p] = WithPage(@, k, base, Len(ls))]

PageSlots(c, k) == {c.page_table[k].index[j] : j \in 0..2}
Emptied(st, p, k) == [i \in FrameSlots |-> IF i \in PageSlots(st.pcb[p], k) THEN none ELSE st.fr[i]]

\* Mutant: the valid bits stay set.
PAGE_evict_valid(st, p, k) == [st EXCEPT !.fr = Emptied(st, p, k)]

PAGE_evict(st, p, k) ==
    [st EXCEPT !.fr = Emptied(st, p, k),
               !.pcb[p].page_table[k] = [index |-> [j \in 0..2 |-> 0], valid_bit |-> [j \in 0..2 |-> FALSE]]]

-----------------------------------------------------------------------------
\* new_proc: PCB_init loads the first pages, and they go on the LRU list.
new_proc(st, p, f) ==
    LET one == load_PAGE(st, p, 0)
        two == load_PAGE(one, p, 1)
    IN  IF InitialPages(f) = 1 THEN [one EXCEPT !.lru = <<<<p, 0>>>> \o @]
        ELSE IF ~one.ok THEN one
        ELSE [two EXCEPT !.lru = <<<<p, 1>>>> \o (<<<<p, 0>>>> \o @)]

\* new_proc for one script after the other.
Processes(fs) ==
    LET new == [p \in pid_counter..(pid_counter + Len(fs) - 1) |-> FreshPCB(fs[p - pid_counter + 1])]
        procs[n \in 0..Len(fs)] ==
            IF n = 0 THEN [fr |-> frames, pcb |-> new, lru |-> <<>>, ok |-> TRUE]
            ELSE LET st == procs[n - 1]
                 IN  IF st.ok THEN new_proc(st, pid_counter + n - 1, fs[n]) ELSE st
    IN  procs[Len(fs)]

Ends(how) == /\ status' = how
             /\ UNCHANGED <<frames, pcb, queue, lru, pid_counter, cpu, text, executed>>

\* After new_proc for each script.  One frame too few, and the shell exits.
Start(fs, st) ==
    LET pids == [i \in DOMAIN fs |-> pid_counter + i - 1]
    IN  IF ~st.ok
        THEN Ends("exit")
        ELSE /\ frames' = st.fr
             /\ pcb' = st.pcb
             /\ queue' = pids
             /\ lru' = st.lru
             /\ pid_counter' = pid_counter + Len(fs)
             /\ cpu' = [at |-> "first", pid |-> 0]
             /\ text' = text \o [i \in DOMAIN fs |-> LinesOf(fs[i])]
             /\ executed' = executed \o [i \in DOMAIN fs |-> <<>>]
             /\ UNCHANGED status

\* run is exec of one script; both copy the scripts to the backing store and
\* schedule round-robin.  The name of the copy, with one letter more for each
\* script of the session, goes into buffers of 100 bytes.  A script that does
\* not exist ends the shell.
exec(fs) ==
    /\ status = "ok" /\ cpu.at = "prompt"
    /\ \/ /\ pid_counter + Len(fs) - 1 > NameRoom
          /\ Ends("ub")
       \/ /\ pid_counter + Len(fs) - 1 <= NameRoom
          /\ \A i \in DOMAIN fs : fs[i] \in DOMAIN Script
          /\ Start(fs, Processes(fs))
       \/ /\ pid_counter + Len(fs) - 1 <= NameRoom
          /\ ~ \A i \in DOMAIN fs : fs[i] \in DOMAIN Script
          /\ Ends("exit")
    /\ UNCHANGED <<variables, stored>>

\* mem_set_value: the slot of the name, or else the first free one, or else
\* nothing happens.
set(x) ==
    LET same == {i \in VarSlots : variables[i] = x}
        free == {i \in VarSlots : variables[i] = NoName}
    IN  /\ status = "ok" /\ cpu.at = "prompt"
        /\ variables' = IF same = {} /\ free # {} THEN [variables EXCEPT ![Lowest(free)] = x] ELSE variables
        /\ stored' = IF same # {} \/ free # {} THEN stored \cup {x} ELSE stored
        /\ UNCHANGED <<frames, pcb, queue, lru, pid_counter, cpu, status, text, executed>>

\* reset_var_zone
resetmem ==
    /\ status = "ok" /\ cpu.at = "prompt"
    /\ variables' = [i \in VarSlots |-> NoName]
    /\ stored' = {}
    /\ UNCHANGED <<frames, pcb, queue, lru, pid_counter, cpu, status, text, executed>>

-----------------------------------------------------------------------------
PCB_done(p) == \A k \in DOMAIN pcb[p].program_counter : pcb[p].program_counter[k] = 3
queue_done == \A i \in DOMAIN queue : PCB_done(queue[i])

InTurn == status = "ok" /\ \/ cpu.at = "first" /\ ~queue_done
                           \/ cpu.at = "second"

\* The process of this turn, and the queue without it.
curr == IF cpu.at = "second" THEN cpu.pid ELSE Head(queue)
others == IF cpu.at = "second" THEN queue ELSE Tail(queue)

\* The page, the slot and the line run_proc is called with.
page == Lowest({k \in DOMAIN pcb[curr].program_counter : pcb[curr].program_counter[k] # 3})
slot == pcb[curr].program_counter[page]
valid_bit == pcb[curr].page_table[page].valid_bit[slot]
line == frames[pcb[curr].page_table[page].index[slot]].line

\* Mutant: the size is not counted down.
RanSameSize == [pcb EXCEPT ![curr].program_counter[page] = @ + 1]

\* cpu_run has interpreted the line.
Ran == [pcb EXCEPT ![curr].program_counter[page] = @ + 1, ![curr].size = @ - 1]
Executed == executed' = [executed EXCEPT ![curr] = Append(@, line)]

\* run_proc after a 1: load the page, after evicting the least recently used
\* one if there is no frame (every process has put one on the list); whether
\* the second attempt finds a frame is not looked at.  The process goes to the
\* tail of the queue.
Paged(st) ==
    /\ frames' = st.fr
    /\ pcb' = st.pcb
    /\ lru' = <<<<curr, page>>>> \o st.lru
    /\ queue' = Append(others, curr)
    /\ cpu' = [at |-> "first", pid |-> 0]
    /\ UNCHANGED status

\* The slots PAGE_evict frees for this page.  A page listed although its second
\* load failed has the position 1000 or, when it had been evicted before, 0:
\* the slot of another page, of a variable, or none of shellmemory.
Freed == IF Spaces(frames) = {} THEN PageSlots(pcb[Last(lru)[1]], Last(lru)[2]) ELSE {}
InMemory == Freed \subseteq FrameSlots \cup VarSlots
FreeVariables == variables' = [i \in VarSlots |-> IF i \in Freed THEN NoName ELSE variables[i]]

\* Mutant: the victim is the most recently used page.
PageInNewest(procs) ==
    LET St(list) == [fr |-> frames, pcb |-> procs, lru |-> list, ok |-> TRUE]
    IN  /\ InMemory /\ FreeVariables
        /\ \E st \in {IF Spaces(frames) # {} THEN St(lru)
                      ELSE PAGE_evict(St(Tail(lru)), Head(lru)[1], Head(lru)[2])} :
             \E new \in {load_PAGE(st, curr, page)} : Paged(new)

PageIn(procs) ==
    LET St(list) == [fr |-> frames, pcb |-> procs, lru |-> list, ok |-> TRUE]
    IN  /\ InMemory /\ FreeVariables
        /\ \E st \in {IF Spaces(frames) # {} THEN St(lru)
                      ELSE PAGE_evict(St(Front(lru)), Last(lru)[1], Last(lru)[2])} :
             \E new \in {load_PAGE(st, curr, page)} : Paged(new)

\* cpu_run finds the valid bit clear.
page_fault ==
    /\ InTurn /\ pcb[curr].size > 0 /\ ~valid_bit
    /\ PageIn(pcb)
    /\ UNCHANGED <<pid_counter, stored, text, executed>>

\* The command itself returned 1: rm of a file, a read of as many bytes as it
\* asks for, size or seek of a file that does not exist.
ReturnsOne == InTurn /\ pcb[curr].size > 0 /\ valid_bit /\ Kind(line) = "one"
CommandReturnsOne ==
    /\ ReturnsOne
    /\ Executed
    /\ PageIn(Ran)
    /\ UNCHANGED <<pid_counter, stored, text>>

\* PAGE_evict reads and writes a slot that shellmemory does not have.
EvictOutside ==
    /\ InTurn /\ pcb[curr].size > 0
    /\ ~InMemory
    /\ \/ ~valid_bit /\ UNCHANGED executed
       \/ ReturnsOne /\ Executed
    /\ status' = "ub"
    /\ UNCHANGED <<frames, variables, pcb, queue, lru, pid_counter, cpu, stored, text>>

\* remove_elem takes the first page of the list at the same position.
Touch ==
    LET Position(pg) == pcb[pg[1]].page_table[pg[2]].index[0]
        m == Lowest({n \in DOMAIN lru : Position(lru[n]) = Position(<<curr, page>>)})
    IN  lru' = <<lru[m]>> \o RemoveAt(lru, m)

\* Mutant: the process is put back after its first line too.
cpu_run_requeue ==
    /\ InTurn /\ pcb[curr].size > 0 /\ valid_bit /\ Kind(line) # "one"
    /\ Executed
    /\ pcb' = Ran
    /\ Touch
    /\ queue' = Append(others, curr)
    /\ cpu' = IF cpu.at = "first" /\ pcb[curr].size > 1 THEN [at |-> "second", pid |-> curr]
              ELSE [at |-> "first", pid |-> 0]
    /\ UNCHANGED <<frames, variables, pid_counter, status, stored, text>>

\* The line ran: two lines make a turn, unless it was the last one.
cpu_run ==
    /\ InTurn /\ pcb[curr].size > 0 /\ valid_bit /\ Kind(line) # "one"
    /\ Executed
    /\ pcb' = Ran
    /\ Touch
    /\ queue' = IF cpu.at = "second" THEN Append(others, curr) ELSE others
    /\ cpu' = IF cpu.at = "first" /\ pcb[curr].size > 1 THEN [at |-> "second", pid |-> curr]
              ELSE [at |-> "first", pid |-> 0]
    /\ UNCHANGED <<frames, variables, pid_counter, status, stored, text>>

\* A process without lines left is not queued again.
Drop ==
    /\ InTurn /\ pcb[curr].size <= 0
    /\ queue' = others
    /\ UNCHANGED <<frames, variables, pcb, lru, pid_counter, cpu, status, stored, text, executed>>

\* The end of run_proc_RR: free_PCB clears three slots from each slot of each
\* page, so up to two beyond the page.
Positions(p) == {pcb[p].page_table[k].index[j] : k \in DOMAIN pcb[p].page_table, j \in 0..2}
\* Mutant: the first page only.
ClearedFirst == UNION {LET i == pcb[p].page_table[0].index[0] IN i..(i + 2) : p \in DOMAIN pcb}

\* Mutant: one slot more.
ClearedFour == UNION {i..(i + 3) : i \in UNION {Positions(p) : p \in DOMAIN pcb}}

Cleared == UNION {i..(i + 2) : i \in UNION {Positions(p) : p \in DOMAIN pcb}}

free_PCB ==
    /\ status = "ok" /\ cpu.at = "first" /\ queue_done
    /\ IF Cleared \subseteq FrameSlots \cup VarSlots
       THEN /\ frames' = [i \in FrameSlots |-> IF i \in Cleared THEN none ELSE frames[i]]
            /\ variables' = [i \in VarSlots |-> IF i \in Cleared THEN NoName ELSE variables[i]]
            /\ UNCHANGED status
       ELSE /\ status' = "ub"
            /\ UNCHANGED <<frames, variables>>
    /\ pcb' = <<>> /\ queue' = <<>> /\ lru' = <<>>
    /\ cpu' = Prompt
    /\ UNCHANGED <<pid_counter, stored, text, executed>>

Kernel == page_fault \/ CommandReturnsOne \/ EvictOutside \/ cpu_run \/ Drop \/ free_PCB

Next ==
    \/ \E fs \in Batches : exec(fs)
    \/ \E x \in Names : set(x)
    \/ resetmem
    \/ Kernel

\* The thread waits for nothing but the next command.
Spec == Init /\ [][Next]_vars /\ WF_vars(Kernel)
-----------------------------------------------------------------------------
Pids == 1..(pid_counter - 1)
Live == DOMAIN pcb
Waiting == {queue[i] : i \in DOMAIN queue}

Lines == {NoLine} \cup UNION {{<<f, n>> : n \in DOMAIN Script[f].lines} : f \in DOMAIN Script}
Pages == [index : [0..2 -> FrameSlots \cup {1000}], valid_bit : [0..2 -> BOOLEAN]]
IsPCB(c) ==
    /\ c.page_table_size \in Nat
    /\ c \in [size : Nat, page_table_size : Nat, source_file : Seq(Lines),
              page_table : [0..(c.page_table_size - 1) -> Pages],
              program_counter : [0..(c.page_table_size - 1) -> 0..3]]

\* Type correctness of memory, PCBs, queue and LRU list.
TypeOK ==
    /\ pid_counter \in Nat \ {0}
    /\ frames \in [FrameSlots -> [owner : Pids \cup {0}, line : Lines]]
    /\ variables \in [VarSlots -> Names \cup {NoName}]
    /\ Live \subseteq Pids
    /\ pcb = [p \in Live |-> pcb[p]] /\ \A p \in Live : IsPCB(pcb[p])
    /\ queue \in Seq(Live)
    /\ lru \in Seq(Live \X Nat)
    /\ cpu \in [at : {"prompt", "first", "second"}, pid : Live \cup {0}]
    /\ status \in {"ok", "exit", "ub"}
    /\ stored \subseteq Names

\* A process is scheduled at most once at a time and only while it is there,
\* whichever of the three add_tail calls put it back.
QueueIntegrity ==
    /\ TypeOK
    /\ \A i, j \in DOMAIN queue : queue[i] = queue[j] => i = j
    /\ Waiting \subseteq Live
    /\ cpu.pid \notin Waiting

\* The scans of run_proc_RR for a program counter below 3 have no bound of
\* their own: a process with lines left has a page that is not finished, and
\* one that is no longer scheduled has none left.
ScanFindsPage ==
    \A p \in Live : /\ pcb[p].size > 0 => ~PCB_done(p)
                    /\ p \notin Waiting \cup {cpu.pid} => pcb[p].size = 0

\* e lines of the process have been executed: the pages in front are finished,
\* the ones behind are not begun, and the size is what is left of the script.
HasRun(c, e) ==
    /\ PAGE_table_size(c.size + e) = c.page_table_size
    /\ \A k \in DOMAIN c.program_counter :
         c.program_counter[k] = IF 3 * k + 3 <= e THEN 3 ELSE IF e <= 3 * k THEN 0 ELSE e - 3 * k

\* The LRU list holds pages of the page tables, and all that have a line in a
\* frame, so that remove_elem finds the page that was used.
Listed(list, procs) ==
    /\ \A n \in DOMAIN list : list[n][2] \in DOMAIN procs[list[n][1]].page_table
    /\ \A p \in DOMAIN procs : \A k \in DOMAIN procs[p].page_table : \A j \in 0..2 :
         procs[p].page_table[k].valid_bit[j] => \E n \in DOMAIN list : list[n] = <<p, k>>

\* A process in its turn has a line left; while there are processes there is
\* a page to evict.
InTurnOK ==
    /\ cpu.at = "second" => cpu.pid \in Live /\ pcb[cpu.pid].size > 0
    /\ cpu.at # "second" => cpu.pid = 0
    /\ Live # {} => lru # <<>>

\* Every process has run some number of its lines.
Counted(procs) ==
    \A p \in DOMAIN procs : /\ IsPCB(procs[p])
                            /\ \E e \in 0..(3 * procs[p].page_table_size) : HasRun(procs[p], e)

\* The inductive invariant.
IInv ==
    /\ QueueIntegrity
    /\ \A p \in Live : p \notin Waiting \cup {cpu.pid} => pcb[p].size = 0
    /\ Counted(pcb)
    /\ Listed(lru, pcb)
    /\ InTurnOK

\* Plain scripts have lines, none of them blank, no end of line after the last
\* one, and no command that returns 1.
IsPlain(f) == /\ Script[f].lines \in Seq({"ok"}) /\ Script[f].lines # <<>>
              /\ ~Script[f].trailing

\* All scripts of the session were plain: what other scripts leave behind (lost
\* frames, lines never read) is met by the next ones.
PlainSoFar == \A p \in Pids : text[p] # <<>> /\ IsPlain(text[p][1][1])

\* The LRU list holds every page that is in a frame, once, and that frame is
\* the page's own: PAGE_evict frees no one else's slots.
Loaded == UNION {{<<p, k>> : k \in {k \in DOMAIN pcb[p].page_table : pcb[p].page_table[k].valid_bit[0]}} :
                   p \in Live}

LRUMatchesFrames ==
    PlainSoFar =>
        /\ {lru[n] : n \in DOMAIN lru} = Loaded
        /\ Len(lru) = Cardinality(Loaded)
        /\ \A pg \in Loaded : \A j \in 0..2 : frames[pcb[pg[1]].page_table[pg[2]].index[j]].owner = pg[1]
        /\ 3 * Len(lru) = Cardinality({i \in FrameSlots : frames[i].owner # 0})

\* Page replacement never takes a page whose lines are still to be run, which
\* load_PAGE could not bring back: the file is read on, never again.
NeededPagesStay ==
    PlainSoFar =>
        \A p \in Live : \A k \in DOMAIN pcb[p].page_table :
            LET pg == pcb[p].page_table[k]
            IN  pcb[p].program_counter[k] < 3 /\ pg.index[0] # 1000 =>
                  \A j \in pcb[p].program_counter[k]..2 :
                     3 * k + j < Len(text[p]) =>
                       pg.valid_bit[j] /\ frames[pg.index[j]].line = text[p][3 * k + j + 1]

\* "run SCRIPT.TXT  Executes the file SCRIPT.TXT": a process runs the lines of
\* its own script, in order, and all of them by the time the prompt is back.
ExecutesScript ==
    PlainSoFar =>
        \A p \in Pids :
            /\ executed[p] = SubSeq(text[p], 1, Len(executed[p]))
            /\ p \notin Live => Len(executed[p]) >= Len(text[p])

\* The prompt comes back with an empty frame store.
FramesReturned == PlainSoFar /\ cpu.at = "prompt" => \A i \in FrameSlots : frames[i].owner = 0

\* A command comes back to the prompt.
PromptReturns == [](PlainSoFar /\ cpu.at # "prompt" => <>(cpu.at = "prompt"))

\* The slots behind the border that clear_frame reaches from the last slot of the
\* last frame.
Spill == 2 - (FRAME_STORE_SIZE % 3)

\* Whatever pages are loaded, evicted and cleared, running scripts changes no
\* variable behind the spill: clear_frame, called for each slot of a page and
\* not for each page, goes two slots too far, and never further.
VariablesBehindKept ==
    [][PlainSoFar /\ cpu.at # "prompt" =>
         \A i \in VarSlots : i >= FRAME_VAR_BORDER + Spill => variables'[i] = variables[i]]_vars

\* "FRAME_STORE_SIZE - FRAME_STORE_SIZE + VAR_STORE_SIZE: reserved for
\* variables": a variable stays until resetmem.
VariablesKept == \A x \in stored : \E i \in VarSlots : variables[i] = x

-----------------------------------------------------------------------------
(***************************************************************************)
(* What is invariant when every script is plain.                           *)
(***************************************************************************)
AllPlain == \A f \in DOMAIN Script : IsPlain(f)

\* The lines of the text t that are on page k, and a page after PAGE_evict.
LinesOn(t, k) == IF Len(t) - 3 * k < 3 THEN Len(t) - 3 * k ELSE 3
Evicted == [index |-> [j \in 0..2 |-> 0], valid_bit |-> [j \in 0..2 |-> FALSE]]

\* The page pg, of a process with the text t, is in the frame number a.
InFrame(fr, procs, pg, t, a) ==
    /\ 3 * a + 2 < FRAME_VAR_BORDER
    /\ procs[pg[1]].page_table[pg[2]] = PageAt(3 * a, LinesOn(t, pg[2]))
    /\ \A j \in 0..2 : /\ fr[3 * a + j].owner = pg[1]
                       /\ j < LinesOn(t, pg[2]) => fr[3 * a + j].line = t[3 * pg[2] + j + 1]

\* A page with a line in a frame has a frame to itself, every slot with an
\* owner is part of one, and the list names these pages, each once.
PagesIn(procs) == {pg \in UNION {{p} \X DOMAIN procs[p].page_table : p \in DOMAIN procs} :
                     procs[pg[1]].page_table[pg[2]].valid_bit[0]}
Used(fr) == {i \in FrameSlots : fr[i].owner # 0}
Base(procs, pg) == procs[pg[1]].page_table[pg[2]].index[0]
Stored(fr, procs, list, txt) ==
    /\ Range(list) = PagesIn(procs)
    /\ \A m, n \in DOMAIN list : list[m] = list[n] => m = n
    /\ \A pg \in Range(list) : \E a \in FrameSlots : InFrame(fr, procs, pg, txt[pg[1]], a)
    /\ \A pg, qg \in Range(list) : Base(procs, pg) = Base(procs, qg) => pg = qg
    /\ \A i \in Used(fr) : \E pg \in Range(list) : \E j \in 0..2 : i = Base(procs, pg) + j
    /\ 3 * Len(list) = Cardinality(Used(fr))

\* A PCB whose process has run e lines of the text t and whose file has been
\* read up to page l: only pages without a line to run have been evicted.
ReadTo(c, t, e, l) ==
    /\ c.size + e = Len(t) /\ HasRun(c, e)
    /\ c.source_file = SubSeq(t, 3 * l + 1, Len(t))
    /\ \A k \in DOMAIN c.page_table :
         IF k >= l THEN c.page_table[k] = PAGE_init
         ELSE \/ c.page_table[k].valid_bit[0]
              \/ c.page_table[k] = Evicted /\ (3 * k + 3 <= e \/ e = Len(t))

\* Two pages are read at the start, the others when their first line is due.
OnTime(c, e, l) ==
    e <= 3 * l /\ (l = c.page_table_size \/ l >= 2) /\ (l > 2 => 3 * (l - 1) <= e)

Ran1(p) == Len(executed[p])
Follows(p) == \E l \in 0..pcb[p].page_table_size :
                 ReadTo(pcb[p], text[p], Ran1(p), l) /\ OnTime(pcb[p], Ran1(p), l)

\* The scripts and what has been run of them.
Texts ==
    /\ text \in Seq(Seq(Lines)) /\ executed \in Seq(Seq(Lines))
    /\ Len(text) = pid_counter - 1 /\ Len(executed) = pid_counter - 1
    /\ \A p \in Pids : /\ \E f \in DOMAIN Script : text[p] = LinesOf(f)
                       /\ Ran1(p) <= Len(text[p])
                       /\ \A i \in 1..Ran1(p) : executed[p][i] = text[p][i]
                       /\ p \notin Live => Ran1(p) = Len(text[p])

\* Who has a turn before whom, and the lines run before this turn, up to 6.
Before(s, p, q) == \E i, j \in DOMAIN s : i < j /\ s[i] = p /\ s[j] = q
Ahead(p, q) == Before(queue, p, q) \/ (cpu.at = "second" /\ p = cpu.pid /\ q \in Waiting)
Begun(p) == IF cpu.at = "second" /\ p = cpu.pid THEN Ran1(p) - 1 ELSE Ran1(p)
Early(p) == IF Begun(p) < 6 THEN Begun(p) ELSE 6

\* Up to the first page fault all processes run two lines in a turn.
InStep ==
    /\ \A p \in Waiting \cup ({cpu.pid} \ {0}) : Early(p) \in {0, 2, 4, 6}
    /\ \A p, q \in Live : Ahead(p, q) => Early(p) <= Early(q) /\ Early(q) <= Early(p) + 2

\* The pages on a list from the newest to pg.
UpTo(list, pg) == {list[n] : n \in {n \in DOMAIN list : \E m \in DOMAIN list : n <= m /\ list[m] = pg}}

\* Since a process used the page it runs on, every other process has had one
\* turn at most, and has used no more than two pages, one after the other.
Recent(pg, q) ==
    /\ \A x, y \in UpTo(lru, pg) : x[1] = y[1] /\ x[2] % 2 = y[2] % 2 => x = y
    /\ \A x \in UpTo(lru, pg) : Ahead(x[1], q) =>
         cpu.at = "second" /\ x[1] = cpu.pid /\ x[2] = (Ran1(x[1]) - 1) \div 3
ToRun(p, k) == Ran1(p) < Len(text[p]) /\ Ran1(p) < 3 * k + 3
UsedLately == \A pg \in Range(lru) : pg[1] \in Waiting /\ Ran1(pg[1]) >= 4 /\ ToRun(pg[1], pg[2]) =>
                 Recent(pg, pg[1])

\* There is a frame for each page that was loaded at the start.
Starters == {x \in Live \X {0, 1} : x[2] < pcb[x[1]].page_table_size}
Enough == Cardinality(Starters) <= FRAME_STORE_SIZE \div 3

PlainIInv ==
    /\ IInv
    /\ Texts
    /\ \A p \in Live : Follows(p)
    /\ Stored(frames, pcb, lru, text)
    /\ InStep /\ UsedLately /\ Enough
    /\ cpu.at = "prompt" => Live = {} /\ queue = <<>>
=============================================================================
