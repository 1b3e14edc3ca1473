# Verification of the comp310 shells and file system

The repository holds three assignments of an operating-systems course, each a C
program for one process and one thread:

* `src/a1`: a shell with variables, `run` and `if`;
* `src/a2`: that shell with processes, scheduling, a frame store and demand paging;
* `src/a3`: another shell with round-robin scheduling and paging, on top of a file
  system in the style of Pintos (buffer cache, free map, inodes, directories).

This directory models the parts of them that carry state over many steps, in
TLA+. TLC checks them on small instances; most safety results about the buffer cache,
the allocation of sectors to inodes, the file system commands, the byte loops of files,
the a1 shell and the two schedulers are proved with TLAPS for every size.

## Inventory

### a3 file system (`src/a3/fs`)

| Component | State | Operations | What makes it correct |
|---|---|---|---|
| Buffer cache, `cache.c` | 64 slots (sector, content, dirty, access, occupied), a clock hand | `buffer_cache_read`, `_write`, `_evict`, `_flush`, `_close` | A read returns the last write; one copy per sector; what is dropped without a write is on the disk; the clock loop ends; `close` leaves everything on the disk |
| Block device, `block.c`, `ide.c` | the image file | `block_read`, `block_write` | external to the cache: a sector is written as a whole |
| Free map, `free-map.c`, `bitmap.c` | bitmap of used sectors, the file that stores it | `free_map_allocate`, `_release`, `_open`, `_close` | A sector in use is never handed out |
| Inodes, `inode.c` | on disk: direct, indirect and doubly indirect blocks and the length; in memory: the same and an open count | `inode_create`, `_open`, `_close`, `_reserve`, `_deallocate`, `_write_at`, `index_to_sector`, `get_inode_data_sectors` | No sector in two places; all ways of walking an inode agree; removing gives everything back |
| Directories, open files, file table: `directory.c`, `file.c`, `fsutil.c` | names and inode sectors; the open files, their positions | `dir_add`, `dir_remove`, `file_open`, `file_close`, ... | An entry leads to a live inode; a file is freed by its last user |
| Calls, `filesys.c`, `fsutil.c` | none of their own | `filesys_create`, `filesys_remove`, `fsutil_write`, ... | A call that fails changes nothing it should not |
| Extensions, `fsutil2.c` | none of their own; they leave struct inodes and the root directory open | `copy_in`, `copy_out`, `find_file`, `fragmentation_degree`, `defragment`, `recover` | No file is lost, no struct inode is wrong or freed under its user, a computed size is one that fits |

The calls use the free map, the inodes and the directory; all of these reach the
disk through the cache only. Everything runs in one thread, so what is hard is not
concurrency: it is a call that fails half way on a full disk, the end of the process
between two device accesses (`exit(99)` in `pcb.c` skips `filesys_done`), and
state that exists twice (inode in memory and on disk, slot and sector, bitmap
and its file).

### a3 shell (`src/a3`)

| Component | State | Operations | What makes it correct |
|---|---|---|---|
| Scheduler, `kernel.c`, `cpu.c` | ready queue, list of all PCBs, LRU list | `run_proc_RR`, `run_proc`, `cpu_run`, `page_fault` handling | Every script is executed completely and in order, and the prompt comes back |
| Processes and pages, `pcb.c` | page table, valid bits, one program counter per page, remaining size, open file | `PCB_init`, `load_PAGE`, `PAGE_evict`, `free_PCB`, `count_lines` | A page with lines still to run is never evicted, because the file is never read again |
| Shell memory, `shellmemory.c` | one array: frames below a border, variables above | `frame_alloc`, `clear_frame`, `mem_set_value`, `reset_var_zone` | Frames and variables do not disturb each other |
| Linked list, `linked_list.c` | nodes | `add_head`, `add_tail`, `pop_*`, `remove_elem` | |
| Interpreter, `interpreter.c`, `shell.c` | | the commands | the value a command returns reaches `run_proc` |

### a2 shell (`src/a2`)

| Component | State | Operations | What makes it correct |
|---|---|---|---|
| Scheduler, `kernel.c`, `ready_queue.c` | ready queue | `scheduler_FCFS`, `scheduler_RR`, `execute_process`, `terminate_process` | No process is lost, queued twice or used after it is freed, also when a script starts scripts |
| Frame store, `framestore.c`, `page.c`, `lru.c` | frames with owner, page number, time stamp; the timer | `load_file`, `load_multiple_files`, `get_victim_page_index` | A page table entry leads to the page of its process |
| Processes, `pcb.c` | page table, page and line counters, the backing file | `makePCB`, `fetch_a_page`, `free_PCB` | |
| Interpreter and shell | | `run`, `exec`, `quit`, ... | |

The hard part of a2 is that `parseInput` is called from inside `execute_process`: a
script line may start more scripts and so change the queue and the frames while
its own process is in neither.

### a1 shell (`src/a1`)

| Component | State | Operations | What makes it correct |
|---|---|---|---|
| Shell and interpreter, `shell.c`, `interpreter.c` | the C call stack (scripts and branches being run), open files, the host's current directory | `run`, `if`, `set`, `print`, `echo`, `my_cd`, `my_mkdir`, `my_touch`, ... | A line does what it says, however scripts and branches are nested, and the prompt comes back |
| Shell memory, `shellmemory.c` | 1000 slots of name and value | `mem_set_value`, `mem_get_value` | A map of at most 1000 variables: none is lost, doubled or mixed up |

There are no processes: `run` calls `parseInput` for each line and `if` calls
`interpreter` for each command, so what is hard is what a line returns to the
script or branch it is part of.

`PROJECT.json` lists every component with its status, and every hazard at its line
with the properties that watch it.

## Modules

| Module | Models | Uses |
|---|---|---|
| `BlockStore` | abstract: what `cache.h` promises | |
| `BufferCache` | `cache.c` over the disk image | `BlockStore`, by refinement |
| `BufferCacheProofs` | theorems about `BufferCache` | |
| `InodeAlloc`, `MCInodeAlloc` | free map, inode blocks, create, extend, remove, restart | |
| `InodeAllocProofs` | theorems about `InodeAlloc` | `CountingLemmas` |
| `FsExtensions`, `MCFsExtensions` | `cat` and the commands of `fsutil2.c`; which struct inodes exist | extends `InodeAlloc` |
| `FsExtensionsProofs` | theorems about `FsExtensions` | extends `InodeAllocProofs` |
| `ByteFile` | abstract: reads and writes of one file as an array of bytes | |
| `FileIO`, `MCFileIO` | the loops of `inode_read_at` and `inode_write_at`, file positions | `ByteFile`, by refinement |
| `FileIOProofs` | theorems about `FileIO` | |
| `VarStore` | abstract: a map that holds a bounded number of variables | |
| `ShellMemory` | a1: the table of variables | `VarStore`, by refinement |
| `A1Shell` | a1: `main`, `parseInput` and all commands, on a stack | extends `ShellMemory` |
| `ShellMeaning`, `MCA1Shell` | what a line typed at the a1 shell means, as a recursive operator | extends `A1Shell` |
| `A1ShellProofs` | theorems about `A1Shell` and `ShellMemory` | `CountingLemmas` |
| `Paging`, `MCPaging` | a2: scheduler, frame store, processes, `run`, `exec`, `quit` | |
| `PagingProofs` | theorems about `Paging` | `CountingLemmas` |
| `PagedKernel`, `MCPagedKernel` | a3: scheduler, pages, shell memory, `run`, `exec`, `set`, `resetmem` | |
| `PagedKernelProofs` | theorems about `PagedKernel` | `CountingLemmas` |
| `CountingLemmas` | least elements, ordered listing of a set of numbers, sizes of covered sets, repeated steps | |

Definitions keep the C names where they stand for one function. Each definition
commented `Mutant:` is a faulty variant of the one below it; no specification uses
it. It records which bug the property of the same topic would find.

### BufferCache

`disk` is the image, `cache` the array of entries, `clock` the static hand of
`buffer_cache_evict`, `closing` the loop index of `buffer_cache_close`. `call` is the
call that has missed, `result` what the last call copied out. A hit is one
step (`ReadHit`, `WriteHit`). A miss is `Miss`, then one `SecondChance` per
referenced slot the hand passes, `Evict` for the flush of the victim, `Fill` for
reading the sector and finishing the call. Closing is `Close` and one `CloseSlot`
per slot. `Crash` is the end of the process at any point and a new start: the
image survives, static memory is zero again. A device access writes a whole
sector, as the `fwrite` of 512 bytes in `ide.c` is taken to do.

### InodeAlloc

`free_map` is the set of marked bits, `map_file` the bitmap in the free map's file,
`disk` what the cache presents (that the cache presents what was written is
`BufferCache`'s result), `dir` the root directory, `open_inodes` the struct inodes in
memory by sector, `file_table` the names that are open. A sector is a block of
pointers or an inode; the data are left out and lengths are in sectors.
`inode_reserve` follows the code's three phases and its early returns: pointers
obtained before a failure stay in the inode in memory, and a pointer block is
written back only if all its entries succeed. The result of `free_map_allocate` for a
pointer block is not looked at in the code, nor in `PointerBlock`. `failed` is a ghost
that remembers which kinds of call have failed. `Restart` is an orderly quit and start;
an unorderly one is `BufferCache`'s `Crash`.

The loops of `inode_reserve`, `inode_reserve_indirect` and `inode_reserve_doubly_indirect`
are recursive functions over their loop index (`ReserveAll`, `ReserveAllBlocks`), so that
the same definitions are run by TLC and proved about.

The root directory does not grow in the model (16 entries fit its sector).
`inode_reopen` does not count, so `open_cnt` is always 1 and the first `inode_close` frees a
struct inode: being in `open_inodes` is all there is to its lifetime.

### FsExtensions (a3)

Extends `InodeAlloc` by `freed`, the open files whose struct inode somebody else has
freed, and `cwd`, the root directory that `defragment` never closes. A command that
only opens and closes files is one step that says which struct inodes are there
afterwards: `fragmentation_degree` leaves all of them, `find_file` none, `recover_2` one for
each file without data behind its end. `copy_in` and `defragment` take several steps, the
creation and writing of each file being `Created` and `fsutil_write`, which use
`InodeAlloc`'s own operators. `fsutil_write` may write through a struct inode that is not what the disk has
(`inode_write_at` with a length inside the last sector writes such a leftover back). `defragment`'s first loop is `Collect` for each file; the `rm` in it
frees the struct inode of the directory the loop reads, so `UseFreed` may end
the behaviour (`phase = "ub"`), or the memory still holds the inode and the loop
goes on. `recover_0` sets bits of `free_map` and not of `map_file`, as the code does.

### FileIO (a3)

One file, byte by byte, in sectors of `BLOCK_SECTOR_SIZE`. `create`, `rm`, `seek`, `read`,
`write`, `copy_in` and `defragment` are the commands; a read or write then takes one
`ReadChunk` or `WriteChunk` for each turn of its loop and ends with `ReadReturns` or
`WriteReturns`, where `file.c` moves the position. `WriteFails` is a write that finds the disk
full; which disks are full is `InodeAlloc`'s question. `old`, `typed`, `start` and `cause` are
history variables. Every write ends with a null byte and moves the position by two
less than it wrote, so a write that fails and a file of less than two bytes, written by `copy_in` or
`defragment`, leave `pos` negative, as a `seek` to a negative offset does (the `ASSERT` of `file_seek`
prints and goes on). `cause` remembers which of them it was. A read of a byte or a write that
ends behind the start of the file is then undefined (`NegativeOffset`) and ends the behaviour; a read of
nothing returns, and a write in front of the file fails.
`get_write_size` here is the set of sizes `copy_in` may write, down to none when one sector is
free; which of them a given disk yields is `FsExtensions`'s.

### ShellMemory, A1Shell, ShellMeaning (a1)

`shellmemory` is the table. `stack` has one record for each `run` and `executeCommands`
that has not returned, with the lines or commands it still has to do. `mode` says
whether the next step reads a line, interprets `words` or returns `code` to the top
of the stack. A line is the sequence of its words. The host's files and directories
are variables, since scripts can make and change them. Three ends besides `quit`: `tailf` never
returns; `run` of an empty file or of a directory parses a buffer that was never written, which may be
anything (`mode = "undefined"`); and if that buffer happens to leave the shell running, `run` of a
directory reads from it for ever (`DirectoryLine`), since `fopen` opens it and no read finds its end.

`ShellMeaning` is the reference, kept apart because it is recursive and `A1Shell` is proved about: `Meaning(s, line, scripts)` is the state after a line, with a
map for the variables and recursion for scripts. `LineMeaning` compares it with
what the stack machine has done when the line returns. It does not speak of an `if`
that is not of the form the assignment gives (`Documented`); what the code does
with those is in `A1Shell` all the same.

### Paging (a2)

`framestore`, `timer`, `pid_counter`, `ready` are the C variables, `pcb` the live
PCBs by pid. `cpu` is where the one thread stands: at the prompt, in
`interpreter`, at the top of the scheduler's loop, or at the top or end of
`execute_process`'s loop. A command that a script line issues goes through the same
`run`, `exec`, `quit`, `echo` actions as a typed one; `in_background`
tells them apart, as in the code. A line is the pair of file and line number, so that
executing a foreign line is visible. `text` and `executed` are ghosts: what a process
should run and what it has run. `status = "ub"` stands for an access outside an
array or through a null pointer, after which nothing is claimed.

Loading takes the free frames from the lowest up: `Place` counts the frames of a set up to
one of them, `Nth` is the frame at a place, and `Turn` says which page a free frame gets.

`StdioLines` is what one stdio buffer holds. The second round of
`load_multiple_files` reopens the backing file for writing, so only the buffered
lines of the first round are left to read.

`fetch_a_page` clears the entry of the faulting process's table at the number of the victim's
frame. `Allocated` is what `malloc` gives to a table: six ints at least. Within them an entry past
the end of the table is slack, which nothing reads; past them it is another allocation, perhaps another
process's table, and the behaviour ends with `status = "ub"` (`FetchPastTable`).

The section *Flat scripts* at its end is the inductive invariant for scripts that start no others.

### PagedKernel (a3)

`frames` and `variables` are the two zones of `shellmemory`, `pcb` the list of all
PCBs, `queue` and `lru` the two linked lists. A step is a command at the
prompt or one call of `run_proc` with everything it calls: `page_fault`, `cpu_run`,
`CommandReturnsOne`, `Drop`. `cpu.at` is the first or second line of a turn. `free_PCB` is
the end of `run_proc_RR`. `exec` is `Processes`, which calls `new_proc` for one script after
the other until a frame is missing, then `Start`. Of a command only the value returned counts,
because `run_proc` takes 1 for a page fault. A script is its lines and whether the
last line has an end (`trailing`), which `count_lines` depends on. The name of a script's copy in the
backing store grows by a letter with each script started and goes into buffers of 100 bytes:
`NameRoom` is how many scripts of a session fit, and one more is `status = "ub"`. (An `exec` of four scripts,
which is refused after the copies were made, would use up names too; it is left out.) A page that goes
on the LRU list after its second load failed has the position 1000, or 0 if it was evicted before: `PAGE_evict`
then frees the slots `Freed` says, a variable's among them, or reads outside the array (`EvictOutside`). Script lines that
start scripts are left out: `run_proc_RR` would run inside `run_proc`, free the running
PCB and go on with it.

## Runs

Passing runs:

| Run | Checks | Bounds, and why they are enough |
|---|---|---|
| `buffer_cache` | refinement of `BlockStore`, `OneCopy`, `CloseIsDurable`, `CallReturns` and the inductive invariant `IInv` | 3 sectors, 2 slots, 2 contents: every miss of a full cache evicts, and a sector can leave dirty, be written elsewhere and come back. The safety results are also proved for all sizes |
| `inode_alloc` | `NoSharedSector`, `OwnedIsMarked`, `NothingLost`, `SectorListsAgree` | 13 sectors, 1 direct block, 2 pointers per block, lengths 1, 3, 5: 9 free sectors are exactly what a file of 5 takes, so with two files each phase of `inode_reserve` runs out at some point |
| `fs_extensions` | `TableInodesLive`, `OpenInodeCurrent`, `FilesStayApart`, `DefragmentKeepsFiles`, `DefragmentCompacts`, `CopyInCreates`, `RecoverUndoesRemove` | 12 sectors, lengths 1 and 3, host files of 16 and 17 bytes in sectors of 4: the eight free sectors hold two files or one that needs the doubly indirect block, and the branches of `get_write_size` but the first (a free space of one byte, which cannot be) are all taken as the disk fills |
| `file_io` | `RefinesByteFile`, `WritesConcatenate`, `SlackIsZero`, `LastByteNull`, `PositionValid`, `CallReturns` | sectors of 3 bytes, files of up to 8 (`MaxLength`, also for `copy_in`), seeks from -4 to 8, positions down to -6 (`MinPosition`): a call can begin and end in the first, a middle and a last sector that is not full, leave a gap, and fill a sector exactly |
| `a1_shell` | `LineMeaning`, `OpenWhileRunning`, `RefinesVarStore`, `LineReturns` | 2 slots for 3 names, so the table fills; 3 open files, so a script that runs itself meets the limit; one directory to make, enter, run and follow, with a script of the same name in it |
| `paging_flat` | `PagesAhead`, `ExecutesScript`, `DeadPagesInTheWay` | 7 frames, one more than `make run` has (18 lines), so that a victim can have a number past the smallest allocation of a table; scripts of 2, 4, 9 and 15 lines: less than a page, less than two, exactly three pages, and one that faults three times |
| `paging_nested` | `QueueIntegrity`, `TableEntryValid`, `PromptReturns` | 4 frames; scripts that run, exec, fail to run and quit, early and late in their text, and an empty script; `StdioLines` is 7, so `exec` drops the last line of the longest |
| `paged_kernel` | `QueueIntegrity`, `ScanFindsPage`, `LRUMatchesFrames`, `NeededPagesStay`, `ExecutesScript`, `FramesReturned`, `VariablesBehindKept`, `PromptReturns` | 13 slots, that is 4 frames and one left over, so that `clear_frame` reaches the first variable and not the second; all batches of up to three of four plain scripts, and pairs of scripts with blank lines, an ended last line, commands that return 1, or no lines: there are batches that fit, that evict and that do not fit. `NameRoom` is 3, so a second command follows a first. The six properties from `LRUMatchesFrames` on speak of sessions whose scripts so far were plain (`PlainSoFar`) |

The type invariants `TypeOK` are checked as part of `IInv`, `OwnedIsMarked`, `QueueIntegrity` and
`OpenWhileRunning`.

`inode_alloc` uses the two names as a symmetry set and a VIEW that forgets what
unmarked sectors hold: a sector is filled with zeros by every caller that allocates it, so
its old content is never read. Its CONSTRAINT stops at states where the inode of the
free map has been overwritten; that they are reached is what
`inode_alloc_map_inode` shows. `MaxPid` bounds the commands of a run;
processes of earlier commands matter only through the frames they leave, and the bound
admits enough of them to fill the store. `fs_extensions` has a VIEW that keeps of a free sector
only the inode it may hold, since `recover` reads that, and a CONSTRAINT that goes no
further after a failed call (`inode_alloc` does), after undefined behaviour and after
`recover_0`, whose own step is checked.

`CHECK_DEADLOCK FALSE` in the paging runs and `a1_shell` is for `quit`, `exit(99)`, undefined
behaviour and the bound on pids, in `file_io` for an access in front of the file: there is no
step after these.

Runs that end in a violation, each against a sentence of the repository:

| Run | Property | What the code does |
|---|---|---|
| `inode_alloc_map_inode` | `SystemInodesIntact` | on a full disk a pointer block becomes sector 0 and the free map's inode is overwritten with zeros (`inode.c:382`) |
| `fs_open_files` | `OpenFilesLive` | `find_file` closes the struct inode of a file that is in the file table: `inode_reopen` has not counted it (`inode.c:161`) |
| `fs_copy_in` | `CopyInFits` | a file that fits, but not with its overhead: bytes are compared with numbers of blocks and `copy_in` fails where it should write less (`fsutil2.c:84`) |
| `paged_kernel_variables` | `VariablesKept` | `free_PCB` clears the first variable: `clear_frame` goes two slots beyond a page (`shellmemory.c:167`), against the comment that the slots from the border on are reserved for variables (`shellmemory.c:13`). The slots below the border are 13 here; the makefile's 999, a multiple of three, loses two variables. Only two slots left over, or no page in the last frame, avoid it |

One more disagreement needs no run of its own. `file.c:133` says that `file_write` advances the position by
the number of bytes; the code advances it by two less (`file.c:138`). `WritesConcatenate` in `file_io` is about
what the code does: the next text overwrites the two terminators of the one before.

Other places where the models show behaviour a reader may not expect, without a run of
their own:

* a2: a script that starts others can lose a page to LRU and then runs foreign lines
  (`framestore.c:285`); `exec` drops what lies behind the first stdio buffer of a script
  (`framestore.c:159`); the frames of a completed process are never given back
  (`free_process_pages` has no caller, `ready_queue.c:63`), and once all frames are used
  loading indexes the store with -1 (`framestore.c:116`); with more than six frames `fetch_a_page` can write
  -1 past the allocation of a page table (`pcb.c:84`).
* a3 scheduler: a script whose last line is ended gets a size one too many and, whatever its length,
  faults for ever (`pcb.c:130`); a command that returns 1 is taken for a page fault and lines are skipped
  (`kernel.c:45`); a page listed after its second load failed can be evicted from the position 1000, a
  variable's slot or none (`kernel.c:58`); after some 65 scripts in a session the names of their copies no longer
  fit their buffers (`interpreter.c:129`); a blank line is loaded but not counted, so the last line of its script is not
  run (`pcb.c:122`); a process that faults goes to the tail of the queue where the comment
  says head (`kernel.c:61`).
* a3 files: a write that fails half way, then `rm`, leaves sectors marked (`inode.c:267`), and so
  does a `copy_in` or `create` that fails; after `copy_in` the next write overwrites the last
  character, after `copy_in` of an empty file the position is -1, and after a `copy_in` for which one sector is
  free, or a `defragment` with an empty file, -2 (`file.c:138`); `seek` to a negative offset is accepted (`file.c:185`); an
  orderly restart after `recover 0` frees what was recovered (`fsutil2.c:357`); after `defragment` of
  an empty directory `ls` lists nothing until an `rm` closes the root (`fsutil2.c:286`);
  `defragment` of an empty file writes in front of a buffer (`file.c:136`).
* a1: a script whose last line is ended makes `run` print Unknown Command and return 1, for one
  more, empty line (`interpreter.c:265`); an empty script parses a buffer never written
  (`interpreter.c:260`), and so does `run` of a directory, which then never ends (`interpreter.c:261`); `my_mkdir` of a directory that exists returns -1, which ends the shell
  (`shell.c:34`); an `if` inside an `if` runs the wrong commands (`interpreter.c:338`); the fifth
  word of an `if` is skipped whatever it is (`interpreter.c:299`); two unset variables are equal,
  and equal to that text as a value; the name `none` is never stored and a full table drops
  new names without a message (`shellmemory.c:62`).

The passing runs check the same properties under the conditions in which they do hold:
scripts that start no others (`paging_flat`), scripts without a final end of
line, blank lines and commands that return 1, and variables behind what `clear_frame` reaches (`paged_kernel`), no `find_file` and no `recover` (`TableInodesLive`), no `recover` (`FilesStayApart`), a file that
fits with its overhead or not at all (`CopyInCreates`), the free map's inode in its sector (`MapInodeIntact`), no
`tailf` and no `run` of a directory (`LineReturns`), and for `PositionValid` one of its three causes.

## Fairness

`BufferCache` assumes weak fairness of `Progress`, the steps a running call takes
by itself; `Paging` and `PagedKernel` of `Kernel`, all steps but the user's; `FileIO` and `A1Shell` of
`Step`, the same. The
programs have one thread that never waits inside a call (the device is a file),
only for the next line at the prompt, so a step that is due is taken. No fairness is assumed of
the user, nor of `Crash`. `InodeAlloc` and `FsExtensions` have no liveness property.

## Proofs

All theorems are about the specifications the runs check, for every value of the
constants. What is assumed of the constants is named in the modules that declare
them:

| Module | Assumptions |
|---|---|
| `BufferCache` | at least one sector and one slot, `Zeros \in Data` |
| `InodeAlloc` | at least four sectors (three system inodes and one more), one direct block and one pointer per block; lengths are natural numbers |
| `FsExtensions` | a sector has at least two bytes, host files are not empty, direct blocks and pointers per block are at least three together |
| `FileIO` | `NUL` is no character, a sector has at least one byte, texts are sequences of characters, the least position is -2 or less |
| `ShellMemory`, `A1Shell` | at least one slot, `"none"` is a word and no name, scripts are sequences of lines |
| `Paging` | at least one frame, a stdio buffer of at least three lines, FCFS grants at least two quanta, scripts are sequences of commands |
| `PagedKernel` | at least one frame slot and two variable slots, scripts are sequences of lines, `run` and `exec` have an argument |

Each proof has the same form: `InitIInv`, one lemma or step for each action that the
inductive invariant `IInv` is kept, `NextIInv`, and the theorems from it.

**BufferCacheProofs.** `Invariance` (`SafetySpec => []IInv`), its parts `TypeCorrect` and
`NoSecondCopy` (`OneCopy`), `DurableClose` (`CloseIsDurable`), `Refinement` (`RefinesBlockStore`).
`IInv` is `TypeOK`, `OneCopy`, `CleanMatchesDisk`, `FlushedSoFar` and `CallMissed`. `OneCopy`
is not inductive alone: `Fill` stores a sector that was looked up several steps
earlier, so `CallMissed` must say that it is still not cached (nothing can fill it
meanwhile, and closing does not overlap). The refinement needs `CleanMatchesDisk`,
since `Evict` drops a clean entry and the view of its sector falls back to the
disk. `CloseIsDurable` needs `FlushedSoFar`, which says what the loop has done.
`LookupUnique` and `ViewValue` say what the cache presents for a sector in terms of the slot
that holds it; `SameView` says when a step leaves the view alone; `StepRefines` maps each
action to a step of `BlockStore` (`ReadHit` and `Fill` of a read to `BSRead`, the writes to
`BSWrite`, `Evict` and `CloseSlot` to `BSWriteBack` or nothing, `Crash` to `BSRestart`).

**InodeAllocProofs.** `OwnedMarked` (`OwnedIsMarked`), `NothingIsLost` (`NothingLost`), `SectorsApart`
(`NoSharedSector`), `ListsAgreeAlways` (`SectorListsAgree`), whichever calls have failed half way. The
files of a directory are trees of sectors: `Tree` of an inode is every sector its pointers
lead to, zero or not, `Proper` that none is met twice, `Filled` that the tree covers the
length, `Extends` that an inode in memory has what the disk has and perhaps more. `IInv`
is `Typed`, `Sound` while the free map's inode is there, and `Exact` while nothing has failed.
`Sound` puts the trees of all files into the marked sectors, apart from each other; `Exact`
says in addition that they are all there is, and that `inode_deallocate` reaches each of their
sectors. Both conditions are needed: a call that fails leaves sectors no inode
reaches, and a pointer block that could not be allocated becomes sector 0, after which
the bitmap is not what is read back. `Reserved` is what `inode_reserve` does to a tree; it is shown
loop by loop for direct, indirect and doubly indirect blocks, by repeated steps (`Iteration`). `Stays`
and `Broke` carry the condition through a loop: once sector 0 is lost it stays lost.
`CreateIInv`, `WriteIInv`, `RemoveIInv` and `RestartIInv` are the calls. `ListsAgreeAlways` needs division and
remainder (`Place`, `SubsizesAdd`) to join the lists of the pointer blocks.

**FsExtensionsProofs.** `OpenFilesKeepInodes` (`TableInodesLive`), `InodesCurrent` (`OpenInodeCurrent`), `FilesAlwaysApart`
(`FilesStayApart`), `DefragmentKeepsAll` (`DefragmentKeepsFiles`) and `CopyInAlwaysCreates` (`CopyInCreates`). `ExtIInv`
is `InodeAlloc`'s `IInv` with what the two commands of several steps rely on. That `defragment` loses
nothing is a matter of room: `Restorable` says that what its list costs (`TotalCost`, by `get_overhead`'s
count: the inode, the data, the pointer blocks) is no more than what is free, and each `Collect`
adds to the list what its `rm` frees (`RoomFreed`, `TotalAppend`), each creation takes off it what it uses
(`RoomTaken`, `TotalHead`). So `HasRoom` and the lemmas from `DataFits` to `CreatedFits` show that `inode_reserve`
does not fail while there is room, again loop by loop, and `Cost` is what `BlocksOff`, `OverheadInBlocks`
and `CostIs` find `get_overhead` to compute in bytes. `LiveKept`, `TableKept` and the `...Keeping` lemmas are
about struct inodes: which command leaves which of them. `CopyInAlwaysCreates` has a hypothesis of its own:
the disk is no larger than the largest file and eight sectors. On a larger disk `copy_in` cuts a file to
what is free, a length no inode has pointers for, and the creation fails.

Two conditions came out of these proofs. `TableInodesLive`, `OpenInodeCurrent`, `DefragmentKeepsFiles` and `CopyInCreates`
say that the free map's inode is there (`MapInodeIntact`). Without it the next start marks the system's sectors
only, two files may be given one inode sector, and the first to be closed frees the struct inode of both.
And `get_write_size` needs direct blocks and pointers for three sectors: with fewer, the file cut to a nearly full disk
needs a pointer block it has not counted (the code has 123 and 128).

**FileIOProofs.** `SlackZero`, `PositionsValid`, `Terminated` (`LastByteNull`), `Concatenation`
(`WritesConcatenate`) and `Refinement` (`RefinesByteFile`). A call takes many steps, so `IInv` says
what a loop has done and what is left: `ReadSoFar`, `WriteGiven`, `WrittenSoFar`, `FailedSoFar`, and
`TypedSoFar` for the text of consecutive writes, of which each write overwrites the
terminators of the one before. `Split`, `Unsplit` and `InSector` are the division of a
position into sector and offset; `CopyChunk`, `ChunkBytes` and `ChunkFits` say what one turn of a loop
moves; `ChunkWritten` and `AllWritten` put the turns together. In the refinement only the
first and the last step of a call are steps of `ByteFile`, the turns are `Unseen`. `PositionsValid` excludes no
input: offsets may be negative and files empty, and the theorem says which calls then leave a negative position.

**A1ShellProofs.** `FilesClosed` (`OpenWhileRunning`) and `MemoryRefinement` (`RefinesVarStore`). `IInv` is
`OpenWhileRunning` with the types, and `OneSlot`: a name other than `none` has one slot at most. It is
needed because the view of the table as a map takes the first slot of a name. `TopOfStack` and
`CountAppend` count the scripts on the stack as it grows and shrinks; `CommandsType` and
`BranchType` follow the words of an `if`; `SetSlot`, `SetKeepsOrder`, `RoomLeft` and `SetRefines` are the
cases of `mem_set_value`.

**PagingProofs.** `QueueSound` (`QueueIntegrity`) and `TablesSound` (`TableEntryValid`), also when script lines
start scripts. `TablesSound` holds for every number of frames because a write past the allocation of a table ends the
behaviour; that it never happens is `TablesHold`, for up to six frames. `QueueIntegrity` says that a live process is in the queue or in the hands of
`execute_process`; for that `ThreadInHand` ties the position of the thread to the process it
holds, through commands that scripts issue. `Places`, `PlaceTaken` and `NthPlace` show that places
in a set of frames are numbered without gaps, so that `LoadsPages`, `LoadedPages` and `TableType` can say
which frames a new process gets; `Joined`, `HeadLeaves` and `GoesBack` are the queue's operations;
`FrameFound` says which frame a page fault gets.

`LRUSparesPages` (`PagesAhead`), `ScriptsRun` (`ExecutesScript`) and `OnlyDeadPages` (`DeadPagesInTheWay`) assume
`AllFlat` of the scripts: none starts another, and each fits into one stdio buffer, as in the run
`paging_flat`. A script that starts others can lose a page to LRU, and a longer one loses
lines (*Other places*, under *Runs*). `OnlyDeadPages` also assumes `AllFit`: an empty frame store has a frame for each
first page of a command's scripts. `FlatInvariance` proves `FlatIInv`, at the end of `Paging`, which TLC confirms
on the instance of `paging_flat`. It adds to `IInv`:

* `Texts`, `Follows`: what a process has run are the lines in front of its program counter, apart from
  the one in hand, and its pages are loaded in time.
* `Stored`: a used frame holds a page of some process, no page is there twice, and its time stamp is
  older than the clock.
* `Batch`: the processes of the last command have younger pages than all before them, and there is a
  frame for each first page they started with.
* `InStep`: a turn of RR is two lines, so that up to the first fault all processes are equally far, give or
  take a turn (`FaultLate`). Under FCFS, which only `run` asks for, there is one process.
* `UsedLately`, `Recent`: since a waiting process used the page it will run next, each other
  process has had at most one turn and used at most two pages.

When a fault finds no free frame, the frames used since then are fewer than all (`SomeOlder`, with `OneMissed` of
`CountingLemmas`), so the victim is older and no process needs it (`FrameSafe`). `RequeueRecent` and
`LastPage` carry `Recent` through the turns; `LoadedOnce`, `StartTexts`, `StartTables`, `StartStored` and `StartBatch`
are what the loaders establish.

**PagedKernelProofs.** `QueueSound` (`QueueIntegrity`) and `ScanSound` (`ScanFindsPage`), whatever the commands of
scripts return. `ScanFindsPage` relates the size of a process to its program counters, which
change separately, so `Counted` says that both come from one number of executed lines
(`HasRun`); `Scan` and `RanCounts` show that the page `run_proc_RR` finds is the one that
number points to. A command that returns 1 reloads a page, so the LRU list may name a page
twice; `Listed` keeps what is left: its pages are in page tables, and every page with a
valid line is on it (`PageTaken`, `PageLeft`), without which `remove_elem` and the eviction would
find nothing. `PopHead`, `AddTail`, `TurnFacts` and `AfterTurn` are the turns; `Kept` and `Iteration` (in
`CountingLemmas`) give the recursive function in `Processes` its values.

`LRUMatches` (`LRUMatchesFrames`), `NeededStay` (`NeededPagesStay`), `ScriptsExecuted` (`ExecutesScript`), `FramesComeBack`
(`FramesReturned`) and `VariablesBehind` (`VariablesBehindKept`) assume `AllPlain` of the scripts: each has a line, none
is blank, the last has no end of line and no command returns 1. With other scripts the first
three are violated (*Other places*, under *Runs*). `VariablesBehind` assumes nothing of the number of slots: it says how far
behind the border `clear_frame` reaches, which is up to two slots, `Spill`, and no variable is lost behind
those. (`FreedFrames`, `NoneOutside` and `BehindStep` show that with plain scripts an eviction frees frames only.) The number of frames and of
scripts is free. `PlainInvariance` proves `PlainIInv`, at the end of `PagedKernel`, which adds to `IInv`:

* `Stored`: frames are used in whole triples, each by one page on the LRU list, with the lines of
  its process. It makes the search for three free slots and `remove_elem` exact (`FreeTriple`, `StoredFilled`,
  `StoredCleared`) and leaves nothing owned when the pages are cleared (`AllFreed`).
* `Follows`: the file of a process that has run e lines has been read to the page where line
  e is or, at a fault, begins, and what has been evicted has no line to run.
* `InStep` and `Enough`: two pages of each process are loaded at the start, and each turn runs two lines, so
  that up to the first fault all processes are equally far, give or take a turn (`FaultLate`).
* `UsedLately`: the page a waiting process runs on has at most two pages of each process in front
  of it on the LRU list, and none of those who wait in front of that process. When a fault
  finds no free frame, counting them against `Enough` shows that the page at the
  tail of the list is not needed any more (`RoomLeft`, `OneMissed`, `VictimDone`). That a page is never needed
  again once it is evicted is not a promise of LRU: it rests on turns of two lines and pages of three.

One lemma for each action (`FaultPlain`, `RunPlain`, `DropPlain`, `FreePlain`, `ExecPlain`) shows that `PlainIInv` is kept;
`BatchLoads` follows `new_proc` from script to script through the recursive function of `Processes`.

Model-checked only:

* `CallReturns`, `PromptReturns`, `LineReturns`: liveness under fairness is out of the prover's reach.
* `LineMeaning`: its reference is a recursive operator.
* `DefragmentCompacts` and `RecoverUndoesRemove` of `FsExtensions`: the first needs where the lowest free sectors
  lie during a whole `defragment`, the second follows `recover_0` through a fold over all sectors. After
  `recover` nothing is claimed of the files, since it revives inodes whose sectors may be in use.

## Not modelled

* The shell memory of a2: the table and loops of a1's, which `ShellMemory` models, beside
  the paging and not touched by it.
* SJF, AGING, RR30 in a2, `run_proc_FIFO` in a3, `partition.c` and subdirectories:
  not reachable from the shell.
* In a1: values and words longer than the fixed buffers, the end of standard input
  (`freopen`), and a `system` that fails.
* In a3 files: `file_deny_write` (no caller), a root directory of more than one sector, the
  host files that `copy_out` and `recover` write; the commands that divide an empty
  file into sectors (`fragmentation_degree`, `recover 2`) are not taken while there is one.
* Script lines that start scripts in a3: listed as a hazard.
* Opening the image, statistics, printing, hex dumps and the vendored `list.c`,
  `debug.c`, `round.h`: input and output, or library code used as sequences and arithmetic.
* Several commands on one line: `strtok` keeps one position for the process; listed as a
  hazard.
* Failure of `malloc`, and integer overflow of pids and time stamps.

## Plan

1. Proof of `DefragmentCompacts`: from `bitmap_scan` taking the lowest free sectors, and the first
   creation of `defragment` finding only the system's sectors marked.
2. `InodeAlloc` over `BufferCache`: a crash in the middle of a call that takes several
   sector writes.

To repeat the checks: `tlc -config X.cfg M` with the module and configuration named
in `PROJECT.json`, and `tlapm` on `BufferCacheProofs.tla`, `InodeAllocProofs.tla`, `FsExtensionsProofs.tla`, `FileIOProofs.tla`,
`A1ShellProofs.tla`, `PagingProofs.tla`, `PagedKernelProofs.tla` and `CountingLemmas.tla`.
