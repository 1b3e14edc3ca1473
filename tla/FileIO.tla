------------------------------- MODULE FileIO --------------------------------
(***************************************************************************)
(* Reading and writing one file: the sector by sector loops of             *)
(* inode_read_at and inode_write_at (inode.c), the position of a struct    *)
(* file (file.c), and the commands that use them: write, read, seek,       *)
(* close (fsutil.c, interpreter.c), copy_in and defragment (fsutil2.c).    *)
(* Which sector the i-th of the file is, is InodeAlloc's; here sectors[i]  *)
(* is what the cache presents for it.                                      *)
(***************************************************************************)
EXTENDS Integers, Sequences, FiniteSets

CONSTANTS
    Char, NUL, MaxLength,  \* see ByteFile
    BLOCK_SECTOR_SIZE,     \* 512 in the code
    Texts,                 \* bound: what write and copy_in are given
    Sizes,                 \* bound: what create and read are given
    SeekOffsets,           \* bound: what seek is given
    MinPosition            \* bound: how far the position goes below 0

ASSUME FileAssumption ==
    /\ NUL \notin Char
    /\ MaxLength \in Nat
    /\ BLOCK_SECTOR_SIZE \in Nat \ {0}
    /\ Texts \subseteq Seq(Char)
    /\ Sizes \subseteq 0..MaxLength
    /\ MinPosition \in Int /\ MinPosition <= -2
    /\ SeekOffsets \subseteq MinPosition..MaxLength

VARIABLES
    exists,   \* the file is in the directory
    sectors,  \* its data sectors, each a sequence of bytes
    length,   \* in bytes
    pos,      \* of the struct file in the file table; 0 when it is opened
    call,     \* what inode_read_at or inode_write_at was called with
    done,     \* bytes_read, bytes_written
    buffer,   \* what has been read
    result,   \* of the last call
    status,   \* "ub" once a sector in front of the file is accessed
    old,      \* history: the file when the call started
    typed,    \* history: what consecutive writes have written, from start on
    start,
    cause     \* history: why the position may be negative

vars == <<exists, sectors, length, pos, call, done, buffer, result, status, old, typed, start, cause>>

Byte == Char \cup {NUL}
NoCall == [op |-> "none"]
Returned(n, bytes) == [count |-> n, bytes |-> bytes]
Block == 1..BLOCK_SECTOR_SIZE
ZeroBlock == [i \in Block |-> NUL]
Lesser(a, b) == IF a < b THEN a ELSE b
bytes_to_sectors(n) == (n + BLOCK_SECTOR_SIZE - 1) \div BLOCK_SECTOR_SIZE

\* Sectors up to n bytes: the ones there are, and new ones full of zeros.
inode_reserve(s, n) ==
    [i \in 1..(IF bytes_to_sectors(n) > Len(s) THEN bytes_to_sectors(n) ELSE Len(s)) |->
        IF i <= Len(s) THEN s[i] ELSE ZeroBlock]

\* Byte i of the sectors s; the bytes of the file.
At(s, i) == s[(i \div BLOCK_SECTOR_SIZE) + 1][(i % BLOCK_SECTOR_SIZE) + 1]
ByteAt(i) == At(sectors, i)
Contents == [i \in 1..length |-> ByteAt(i - 1)]

Init ==
    /\ exists = FALSE
    /\ sectors = <<>>
    /\ length = 0
    /\ pos = 0
    /\ call = NoCall
    /\ done = 0
    /\ buffer = <<>>
    /\ result = Returned(0, <<>>)
    /\ status = "ok"
    /\ old = <<>>
    /\ typed = <<>>
    /\ start = 0
    /\ cause = "none"

Prompt == call = NoCall /\ status = "ok"
Calling == call # NoCall /\ status = "ok"
NotTyped == typed' = <<>> /\ start' = 0
Return == call' = NoCall /\ done' = 0 /\ buffer' = <<>> /\ old' = <<>>

-----------------------------------------------------------------------------
\* fsutil_create with a size in bytes.
create(n) ==
    /\ Prompt
    /\ ~exists
    /\ exists' = TRUE
    /\ sectors' = inode_reserve(<<>>, n)
    /\ length' = n
    /\ UNCHANGED <<pos, call, done, buffer, result, status, old, typed, start, cause>>

\* fsutil_rm; a file of that name that is created later is opened again.
rm ==
    /\ Prompt
    /\ exists
    /\ exists' = FALSE
    /\ sectors' = <<>>
    /\ length' = 0
    /\ pos' = 0
    /\ NotTyped
    /\ cause' = "none"
    /\ UNCHANGED <<call, done, buffer, result, status, old>>

\* fsutil_seek to n, any number: file_seek's ASSERT prints and goes on.
\* seek(0) is fsutil_close as well, after which the file is opened at 0.
seek(n) ==
    /\ Prompt
    /\ exists
    /\ pos' = n
    /\ NotTyped
    /\ cause' = IF n < 0 THEN "negative seek" ELSE "none"
    /\ UNCHANGED <<exists, sectors, length, call, done, buffer, result, status, old>>

\* A call at a negative offset accesses sector number -1: a read of a byte,
\* or a write that ends behind the start of the file.
NegativeOffset ==
    /\ Prompt
    /\ exists
    /\ pos < 0
    /\ status' = "ub"
    /\ UNCHANGED <<exists, sectors, length, pos, call, done, buffer, result, old, typed, start, cause>>

-----------------------------------------------------------------------------
\* file_read of n bytes: inode_read_at at the position.
read(n) ==
    /\ Prompt
    /\ exists
    /\ pos >= 0 \/ n = 0
    /\ call' = [op |-> "read", offset |-> pos, size |-> n]
    /\ result' = Returned(0, <<>>)
    /\ NotTyped
    /\ UNCHANGED <<exists, sectors, length, pos, done, buffer, status, old, cause>>

offset == call.offset + done
size == (IF call.op = "read" THEN call.size ELSE Len(call.buf)) - done
sector == (offset \div BLOCK_SECTOR_SIZE) + 1
sector_ofs == offset % BLOCK_SECTOR_SIZE

\* The bytes left in the call, in the file and in the sector.
chunk_size == Lesser(size, Lesser(length - offset, BLOCK_SECTOR_SIZE - sector_ofs))

\* One turn of inode_read_at's loop, through the bounce buffer or not.
ReadChunk ==
    /\ Calling /\ call.op = "read"
    /\ size > 0 /\ chunk_size > 0
    /\ buffer' = buffer \o SubSeq(sectors[sector], sector_ofs + 1, sector_ofs + chunk_size)
    /\ done' = done + chunk_size
    /\ UNCHANGED <<exists, sectors, length, pos, call, result, status, old, typed, start, cause>>

\* Mutant: the loop does not end at the end of the file.
ReadReturnsFull ==
    /\ Calling /\ call.op = "read"
    /\ size <= 0
    /\ result' = Returned(done, buffer)
    /\ pos' = pos + done
    /\ Return
    /\ UNCHANGED <<exists, sectors, length, status, typed, start, cause>>

\* The loop ends, and file_read moves the position.
ReadReturns ==
    /\ Calling /\ call.op = "read"
    /\ size <= 0 \/ chunk_size <= 0
    /\ result' = Returned(done, buffer)
    /\ pos' = pos + done
    /\ Return
    /\ UNCHANGED <<exists, sectors, length, status, typed, start, cause>>

-----------------------------------------------------------------------------
\* file_write ends the buffer with the null terminator. (In front of an empty
\* buffer is a byte of malloc's size of it, which is null already.)
NullTerminated(buf) == IF buf = <<>> THEN buf ELSE [buf EXCEPT ![Len(buf)] = NUL]

\* Mutant: only a write that begins behind the end extends the file.
MustExtendBegin(at, buf) == ~(0 <= at /\ at < length)

\* inode_write_at extends the file if its last byte is not in it.
MustExtend(at, buf) == ~(0 <= at + Len(buf) - 1 /\ at + Len(buf) - 1 < length)

\* It calls inode_write_at: the sectors are reserved and the length is set
\* before anything is written.
StartWrite(at, buf) ==
    /\ call' = [op |-> "write", offset |-> at, buf |-> NullTerminated(buf)]
    /\ result' = Returned(0, <<>>)

\* Mutant: the sectors that become part of the file keep what they had.
file_write_dirty(buf) ==
    /\ StartWrite(pos, buf)
    /\ old' = Contents
    /\ length' = IF MustExtend(pos, buf) THEN pos + Len(buf) ELSE length
    /\ sectors' = [i \in 1..Len(inode_reserve(sectors, length')) |->
                     IF i <= Len(sectors) THEN sectors[i] ELSE [j \in Block |-> CHOOSE c \in Char : TRUE]]
    /\ UNCHANGED <<exists, pos, done, buffer, status, cause>>

file_write(buf) ==
    /\ StartWrite(pos, buf)
    /\ old' = Contents
    /\ length' = IF MustExtend(pos, buf) THEN pos + Len(buf) ELSE length
    /\ sectors' = inode_reserve(sectors, length')
    /\ UNCHANGED <<exists, pos, done, buffer, status, cause>>

\* The command write: two bytes more than the text, which are null.
write(text) ==
    /\ Prompt
    /\ exists /\ text # <<>>
    /\ pos >= 0 /\ pos + Len(text) + 2 <= MaxLength
    /\ file_write(text \o <<NUL, NUL>>)
    /\ typed' = typed \o text
    /\ start' = IF typed = <<>> THEN pos ELSE start

\* The disk is full, or the write ends in front of the file: inode_reserve
\* fails, inode_write_at returns 0, and file_write moves the position two bytes
\* back.  done = -1 marks the call that has failed.
WriteFails(text) ==
    /\ Prompt
    /\ exists /\ text # <<>>
    /\ pos - 2 >= MinPosition /\ pos + Len(text) + 2 <= MaxLength
    /\ MustExtend(pos, text \o <<NUL, NUL>>)
    /\ LET end == pos + Len(text) + 2
       IN end < 0 \/ bytes_to_sectors(end) > Len(sectors)
    /\ call' = [op |-> "write", offset |-> pos, buf |-> text \o <<NUL, NUL>>]
    /\ done' = -1
    /\ result' = Returned(0, <<>>)
    /\ old' = Contents
    /\ NotTyped
    /\ cause' = "failed write"
    /\ UNCHANGED <<exists, sectors, length, pos, buffer, status>>

FailedReturns ==
    /\ Calling /\ done = -1
    /\ result' = Returned(0, <<>>)
    /\ pos' = pos - 2
    /\ Return
    /\ UNCHANGED <<exists, sectors, length, status, typed, start, cause>>

\* Mutant: what the sector holds in front of the chunk is lost.
BounceZero(block) == ZeroBlock

\* The bounce buffer: what the sector holds where the chunk does not fill it.
Bounce(block) == IF sector_ofs > 0 \/ chunk_size < BLOCK_SECTOR_SIZE - sector_ofs THEN block
                 ELSE ZeroBlock

\* One turn of inode_write_at's loop.
WriteChunk ==
    LET Copied(block) == [i \in Block |-> IF sector_ofs < i /\ i <= sector_ofs + chunk_size
                                          THEN call.buf[done + i - sector_ofs] ELSE block[i]]
    IN  /\ Calling /\ call.op = "write" /\ done >= 0
        /\ size > 0 /\ chunk_size > 0
        /\ sectors' = [sectors EXCEPT ![sector] = Copied(Bounce(@))]
        /\ done' = done + chunk_size
        /\ UNCHANGED <<exists, length, pos, call, buffer, result, status, old, typed, start, cause>>

\* Mutant: one terminator is taken off.
PositionAfterOne == pos + done - 1

\* Mutant: the terminators are taken off twice.
PositionAfterFour == pos + done - 4

\* Advanced by two bytes less, so that the next text follows this one.
PositionAfter == pos + done - 2

WriteReturns ==
    /\ Calling /\ call.op = "write" /\ done >= 0
    /\ size <= 0 \/ chunk_size <= 0
    /\ result' = Returned(done, <<>>)
    /\ pos' = PositionAfter
    /\ Return
    /\ UNCHANGED <<exists, sectors, length, status, typed, start, cause>>

-----------------------------------------------------------------------------
\* How many bytes copy_in creates the file with and writes: one more than the
\* text has, or, where the free sectors are too few, some sectors' worth, at
\* least a sector less than they are. (If get_write_size says more than there
\* is, nothing is created; see FsExtensions.)
get_write_size(text) ==
    {Len(text) + 1} \cup
    {n \in 0..Len(text) : /\ n % BLOCK_SECTOR_SIZE = 0
                          /\ n + BLOCK_SECTOR_SIZE <= Len(text) + IF n = 0 THEN 1 ELSE 2}

\* A write of an empty buffer, or of one byte, ends two bytes in front of
\* where it wrote to, like any other.
WritesFew(n) == IF n < 2 THEN "short write" ELSE "none"

\* copy_in of a host file, of which the first n bytes are written from the
\* start.
copy_in(text, n) ==
    /\ Prompt
    /\ ~exists
    /\ n <= MaxLength
    /\ exists' = TRUE
    /\ length' = n
    /\ sectors' = inode_reserve(<<>>, n)
    /\ old' = [i \in 1..n |-> NUL]
    /\ StartWrite(0, SubSeq(text \o <<NUL>>, 1, n))
    /\ cause' = WritesFew(n)
    /\ UNCHANGED <<pos, done, buffer, status, typed, start>>

\* defragment reads the file, removes it, creates it again with its length
\* and writes it back.
defragment ==
    /\ Prompt
    /\ exists
    /\ sectors' = inode_reserve(<<>>, length)
    /\ pos' = 0
    /\ old' = Contents
    /\ StartWrite(0, Contents)
    /\ NotTyped
    /\ cause' = WritesFew(length)
    /\ UNCHANGED <<exists, length, done, buffer, status>>

Step == ReadChunk \/ ReadReturns \/ WriteChunk \/ WriteReturns \/ FailedReturns

Next ==
    \/ \E n \in Sizes : create(n) \/ read(n)
    \/ \E n \in SeekOffsets : seek(n)
    \/ \E text \in Texts : write(text) \/ WriteFails(text)
    \/ \E text \in Texts : \E n \in get_write_size(text) : copy_in(text, n)
    \/ rm \/ defragment \/ NegativeOffset
    \/ Step

\* A command runs to its end; the user need not type another one.
Spec == Init /\ [][Next]_vars /\ WF_vars(Step)

-----------------------------------------------------------------------------
\* What a caller takes for the file: a write has no effect before it returns.
File == IF call.op = "write" THEN old ELSE Contents
BF == INSTANCE ByteFile WITH file <- File

\* inode_read_at and inode_write_at do, through their loops over sectors, what
\* they promise for the bytes of the file.
RefinesByteFile == BF!BFSpec

\* Texts of consecutive write commands follow each other in the file, with two
\* null bytes behind the last one, wherever the first one began.
WritesConcatenate ==
    Prompt /\ typed # <<>> =>
        /\ pos = start + Len(typed)
        /\ SubSeq(Contents, start + 1, pos + 2) = typed \o <<NUL, NUL>>

\* What lies behind the end of the file in its sectors is zero: recover 2,
\* "data past end of file", has nothing to find.
SlackIsZero ==
    \A i \in length..(BLOCK_SECTOR_SIZE * Len(sectors)) - 1 : ByteAt(i) = NUL

\* Between calls the last byte of a file is the null terminator: copy_out's
\* "%s" and find_file's strstr end within the buffer, and the byte that
\* defragment's write sets to null was null.
LastByteNull == Prompt /\ length > 0 => Contents[length] = NUL

\* The position is negative, and a sector in front of the file accessed, only
\* after one of three things: a seek to a negative offset, a write that failed,
\* and copy_in or defragment writing a file of less than two bytes. The two
\* bytes that file_write takes off are there to be taken off everywhere else.
PositionValid == pos < 0 \/ status = "ub" => cause # "none"

\* What a step preserves, besides these. A type for every variable, and room
\* in the sectors for the length.
TypeOK ==
    /\ exists \in BOOLEAN
    /\ sectors \in Seq([Block -> Byte])
    /\ length \in 0..MaxLength /\ length <= BLOCK_SECTOR_SIZE * Len(sectors)
    /\ pos \in MinPosition..MaxLength
    /\ call \in {NoCall} \cup [op : {"read"}, offset : {pos}, size : 0..MaxLength]
                          \cup [op : {"write"}, offset : {pos}, buf : Seq(Byte)]
    /\ done \in Int
    /\ buffer \in Seq(Byte)
    /\ status \in {"ok", "ub"}
    /\ old \in Seq(Byte)
    /\ typed \in Seq(Char)
    /\ start \in 0..MaxLength

\* Nothing is left of a file that does not exist, or of a call that returned.
NothingLeft ==
    /\ ~exists => sectors = <<>> /\ length = 0 /\ pos = 0 /\ typed = <<>> /\ call = NoCall
    /\ call = NoCall => done = 0 /\ buffer = <<>>

\* The loop of inode_read_at has read the bytes up to done.
ReadSoFar ==
    call.op = "read" =>
        /\ pos >= 0 \/ call.size = 0
        /\ typed = <<>>
        /\ done \in 0..call.size /\ (done > 0 => pos + done <= length)
        /\ Len(buffer) = done
        /\ \A i \in 1..done : buffer[i] = ByteAt(pos + i - 1)

\* What a call to write was given.
WriteGiven ==
    call.op = "write" =>
        /\ done >= 0 => pos >= 0
        /\ buffer = <<>>
        /\ call.buf # <<>> => call.buf[Len(call.buf)] = NUL
        /\ Len(call.buf) >= 2 \/ cause # "none"
        /\ old # <<>> => old[Len(old)] = NUL

\* A write that failed has changed nothing.
FailedSoFar ==
    call.op = "write" /\ done < 0 =>
        /\ done = -1 /\ cause # "none" /\ typed = <<>>
        /\ pos < 0 \/ pos + Len(call.buf) > length
        /\ pos - 2 >= MinPosition
        /\ old = Contents

\* The loop of inode_write_at has written the bytes up to done, none outside
\* of the call's range, and the file has its new length.
WrittenSoFar ==
    call.op = "write" /\ done >= 0 =>
        /\ done <= Len(call.buf) /\ pos + Len(call.buf) <= length
        /\ Len(old) <= length /\ length \in {Len(old), pos + Len(call.buf)}
        /\ \A i \in 1..done : ByteAt(pos + i - 1) = call.buf[i]
        /\ \A i \in 1..length : (i <= pos \/ i > pos + Len(call.buf)) =>
                ByteAt(i - 1) = IF i <= Len(old) THEN old[i] ELSE NUL

\* What consecutive writes have written: between calls it is in the file, and
\* during a call its last part is what the call writes.
TypedSoFar ==
    typed # <<>> =>
        IF call.op = "write"
        THEN /\ start <= pos /\ Len(call.buf) = start + Len(typed) - pos + 2
             /\ Len(call.buf) >= 2 /\ call.buf[Len(call.buf) - 1] = NUL
             /\ pos > start => pos <= Len(old)
             /\ \A i \in 1..Len(typed) :
                  typed[i] = IF start + i <= pos THEN old[start + i] ELSE call.buf[start + i - pos]
        ELSE /\ pos = start + Len(typed) /\ pos + 2 <= length
             /\ \A i \in 1..Len(typed) : ByteAt(start + i - 1) = typed[i]
             /\ ByteAt(pos) = NUL /\ ByteAt(pos + 1) = NUL

\* LastByteNull, also while a file is read.
EndNull == call.op # "write" /\ length > 0 => ByteAt(length - 1) = NUL

IInv == /\ TypeOK /\ NothingLeft /\ ReadSoFar /\ WriteGiven /\ FailedSoFar /\ WrittenSoFar
        /\ TypedSoFar /\ EndNull /\ SlackIsZero /\ PositionValid

\* Every call returns: each turn of a loop moves at least one byte.
CallReturns == Calling ~> ~Calling
=============================================================================
