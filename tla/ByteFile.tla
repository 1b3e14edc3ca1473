------------------------------ MODULE ByteFile -------------------------------
(***************************************************************************)
(* What inode.c promises of the bytes of one file: a call names an offset  *)
(* and a size; reading returns the bytes there are, writing puts all its   *)
(* bytes in place, extending the file with zeros if need be, or, for lack  *)
(* of space, does nothing and returns 0. What starts in front of the file  *)
(* reads and writes nothing.                                               *)
(***************************************************************************)
EXTENDS Integers, Sequences

CONSTANTS
    Char,       \* the bytes other than the null terminator
    NUL,        \* the null terminator, and what a new sector is filled with
    MaxLength   \* bound: bytes of the file

Byte == Char \cup {NUL}
Offsets == 0..MaxLength
NoCall == [op |-> "none"]
Returned(n, bytes) == [count |-> n, bytes |-> bytes]

VARIABLES file, call, result

bfvars == <<file, call, result>>

Shorter(a, b) == IF a < b THEN a ELSE b
Zeros(n) == [i \in 1..n |-> NUL]

\* buf put over f from the given offset on.
Overlay(f, offset, buf) ==
    LET ByteAt(i) == CASE offset < i /\ i <= offset + Len(buf) -> buf[i - offset]
                       [] (i <= offset \/ i > offset + Len(buf)) /\ i <= Len(f) -> f[i]
                       [] OTHER -> NUL
        end == offset + Len(buf)
    IN  [i \in 1..(IF end > Len(f) THEN end ELSE Len(f)) |-> ByteAt(i)]

BFInit ==
    /\ file = <<>>
    /\ call = NoCall
    /\ result = Returned(0, <<>>)

\* A file is created or removed.
BFReplace ==
    /\ call = NoCall
    /\ \E n \in Offsets : file' = Zeros(n)
    /\ UNCHANGED <<call, result>>

BFCall ==
    /\ call = NoCall
    /\ \/ call' \in [op : {"read"}, offset : Int, size : Offsets]
       \/ call' \in [op : {"write"}, offset : Int, buf : Seq(Byte)]
    /\ result' = Returned(0, <<>>)
    /\ UNCHANGED file

\* A call on a new file.
BFCopyIn ==
    /\ call = NoCall
    /\ call' \in [op : {"write"}, offset : {0}, buf : Seq(Byte)]
    /\ file' = Zeros(Len(call'.buf))
    /\ result' = Returned(0, <<>>)

BFRead ==
    /\ call.op = "read"
    /\ call.offset >= 0 \/ call.size = 0
    /\ LET bytes == SubSeq(file, call.offset + 1, Shorter(call.offset + call.size, Len(file)))
       IN  result' = Returned(Len(bytes), bytes)
    /\ call' = NoCall
    /\ UNCHANGED file

BFWrite ==
    /\ call.op = "write"
    /\ call' = NoCall
    /\ \/ /\ call.offset >= 0
          /\ file' = Overlay(file, call.offset, call.buf)
          /\ result' = Returned(Len(call.buf), <<>>)
       \/ /\ call.offset < 0 \/ call.offset + Len(call.buf) > Len(file)
          /\ result' = Returned(0, <<>>)
          /\ UNCHANGED file

BFNext == BFReplace \/ BFCall \/ BFCopyIn \/ BFRead \/ BFWrite

BFSpec == BFInit /\ [][BFNext]_bfvars
=============================================================================
