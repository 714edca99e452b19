------------------------------- MODULE RamFile -------------------------------
(***************************************************************************)
(* A file of the RAM file system (RawRamFile in kernel/src/fs/ramfs.rs)    *)
(* and the handles through which it is used (kernel/src/fs/filesystem.rs): *)
(* the bytes live in pages, the capacity runs ahead of the size, every     *)
(* handle has a position of its own.  A handle's lock and the file's lock  *)
(* make each call one step.                                                *)
(*                                                                         *)
(* The contents are compared with a plain sequence of bytes, ref, to which *)
(* each call does what its documentation says.                             *)
(***************************************************************************)
EXTENDS Integers, Sequences, FiniteSets, FiniteSetsExt

CONSTANTS
    Handles,
    PAGE_SIZE,
    MaxSize,        \* bound on the size of the file
    Bytes           \* bytes written, 0 is not among them

VARIABLES
    rawfile,        \* pages (each a function of offsets), size, capacity
    handle,         \* of each handle: open, current, read, write, cut (in truncate)
    ref,            \* what the file holds, as a sequence
    unspec          \* offsets past the end that a failed copy from user memory left behind

fileVars == <<rawfile, handle, ref, unspec>>

ZeroPage == [i \in 0..(PAGE_SIZE - 1) |-> 0]
Zeros(n) == [i \in 1..n |-> 0]
Least(a, b) == Min({a, b})
page_align_up(n) == ((n + PAGE_SIZE - 1) \div PAGE_SIZE) * PAGE_SIZE
page_offset(n) == n % PAGE_SIZE

Closed == [open |-> FALSE, current |-> 0, read |-> FALSE, write |-> FALSE, cut |-> FALSE]

FileInit ==
    /\ rawfile = [pages |-> <<>>, size |-> 0, capacity |-> 0]
    /\ handle = [h \in Handles |-> Closed]
    /\ ref = <<>> /\ unspec = {}

Byte(f, i) == f.pages[i \div PAGE_SIZE + 1][page_offset(i)]

\* set_capacity; room is the number of pages the allocator has left
RECURSIVE set_capacity(_, _, _)
set_capacity(f, capacity, room) ==
    IF page_align_up(capacity) <= f.capacity \/ room = 0 THEN f
    ELSE set_capacity([f EXCEPT !.pages = Append(@, ZeroPage), !.capacity = @ + PAGE_SIZE],
                      capacity, room - 1)

\* read_buffer: the bytes read into a buffer of the given length
RECURSIVE read_loop(_, _, _)
read_loop(f, current, len) ==
    LET n == Least(f.size - current, Least(len, PAGE_SIZE - page_offset(current)))
        chunk == [i \in 1..n |-> Byte(f, current + i - 1)]
    IN  IF len = 0 \/ current \div PAGE_SIZE >= Len(f.pages) THEN <<>>
        ELSE IF current + n = f.size THEN chunk
        ELSE chunk \o read_loop(f, current + n, len - n)
read_buffer(f, file_offset, len) == read_loop(f, Least(file_offset, f.size), len)

\* copy_from_buffer of n bytes at an offset of the file, within one page
Copy(f, data, from, offset, n) ==
    [f EXCEPT !.pages[offset \div PAGE_SIZE + 1] =
        [i \in DOMAIN @ |-> IF i \in page_offset(offset)..(page_offset(offset) + n - 1)
                              THEN data[from + 1 + i - page_offset(offset)] ELSE @[i]]]

\* The loop of write_buffer, from offset "at" of the file.  The copy out of user
\* memory faults after "good" bytes; the page it faults in keeps what was copied,
\* the size does not count it.
RECURSIVE write_loop(_, _, _, _, _)
write_loop(f, at, data, done, good) ==
    LET offset == at + done
        n == Least(Len(data) - done, PAGE_SIZE - page_offset(offset))
    IN  IF done = Len(data) THEN [file |-> f, ok |-> TRUE, copied |-> done]
        ELSE IF good < done + n
               THEN [file |-> Copy(f, data, done, offset, good - done), ok |-> FALSE, copied |-> good]
        ELSE write_loop([Copy(f, data, done, offset, n) EXCEPT !.size = Max({@, offset + n})],
                        at, data, done + n, good)

write_buffer(f, data, file_offset, room, good) ==
    LET g == set_capacity(f, file_offset + Len(data), room)
    IN  IF page_align_up(file_offset + Len(data)) > g.capacity
          THEN [file |-> g, ok |-> FALSE, copied |-> 0]
          ELSE write_loop(g, file_offset, data, 0, good)

truncate_no_fill(f, size) ==
    LET new_pages == page_align_up(size) \div PAGE_SIZE
    IN  [pages |-> SubSeq(f.pages, 1, new_pages), capacity |-> new_pages * PAGE_SIZE, size |-> size]

\* RawRamFile::truncate for a size that is not above the file's: the last
\* page is cleared behind the new end
truncate_file(f, size) ==
    LET new_pages == page_align_up(size) \div PAGE_SIZE
        kept == SubSeq(f.pages, 1, new_pages)
    IN  [pages |-> IF page_offset(size) = 0 THEN kept
                   ELSE [kept EXCEPT ![new_pages] =
                           [i \in DOMAIN @ |-> IF i >= page_offset(size) THEN 0 ELSE @[i]]],
         capacity |-> new_pages * PAGE_SIZE, size |-> size]

-----------------------------------------------------------------------------
(* What the calls do to the plain sequence                                 *)

RefWrite(s, data, offset) ==
    LET padded == IF offset > Len(s) THEN s \o Zeros(offset - Len(s)) ELSE s
    IN  [i \in 1..Max({Len(padded), offset + Len(data)}) |->
           IF i > offset /\ i <= offset + Len(data) THEN data[i - offset] ELSE padded[i]]

RefRead(s, offset, len) == SubSeq(s, offset + 1, Least(Len(s), offset + len))

-----------------------------------------------------------------------------
(* The handles                                                             *)

Open(h) == handle[h].open
Ready(h) == handle[h].open /\ ~handle[h].cut

\* FileHandle::new behind open() and create(); the TRUNC and APPEND of sys_open
\* are calls of truncate() and seek_end() that follow
OpenHandle(h) ==
    \E rd, wr \in BOOLEAN :
      /\ ~Open(h)
      /\ handle' = [handle EXCEPT ![h] = [open |-> TRUE, read |-> rd, write |-> wr,
                                          current |-> 0, cut |-> FALSE]]
      /\ UNCHANGED <<rawfile, ref, unspec>>

Close(h) ==
    /\ Ready(h)
    /\ handle' = [handle EXCEPT ![h] = Closed]
    /\ UNCHANGED <<rawfile, ref, unspec>>

Read(h) ==
    \E len \in 1..MaxSize :
      /\ Ready(h) /\ handle[h].read
      /\ handle' = [handle EXCEPT ![h].current = @ + Len(read_buffer(rawfile, @, len))]
      /\ UNCHANGED <<rawfile, ref, unspec>>

\* The handle's position moves only when the whole write succeeds.  Of a write
\* that fails, the file keeps the bytes that were copied before its end.
Write(h) ==
    \E b \in Bytes, len \in 1..MaxSize, room \in 0..(MaxSize \div PAGE_SIZE) :
      \E good \in 0..len :
      LET at == handle[h].current
          data == [i \in 1..len |-> b]
          r == write_buffer(rawfile, data, at, room, good)
          stored == Max({0, Least(r.copied, r.file.size - at)})
      IN  /\ Ready(h) /\ handle[h].write /\ at + len <= MaxSize
          /\ rawfile' = r.file
          /\ ref' = IF stored = 0 THEN ref ELSE RefWrite(ref, SubSeq(data, 1, stored), at)
          /\ unspec' = (unspec \ (at..(at + stored - 1))) \cup ((at + stored)..(at + r.copied - 1))
          /\ handle' = [handle EXCEPT ![h].current = IF r.ok THEN at + len ELSE @]

\* truncate() takes the file's lock twice: for the file, then for the size that
\* the position must not exceed
Truncate(h) ==
    \E size \in 0..MaxSize :
      /\ Ready(h) /\ handle[h].write /\ size <= rawfile.size
      /\ rawfile' = truncate_file(rawfile, size)
      /\ ref' = SubSeq(ref, 1, size)
      /\ unspec' = {i \in unspec : i < size}
      /\ handle' = [handle EXCEPT ![h].cut = TRUE]

FinishTruncate(h) ==
    /\ handle[h].cut
    /\ handle' = [handle EXCEPT ![h].cut = FALSE, ![h].current = Least(@, rawfile.size)]
    /\ UNCHANGED <<rawfile, ref, unspec>>

seek_abs(h, pos) == handle' = [handle EXCEPT ![h].current = Least(pos, rawfile.size)]

Seek(h) ==
    /\ Ready(h)
    /\ \E n \in 0..MaxSize :
         \/ seek_abs(h, n)
         \/ seek_abs(h, handle[h].current + n)
         \/ seek_abs(h, Max({0, handle[h].current - n}))
         \/ seek_abs(h, Max({0, rawfile.size - n}))
    /\ UNCHANGED <<rawfile, ref, unspec>>

FileNext == \E h \in Handles :
    OpenHandle(h) \/ Close(h) \/ Read(h) \/ Write(h) \/ Truncate(h)
    \/ FinishTruncate(h) \/ Seek(h)

FileSpec == FileInit /\ [][FileNext]_fileVars

-----------------------------------------------------------------------------
\* Whatever is read back is what was written: for every range, read() yields
\* the bytes of the plain sequence, zeros included where a write left a gap
\* behind the old end, and stops at the end of the file.  Bytes that a faulting
\* copy from user memory left behind the end are the exception.
ReadsBack ==
    /\ rawfile.size = Len(ref)
    /\ \A offset \in 0..MaxSize, len \in 1..MaxSize :
         LET got == read_buffer(rawfile, offset, len)
             want == RefRead(ref, offset, len)
         IN  Len(got) = Len(want)
             /\ \A i \in 1..Len(got) : got[i] # want[i] => (offset + i - 1) \in unspec
=============================================================================
