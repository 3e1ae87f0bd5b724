------------------------------ MODULE Handlers ------------------------------
(***************************************************************************)
(* The I/O handlers behind the descriptors of one process: one handler,    *)
(* the copy that Duplicate makes of it for dup and fork, and the Win32     *)
(* object they stand for.  The calls read, write, lseek, getdents64 and    *)
(* fcntl(F_SETFL) reach a handler; what they return depends on the last    *)
(* error of the stub, which every call made in the stub may leave behind.  *)
(*                                                                         *)
(* Contents are abstracted to lengths: a read gives a number of bytes.     *)
(* Win32's files and pipes are external, known by how the code uses them.  *)
(***************************************************************************)
EXTENDS Integers, FiniteSetsExt

CONSTANTS
    Kinds,     \* which of the classes of handler below are exercised
    MaxLen,    \* bound: bytes in a file, in a pipe, in generated data
    MaxPos,    \* bound: file positions; static data has -1..(MaxLen + 1)
    Dword,     \* values of a DWORD
    Offsets,   \* what lseek is asked to move by, as an off_t
    Entries    \* entries of a directory on disk; "." and ".." at least

Class == {"file", "dir", "reader", "writer", "null", "random", "static",
          "console"}
Errors == {"ok", "broken", "nodata", "denied"}
Handler == {"a", "b"}      \* the handler, and its duplicate

ASSUME HandlersConstants ==
    /\ Kinds \subseteq Class
    /\ MaxLen \in Nat /\ MaxPos \in Nat /\ MaxLen <= MaxPos
    /\ Dword \in Nat \ {0} /\ Offsets \subseteq Int
    /\ Entries \in Nat /\ Entries >= 2

VARIABLES
    kind,      \* the class of the two handlers
    hs,        \* the members of each
    obj,       \* the Win32 object: position, bytes, the pipe's other end
    src,       \* the length of what a /proc file's generator would give now
    err,       \* g_LastError of the stub
    dup,       \* the handler thread is in the loop of IOHFile::Duplicate
    call,      \* history: what the call just made returned, and for a read
               \* whether it was at the end, was ready, and was to block
    listed     \* history: entries each has returned since its listing began

hvars == <<kind, hs, obj, src, err, dup, call, listed>>

\* IOHandler's members, and those of IOHStaticData and IOHFile.
New == [open |-> TRUE, nonblock |-> FALSE, pos |-> 0, len |-> 0,
        find |-> 0, count |-> 0]
Closed == [New EXCEPT !.open = FALSE]

NoCall == [op |-> "none", h |-> "a", size |-> 0, ret |-> 0,
           sig |-> FALSE, end |-> FALSE, ready |-> FALSE, block |-> TRUE]

\* CreateForPath and Open; a static file's data is generated when it is made.
HandlersInit ==
    /\ kind \in Kinds
    /\ src \in 1..MaxLen
    /\ hs = [h \in Handler |-> IF h = "a" THEN [New EXCEPT !.len = src]
                                          ELSE Closed]
    /\ obj \in [pos : {0}, bytes : IF kind = "file" THEN {0, MaxLen} ELSE {0},
               other : {TRUE}]
    /\ err = "ok"
    /\ dup = FALSE
    /\ call = NoCall
    /\ listed = [h \in Handler |-> 0]

-----------------------------------------------------------------------------
(* The functions that run in the stub (SysCallDll_User.cpp)                *)

\* ReadFile and WriteFile clear the last error first.  Piped says that the
\* handle is a pipe's; at its end there is BROKEN_PIPE, and a writer without
\* readers gets NO_DATA.
Piped == kind \in {"reader", "writer", "console"}

ReadFile(size) ==
    LET n == IF Piped THEN Min({size, obj.bytes})
             ELSE Max({0, Min({size, obj.bytes - obj.pos})})
        fails == kind = "dir"
    IN  /\ Piped /\ size > 0 => obj.bytes > 0 \/ ~obj.other   \* else it waits
        /\ err' = IF fails THEN "denied"
                  ELSE IF Piped /\ size > 0 /\ obj.bytes = 0 THEN "broken"
                  ELSE "ok"
        /\ obj' = IF fails THEN obj
                  ELSE IF Piped THEN [obj EXCEPT !.bytes = @ - n]
                  ELSE [obj EXCEPT !.pos = @ + n]

\* How many bytes that ReadFile moved.
ReadCount == IF Piped THEN obj.bytes - obj'.bytes ELSE obj'.pos - obj.pos

\* Mutant of WriteFile: the last error is not cleared first.
WriteFileStale(size) ==
    LET full == Piped /\ obj.bytes + size > MaxLen
        breaks == Piped /\ ~obj.other /\ size > 0
    IN  /\ ~breaks => ~full /\ obj.pos + size <= MaxLen
        /\ err' = IF breaks THEN "nodata" ELSE err
        /\ obj' = IF breaks THEN obj
                  ELSE IF Piped THEN [obj EXCEPT !.bytes = @ + size]
                  ELSE [obj EXCEPT !.pos = @ + size,
                                   !.bytes = Max({@, obj.pos + size})]

WriteFile(size) ==
    LET full == Piped /\ obj.bytes + size > MaxLen
        breaks == Piped /\ ~obj.other /\ size > 0
    IN  /\ ~breaks => ~full /\ obj.pos + size <= MaxLen
        /\ err' = IF breaks THEN "nodata" ELSE "ok"
        /\ obj' = IF breaks THEN obj
                  ELSE IF Piped THEN [obj EXCEPT !.bytes = @ + size]
                  ELSE [obj EXCEPT !.pos = @ + size,
                                   !.bytes = Max({@, obj.pos + size})]

\* PeekAvailablePipe does not clear it: success leaves the old error there.
PeekError == IF obj.bytes = 0 /\ ~obj.other THEN "broken" ELSE err

\* Win32ErrToUnixError, negated as the system calls return it.
ErrNo(e) == CASE e = "ok" -> 0
              [] e \in {"broken", "nodata"} -> -5
              [] e = "denied" -> -13

-----------------------------------------------------------------------------
(* Read: each says what Read returns, its count and what it changes        *)

\* IOHPipe::Read; IOHNtConsole::Read is the same text for the console's pipe.
PipeRead(h, size, ok, n) ==
    \/ /\ hs[h].nonblock /\ obj.bytes < size
       /\ err' = PeekError
       /\ n = 0
       /\ ok = (obj.bytes = 0 /\ err' = "broken")
       /\ UNCHANGED <<obj, hs>>
    \/ /\ ~(hs[h].nonblock /\ obj.bytes < size)
       /\ ReadFile(size)
       /\ n = ReadCount
       /\ ok = (n # 0 \/ err' = "broken")
       /\ UNCHANGED hs

FileRead(size, ok, n) ==
    /\ ReadFile(size)
    /\ n = ReadCount
    /\ ok = (n # 0 \/ err' = "ok")
    /\ UNCHANGED hs

\* ZeroMem in the stub: it leaves the error as it was.
NullRead(size, ok, n) == ok /\ n = size /\ UNCHANGED <<obj, hs, err>>

\* RefreshData, then at most what is left.
StaticRead(h, size, ok, n) ==
    /\ ok
    /\ n = Max({0, Min({size, src - hs[h].pos})})
    /\ hs' = [hs EXCEPT ![h].len = src, ![h].pos = @ + n]
    /\ UNCHANGED <<obj, err>>

ReadVia(h, size, ok, n) ==
    \/ kind \in {"reader", "writer", "console"} /\ PipeRead(h, size, ok, n)
    \/ kind \in {"file", "dir"} /\ FileRead(size, ok, n)
    \/ kind \in {"null", "random"} /\ NullRead(size, ok, n)
    \/ kind = "static" /\ StaticRead(h, size, ok, n)

\* CanRead, which select asks.  Static data is not refreshed for it, and a
\* pipe without writers is not ready.
CanRead(h) ==
    CASE kind \in {"file", "dir"} -> obj.pos < obj.bytes
      [] Piped -> obj.bytes # 0
      [] kind = "static" -> hs[h].pos < hs[h].len
      [] kind = "null" -> FALSE
      [] kind = "random" -> TRUE

\* Nothing is left to read, and nothing will come.
AtEnd(h) ==
    CASE kind = "file" -> obj.pos >= obj.bytes
      [] Piped -> obj.bytes = 0 /\ ~obj.other
      [] kind = "static" -> hs[h].pos >= src
      [] OTHER -> FALSE

\* sys_read
Read(h, size) ==
    /\ hs[h].open /\ ~dup /\ kind # "writer"
    /\ \E ok \in BOOLEAN, n \in 0..size :
          /\ ReadVia(h, size, ok, n)
          /\ call' = [NoCall EXCEPT !.op = "read", !.size = size,
                           !.ret = IF ok THEN n ELSE ErrNo(err'),
                           !.end = AtEnd(h), !.ready = CanRead(h),
                           !.block = ~hs[h].nonblock]
    /\ UNCHANGED <<kind, src, dup, listed>>

-----------------------------------------------------------------------------
(* Write                                                                   *)

RemoteWrite(size, n) ==
    /\ WriteFile(size)
    /\ n = (IF err' = "nodata" THEN 0 ELSE size)

SwallowWrite(size, n) == n = size /\ UNCHANGED <<obj, err>>

\* The console program takes what is written, while it is there.
ConsoleWrite(size, n) ==
    /\ err' = IF obj.other \/ size = 0 THEN "ok" ELSE "nodata"
    /\ n = (IF err' = "ok" THEN size ELSE 0)
    /\ UNCHANGED obj

RefuseWrite(n) == n = 0 /\ UNCHANGED <<obj, err>>

\* sys_write: a handler that wrote nothing has failed, and the stub's error
\* says why, also for handlers that made no call there.
Write(h, size) ==
    /\ hs[h].open /\ ~dup /\ kind \notin {"reader", "dir"}
    /\ \E n \in 0..size :
          /\ \/ kind \in {"file", "writer"} /\ RemoteWrite(size, n)
             \/ kind \in {"null", "random"} /\ SwallowWrite(size, n)
             \/ kind = "console" /\ ConsoleWrite(size, n)
             \/ kind = "static" /\ RefuseWrite(n)
          /\ LET ok == n # 0 \/ kind \in {"null", "random"}
             IN  call' = [NoCall EXCEPT !.op = "write", !.size = size,
                              !.ret = IF ok THEN n ELSE ErrNo(err'),
                              !.sig = ~ok /\ err' \in {"broken", "nodata"}]
    /\ UNCHANGED <<kind, hs, src, dup, listed>>

-----------------------------------------------------------------------------
(* Seek                                                                    *)

\* IOHFile::Seek: lseek passes the offset as a DWORD, which Win32 extends
\* with zeroes, so it never moves back.
FileSeek(from, off) ==
    LET offset == off % Dword
        base == CASE from = "SET" -> 0 [] from = "CUR" -> obj.pos
                  [] from = "END" -> obj.bytes
    IN  /\ base + offset <= MaxPos
        /\ obj' = [obj EXCEPT !.pos = base + offset]
        /\ err' = "ok"
        /\ UNCHANGED hs

StaticSeek(h, from, offset) ==
    LET to == CASE from = "SET" -> offset [] from = "CUR" -> hs[h].pos + offset
                [] from = "END" -> hs[h].len - 1 - offset
    IN  /\ to \in -1..(MaxLen + 1)
        /\ hs' = [hs EXCEPT ![h].pos = to]
        /\ UNCHANGED <<obj, err>>

\* sys_lseek; the other handlers' Seek does nothing.
Lseek(h, from, offset) ==
    /\ hs[h].open /\ ~dup /\ kind # "dir"
    /\ \/ kind = "file" /\ FileSeek(from, offset)
       \/ kind = "static" /\ StaticSeek(h, from, offset)
       \/ kind \notin {"file", "static"} /\ UNCHANGED <<obj, hs, err>>
    /\ call' = [NoCall EXCEPT !.op = "lseek",
                    !.ret = IF err' # "ok" THEN ErrNo(err')
                            ELSE CASE kind = "file" -> obj'.pos % Dword
                                   [] kind = "static" -> hs'[h].pos
                                   [] OTHER -> -1]
    /\ UNCHANGED <<kind, src, dup, listed>>

-----------------------------------------------------------------------------
(* Directories                                                             *)

\* The entries that IOHFile::GetDirEnts64 returns when room of them fit, and
\* the find that it leaves.  A buffer of one dirent64 has room for none.
DirGot(m, room) == Min({room, Entries - m.find})

\* Mutant of DirFind: the entry that did not fit is not kept for later.
DirFindDrops(m, room) ==
    LET got == DirGot(m, room)
    IN  CASE room = 0 -> m
          [] room > 0 /\ got = 0 -> [m EXCEPT !.find = 0]
          [] OTHER -> [m EXCEPT !.find = Min({@ + got + 1, Entries})]

DirFind(m, room) ==
    LET got == DirGot(m, room)
        ended == room > Entries - m.find       \* FindNextFile has failed
        tries == got + (IF ended THEN 1 ELSE 0)
    IN  CASE room = 0 -> m
          [] room > 0 /\ got = 0 -> [m EXCEPT !.find = 0, !.count = @ + 1]
          [] OTHER -> [m EXCEPT !.find = @ + got,
                                !.count = IF m.find = 0 THEN tries - 1
                                                        ELSE @ + tries]

\* IOHStaticData::GetDirEnts64: as many as fit, from the handler's pointer.
StaticGot(m, room) == Max({0, Min({room, m.len - m.pos})})

\* sys_getdents64
GetDirEnts64(h, room) ==
    /\ hs[h].open /\ ~dup
    /\ \/ kind = "dir" /\ hs' = [hs EXCEPT ![h] = DirFind(@, room)]
       \/ kind = "static" /\ hs' = [hs EXCEPT ![h].pos = @ + StaticGot(hs[h], room)]
       \/ kind \notin {"dir", "static"} /\ UNCHANGED hs
    /\ LET got == CASE kind = "dir" -> DirGot(hs[h], room)
                    [] kind = "static" -> StaticGot(hs[h], room)
                    [] OTHER -> 0
       IN  /\ call' = [NoCall EXCEPT !.op = "getdents", !.h = h, !.size = room,
                                     !.ret = got]
           /\ listed' = IF kind # "dir" THEN listed
                        ELSE [listed EXCEPT ![h] =
                                  IF hs[h].find = 0 THEN got ELSE @ + got]
    /\ UNCHANGED <<kind, obj, src, err, dup>>

-----------------------------------------------------------------------------
(* Duplicates, flags, and the rest of the system                           *)

\* Duplicate: a new handler of the class, with no flags.  The copies of a
\* file or pipe share its Win32 object; static data is copied.
Duplicate ==
    /\ ~dup /\ hs["a"].open /\ ~hs["b"].open
    /\ hs' = [hs EXCEPT !["b"] = IF kind = "static"
                  THEN [New EXCEPT !.pos = hs["a"].pos, !.len = hs["a"].len]
                  ELSE New]
    /\ dup' = (kind = "dir" /\ hs["a"].find > 0)
    /\ call' = NoCall
    /\ UNCHANGED <<kind, obj, src, err, listed>>

\* "Can't dup a find handle, so recreate the find": one entry at a time into
\* a buffer of one dirent64, until the copy's count is the original's.
DuplicateFind ==
    /\ dup
    /\ \/ /\ hs["b"].count < hs["a"].count
          /\ hs' = [hs EXCEPT !["b"] = DirFind(@, 0)]
          /\ UNCHANGED dup
       \/ /\ hs["b"].count >= hs["a"].count
          /\ dup' = FALSE
          /\ UNCHANGED hs
    /\ call' = NoCall
    /\ UNCHANGED <<kind, obj, src, err, listed>>

\* close: delete, whose destructor closes the handle.
CloseHandler(h) ==
    /\ hs[h].open /\ ~dup
    /\ hs' = [hs EXCEPT ![h] = Closed]
    /\ call' = NoCall
    /\ UNCHANGED <<kind, obj, src, err, dup, listed>>

\* fcntl(F_SETFL, O_NONBLOCK or 0)
SetFlags(h, nonblock) ==
    /\ hs[h].open /\ ~dup
    /\ hs' = [hs EXCEPT ![h].nonblock = nonblock]
    /\ call' = NoCall
    /\ UNCHANGED <<kind, obj, src, err, dup, listed>>

\* Calls on the process's other descriptors leave their errors in the stub.
OtherCalls ==
    /\ ~dup
    /\ err' \in Errors
    /\ call' = NoCall
    /\ UNCHANGED <<kind, hs, obj, src, dup, listed>>

\* Other processes write to the pipe, read from it, or close its other end;
\* the user types; what /proc would show grows or shrinks.
OtherEnd ==
    /\ \/ /\ Piped /\ obj.other
          /\ obj' \in {[obj EXCEPT !.bytes = n] : n \in 0..MaxLen}
                      \union {[obj EXCEPT !.other = FALSE]}
          /\ UNCHANGED src
       \/ kind = "static" /\ src' \in 1..MaxLen /\ UNCHANGED obj
    /\ call' = NoCall
    /\ UNCHANGED <<kind, hs, err, dup, listed>>

Sizes == 0..2

HandlersNext ==
    \/ \E h \in Handler, size \in Sizes :
          Read(h, size) \/ Write(h, size) \/ GetDirEnts64(h, size)
    \/ \E h \in Handler, from \in {"SET", "CUR", "END"}, offset \in Offsets :
          Lseek(h, from, offset)
    \/ Duplicate \/ DuplicateFind
    \/ \E h \in Handler : CloseHandler(h) \/ \E nonblock \in BOOLEAN : SetFlags(h, nonblock)
    \/ OtherCalls \/ OtherEnd

HandlersSpec == HandlersInit /\ [][HandlersNext]_hvars

-----------------------------------------------------------------------------
(* Properties                                                              *)

\* Members, object and results keep their types.
HandlersTypeOK ==
    /\ kind \in Class
    /\ hs \in [Handler -> [open : BOOLEAN, nonblock : BOOLEAN,
                           pos : -1..(MaxLen + 1), len : 0..MaxLen,
                           find : 0..Entries, count : 0..(Entries + 1)]]
    /\ obj \in [pos : 0..MaxPos, bytes : 0..MaxLen, other : BOOLEAN]
    /\ src \in 1..MaxLen /\ err \in Errors /\ dup \in BOOLEAN
    /\ listed \in [Handler -> 0..Entries]

\* A blocking read that returns 0 ("//EOF" in Read of each class) found the
\* end: of the file, of the data, or a pipe that is empty and has no writer.
\* Errors that earlier calls left in the stub do not make one.
ZeroMeansEnd ==
    call.op = "read" /\ call.ret = 0 /\ call.size > 0 /\ call.block => call.end

\* A blocking read of a handler that select would call readable (CanRead, "ok
\* if we are not at eof") gives data.  Data of /proc may shrink when it is
\* refreshed, and a directory's handle cannot be read.
ReadableReads ==
    call.op = "read" /\ call.ready /\ call.size > 0 /\ call.block
        /\ kind \notin {"static", "dir"} => call.ret > 0

\* write raises SIGPIPE only on a pipe that has no reader: an error that an
\* earlier call left behind does not count (SysCallDll::WriteFile, "because we
\* need to check it always").  Writes that a static file refuses are the
\* exception: they are judged by whatever error is there.
SigpipeDeserved ==
    call.sig /\ kind # "static" => Piped /\ ~obj.other

\* What read and write answer is about this call and this object, whatever
\* earlier calls left behind in the stub.
ResultsHonest == ZeroMeansEnd /\ ReadableReads /\ SigpipeDeserved

\* A listing that has come to its end has returned every entry once, however
\* the calls cut it ("only close if returning no results - otherwise leave
\* open for the next call to detect end of data").
ListsAll ==
    call.op = "getdents" /\ kind = "dir" /\ call.size > 0 /\ call.ret = 0
        => listed[call.h] = Entries
=============================================================================
