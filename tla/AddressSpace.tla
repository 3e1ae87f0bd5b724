---------------------------- MODULE AddressSpace ----------------------------
(***************************************************************************)
(* The memory of one process: MemoryHelper's allocation of 4k pages inside *)
(* 64k reservations, the list of allocations that munmap, fork and exec    *)
(* work from, brk, mmap, and the loading of ELF images.                    *)
(*                                                                         *)
(* Addresses count half pages, so a break or a length can end inside a     *)
(* page.  Windows' side (VirtualAllocEx, VirtualQueryEx, VirtualFreeEx) is *)
(* the state of each page.  A fork is followed into the child.  The 2 GB   *)
(* of a process never run out (Room): mmap is not tried without space.     *)
(* VirtualFreeEx does not fail.                                            *)
(***************************************************************************)
EXTENDS Integers, Sequences, SequencesExt

CONSTANTS
    Unit64k,     \* half pages in 64k
    Unit1M,      \* half pages in 1M, a multiple of Unit64k
    Top,         \* half pages in the address space
    LibBase,     \* where libraries start, 0x40000000
    StackBase, StackSize,
    Image,       \* the files that can be executed, by name
    Lens,        \* lengths programs ask for
    Fixed,       \* addresses programs ask for
    FileLen,     \* length of the file that is mapped
    MaxAllocs    \* bound: entries of m_MemoryAllocations

Unit4k == 2

VARIABLES
    reserved,    \* pages that Windows has reserved or mapped
    committed,   \* those of them that are memory
    allocs,      \* m_MemoryAllocations
    mmaps,       \* m_MmapList
    elf,         \* m_ElfLoadData
    halted,      \* a DebugBreak was reached
    given        \* history: what the last call gave the program to use

mvars == <<reserved, committed, allocs, mmaps, elf, halted, given>>

Pages == 0..((Top \div Unit4k) - 1)
Down(a, unit) == a - (a % unit)
Up(a, unit) == Down(a + unit - 1, unit)
PagesOf(addr, len) ==
    {n \in Pages : n * Unit4k < addr + len /\ (n + 1) * Unit4k > addr}

\* The page that a 64k unit starts with, for the unit that page n is in.
FirstPage(n) == Down(n * Unit4k, Unit64k) \div Unit4k

NoElf == [brk |-> 0, bss_start |-> 0, program_base |-> 0, program_max |-> 0,
          last_lib_addr |-> 0, start_addr |-> 0, interpreter_start |-> 0,
          interpreter_base |-> 0]
NoRange == [addr |-> 0, len |-> 0, tail |-> {}]

-----------------------------------------------------------------------------
(* MemoryHelper                                                            *)

\* Windows' side, m_MemoryAllocations, and whether the last call succeeded.
Space(taken, used, list) ==
    [reserved |-> taken, committed |-> used, allocs |-> list, ok |-> TRUE]

\* Where Windows can put a reservation when it is given no address.
Room(taken, len) ==
    {a \in Unit64k..(Top - len) :
        a % Unit64k = 0 /\ PagesOf(a, len) \intersect taken = {}}

\* "ensure reserved first": the 64k units of the range that are free.
Reserve(taken, addr, len) ==
    taken \union {n \in Pages : /\ FirstPage(n) \notin taken
                               /\ FirstPage(n) * Unit4k >= Down(addr, Unit64k)
                               /\ FirstPage(n) * Unit4k < addr + len}

\* AllocateMemAndProtect; at is 0 if Windows chose the address, and then
\* exactly the pages of the range are reserved.  Then "commit pages from
\* reserved area".
AllocateMemAndProtect(sp, at, addr, len) ==
    IF ~sp.ok \/ addr + len > Top THEN [sp EXCEPT !.ok = FALSE]
    ELSE LET taken == IF at = 0 THEN sp.reserved \union PagesOf(addr, len)
                      ELSE Reserve(sp.reserved, addr, len)
         IN  Space(taken, sp.committed \union (PagesOf(addr, len) \intersect taken),
                   Append(sp.allocs, [addr |-> addr, len |-> len]))

\* Mutant of DeallocateMemory: any entry with this address is erased.
DeallocateAnyLength(sp, addr, len) ==
    LET same == {i \in DOMAIN sp.allocs : sp.allocs[i].addr = addr}
    IN  IF same = {} THEN [sp EXCEPT !.ok = FALSE]
        ELSE Space(sp.reserved, sp.committed \ PagesOf(addr, len),
                   RemoveAt(sp.allocs, Min(same)))

\* DeallocateMemory: the first entry with this address and this length.
DeallocateMemory(sp, addr, len) ==
    LET same == {i \in DOMAIN sp.allocs :
                    sp.allocs[i].addr = addr /\ sp.allocs[i].len = len}
    IN  IF same = {} THEN [sp EXCEPT !.ok = FALSE]
        ELSE Space(sp.reserved, sp.committed \ PagesOf(addr, len),
                   RemoveAt(sp.allocs, Min(same)))

-----------------------------------------------------------------------------
(* Loading                                                                 *)

\* LoadElfImage's loop: one PT_LOAD segment.
LoadSegment(st, seg, base, asLibrary) ==
    LET want == seg.vaddr + base
        from == IF seg.align > 1 THEN Down(want, seg.align) ELSE want
        size == IF seg.align > 1 THEN Up(seg.memsz + (want - from), seg.align)
                                 ELSE seg.memsz
        sp == AllocateMemAndProtect(st.sp, from, from, size)
        larger(a, b) == IF a > b THEN a ELSE b
        e == st.elf
    IN  IF ~sp.ok THEN [st EXCEPT !.sp = sp]
        ELSE [sp |-> sp,
              elf |-> IF asLibrary
                      THEN [e EXCEPT !.last_lib_addr =
                                        larger(from + seg.memsz, @)]
                      ELSE [e EXCEPT
                              !.bss_start = larger(from + seg.filesz, @),
                              !.brk = larger(from + size, @),
                              !.program_base =
                                 IF from < @ \/ @ = 0 THEN from ELSE @,
                              !.program_max = larger(from + seg.memsz, @)]]

Segments(st, img, base, asLibrary) ==
    LET upto[n \in 0..Len(img.segs)] ==
            IF n = 0 THEN st
            ELSE LoadSegment(upto[n - 1], img.segs[n], base, asLibrary)
    IN  upto[Len(img.segs)]

\* LoadElfImage without its interpreter: header, base address and segments.
LoadElf(st, img, asLibrary) ==
    LET base == IF ~asLibrary /\ ~img.dyn THEN 0
                ELSE Up(IF st.elf.last_lib_addr = 0 THEN LibBase
                        ELSE st.elf.last_lib_addr, Unit64k)
        begun == [st EXCEPT !.elf.start_addr = img.entry + base,
                            !.elf.interpreter_base =
                                IF asLibrary \/ img.dyn THEN base ELSE @]
    IN  IF img.kind # "elf" THEN [st EXCEPT !.sp.ok = FALSE]
        ELSE Segments(begun, img, base, asLibrary)

\* LoadElfImage: the interpreter is loaded as a library into a copy of the
\* load data, of which three members are kept.
LoadElfImage(st, img) ==
    LET program == LoadElf(st, img, FALSE)
        interp == LoadElf(program, Image[img.interp], TRUE)
    IN  IF img.kind # "elf" \/ img.interp = "" THEN program
        ELSE IF Image[img.interp].kind = "none"
             THEN [program EXCEPT !.sp.ok = FALSE]
        ELSE [program EXCEPT
                 !.sp = interp.sp,
                 !.elf.interpreter_start = interp.elf.start_addr,
                 !.elf.interpreter_base = interp.elf.interpreter_base,
                 !.elf.last_lib_addr = interp.elf.last_lib_addr]

\* LoadImage: an ELF file, or a script and then its interpreter.
LoadImage(st, name) ==
    IF Image[name].kind = "script"
    THEN LoadElfImage(st, Image[Image[name].interp])
    ELSE LoadElfImage(st, Image[name])

\* CanLoadImage looks at the magic number only.
CanLoadImage(name) ==
    LET img == IF Image[name].kind = "script" THEN Image[Image[name].interp]
                                              ELSE Image[name]
    IN  img.kind \in {"elf", "object"}

\* StartNewImageRunning: where to start, and room for the strings of
\* the environment and of the arguments (CopyStringListBetweenProcesses).
StartNewImageRunning(st, env, args) ==
    [sp |-> AllocateMemAndProtect(
                AllocateMemAndProtect([st.sp EXCEPT !.ok = TRUE], 0, env, 1),
                0, args, 1),
     elf |-> IF st.elf.interpreter_start # 0 THEN st.elf
             ELSE [st.elf EXCEPT !.interpreter_base = st.elf.program_base,
                                 !.interpreter_start = st.elf.start_addr]]

\* Where the new image starts; nowhere if nothing of it was loaded.
Entry(e) ==
    IF e.interpreter_start = 0 THEN NoRange
    ELSE [addr |-> e.interpreter_start, len |-> 1, tail |-> {}]

-----------------------------------------------------------------------------
(* Process start, fork and exec                                            *)

\* ConvertProcessToKeow, for init: the stack, then the image.
Start(name) ==
    LET stack == AllocateMemAndProtect(Space({}, {}, <<>>),
                                       StackBase, StackBase, StackSize)
    IN  LoadImage([sp |-> stack, elf |-> NoElf], name)

SpaceInit ==
    \E name \in {n \in DOMAIN Image : CanLoadImage(n)} :
        LET st == Start(name)
        IN  \E env, args \in Room(st.sp.reserved, 1) :
              LET run == StartNewImageRunning(st, env, args)
              IN  /\ env < args
                  /\ reserved = run.sp.reserved
                  /\ committed = run.sp.committed /\ allocs = run.sp.allocs
                  /\ elf = run.elf /\ given = Entry(run.elf)
                  /\ mmaps = <<>> /\ halted = FALSE

Mem == Space(reserved, committed, allocs)

Becomes(sp) ==
    /\ reserved' = sp.reserved /\ committed' = sp.committed
    /\ allocs' = sp.allocs

\* FreeResourcesBeforeExec: the list is walked while entries are erased.  An
\* erased entry sends the iterator back to the first, which ++ then skips.
FreeResourcesBeforeExec(sp) ==
    LET stack(s, i) == s.allocs[i].addr = StackBase
        walk[k \in 0..(Len(sp.allocs) * 2)] ==
            IF k = 0 THEN [sp |-> sp, at |-> 1]
            ELSE LET t == walk[k - 1]
                 IN  IF t.at > Len(t.sp.allocs) THEN t
                     ELSE IF stack(t.sp, t.at) THEN [t EXCEPT !.at = @ + 1]
                     ELSE LET a == t.sp.allocs[t.at]
                          IN  [sp |-> Space(t.sp.reserved,
                                            t.sp.committed \ PagesOf(a.addr, a.len),
                                            RemoveAt(t.sp.allocs, t.at)),
                               at |-> 2]
    IN  walk[Len(sp.allocs) * 2].sp

\* execve.  What loading returns is not looked at.
Execve(name) ==
    /\ CanLoadImage(name)
    /\ halted' = (mmaps # <<>>)
    /\ LET st == LoadImage([sp |-> FreeResourcesBeforeExec(Mem),
                            elf |-> NoElf], name)
       IN  \E env, args \in Room(st.sp.reserved, 1) :
              LET run == StartNewImageRunning(st, env, args)
              IN  /\ env < args
                  /\ Becomes(run.sp)
                  /\ elf' = run.elf /\ given' = Entry(run.elf)
    /\ UNCHANGED mmaps

\* The memory ForkCopyOtherProcess gives to a child.
ForkCopy(list) ==
    LET upto[n \in 0..Len(list)] ==
            IF n = 0 THEN Space({}, {}, <<>>)
            ELSE AllocateMemAndProtect([upto[n - 1] EXCEPT !.ok = TRUE],
                                       list[n].addr, list[n].addr, list[n].len)
    IN  upto[Len(list)]

ForkProcess ==
    /\ halted' = (mmaps # <<>>)
    /\ Becomes(ForkCopy(allocs))
    /\ mmaps' = <<>>
    /\ given' = NoRange
    /\ UNCHANGED elf

-----------------------------------------------------------------------------
(* brk, mmap and munmap                                                    *)

\* Free pages of units whose first page is not: no reservation reaches them.
RestOfUnits(taken) == {n \in Pages \ taken : FirstPage(n) \in taken}

Allocated(sp, at, addr, len) ==
    LET new == AllocateMemAndProtect(sp, at, addr, len)
    IN  /\ Becomes(new)
        /\ given' = IF new.ok THEN [addr |-> addr, len |-> len,
                                    tail |-> RestOfUnits(sp.reserved)] ELSE NoRange

\* brk, "only allow growing for now"
Brk(new_brk) ==
    /\ new_brk >= elf.brk /\ elf.brk # 0
    /\ IF new_brk = elf.brk THEN Becomes(Mem) /\ given' = NoRange
       ELSE Allocated(Mem, elf.brk, elf.brk, new_brk - elf.brk)
    /\ elf' = IF new_brk > Top THEN elf ELSE [elf EXCEPT !.brk = new_brk]
    /\ UNCHANGED <<mmaps, halted>>

\* munmap: an entry of m_MmapList is a DebugBreak; otherwise plain memory.
Munmap(addr, len) ==
    /\ halted' = (mmaps # <<>>)
    /\ Becomes(DeallocateMemory(Mem, addr, len))
    /\ given' = NoRange
    /\ UNCHANGED <<mmaps, elf>>

\* mmap's test for mappings that Windows can make: a writable, shared one of
\* the file, "64k test", "mmap larger than file".
RealMapping(addr, len, shared) ==
    shared /\ addr % Unit1M = 0 /\ len <= FileLen

\* A "fake mmap": unmap what is there, allocate, and read the file.
MmapFake(addr, len) ==
    LET len4k == Up(len, Unit4k)
        before == IF addr = 0 THEN Mem ELSE DeallocateMemory(Mem, addr, len4k)
    IN  /\ halted' = (addr # 0 /\ mmaps # <<>>)
        /\ \E at \in IF addr = 0 THEN Room(reserved, len4k) ELSE {addr} :
              Allocated([before EXCEPT !.ok = TRUE], addr, at, len4k)
        /\ UNCHANGED <<mmaps, elf>>

\* MapViewOfFileEx of the file: at its address, if that is free.
MmapFile(addr, len) ==
    /\ RealMapping(addr, len, TRUE)
    /\ halted' = (addr # 0 /\ mmaps # <<>>)
    /\ \E at \in {a \in Room(reserved, len) : addr = 0 \/ a = addr} :
          /\ reserved' = reserved \union PagesOf(at, len)
          /\ mmaps' = Append(mmaps, [addr |-> at, len |-> len])
    /\ given' = NoRange
    /\ UNCHANGED <<committed, allocs, elf>>

SpaceNext ==
    /\ ~halted /\ Len(allocs) < MaxAllocs
    /\ \/ \E name \in DOMAIN Image : Execve(name)
       \/ ForkProcess
       \/ \E len \in Lens : Brk(elf.brk + len)
       \/ \E addr \in Fixed, len \in Lens : Munmap(addr, len)
       \/ \E addr \in Fixed \union {0}, len \in Lens :
             MmapFake(addr, len) \/ (mmaps = <<>> /\ MmapFile(addr, len))

SpaceSpec == SpaceInit /\ [][SpaceNext]_mvars

-----------------------------------------------------------------------------
(* Properties                                                              *)

\* Pages have states, and the list has ranges of the address space.
SpaceTypeOK ==
    /\ committed \subseteq reserved /\ reserved \subseteq Pages
    /\ \A i \in DOMAIN allocs :
          allocs[i].addr \in Unit64k..Top /\ allocs[i].len \in 1..Top
    /\ halted \in BOOLEAN

Recorded == UNION {PagesOf(allocs[i].addr, allocs[i].len) : i \in DOMAIN allocs}

\* m_MemoryAllocations accounts for all memory that is in use, whatever
\* overlaps and whatever was freed in part: what is not on it would neither
\* be copied by fork nor freed by exec.
UsedIsRecorded == committed \subseteq Recorded

\* An allocation that succeeds is memory: each page of the range that brk or
\* mmap returned is committed, except for the rest of a 64k unit whose first
\* pages were given away by an mmap without address (AllocateMemAndProtect).
\* So is the instruction that a new image starts with.
GivenIsBacked ==
    \A n \in PagesOf(given.addr, given.len) :
        given.len > 0 => n \in committed \union given.tail

\* exec frees the old program's memory: FreeResourcesBeforeExec erases from
\* the list it walks ("iterator is invalid now? reset?") and skips the first
\* entry after each erase, which is the stack's.
ExecFreesAll ==
    LET sp == FreeResourcesBeforeExec(Mem)
    IN  /\ \A i \in DOMAIN sp.allocs : sp.allocs[i].addr = StackBase
        /\ sp.committed \subseteq PagesOf(StackBase, StackSize)

\* A fork's child has all the memory of its parent ("valid after we copy the
\* other processes memory allocations").
ForkCopiesAll ==
    committed \subseteq ForkCopy(allocs).committed

\* The list of allocations serves all that use it: what a call gave is memory,
\* all memory is recorded, exec frees it, and fork copies it.
MemoryServes == UsedIsRecorded /\ GivenIsBacked /\ ExecFreesAll /\ ForkCopiesAll
=============================================================================
