-------------------------------- MODULE Ldt --------------------------------
(***************************************************************************)
(* Thread areas: the table of LDT entries of a process (m_LdtEntries), the *)
(* calls that fill it (set_thread_area, modify_ldt), the calls that read   *)
(* it, and the trap that puts a thread's own entry into GS.                *)
(*                                                                         *)
(* The functions take a thread id, since "in Linux LDT (and GDT) entries   *)
(* are per task" and "in Windows they are per-Process".  Addresses are     *)
(* counted in small words: the last one that Windows allows is LastByte.   *)
(* Today sys_clone is not handled and a process has one thread.            *)
(***************************************************************************)
EXTENDS Integers, FiniteSets, FiniteSetsExt

CONSTANTS
    Tid,          \* threads of the process, positive numbers
    First, Max_,  \* FIRST_USABLE_LDT_ENTRY, MAX_LDT_ENTRIES
    Base,         \* base addresses programs ask for
    Limit,        \* limits programs ask for
    PageSize, LastByte,   \* 4k and 0x7FFEFFFF in these words
    DwordSize     \* a DWORD is below DwordSize

ASSUME LdtConstants ==
    /\ Tid \subseteq Nat \ {0}
    /\ First \in Nat \ {0} /\ Max_ \in Nat
    /\ Base \subseteq Nat /\ Limit \subseteq Nat
    /\ PageSize \in Nat \ {0} /\ LastByte \in Nat /\ DwordSize \in Nat
    /\ LastByte < DwordSize /\ LastByte % PageSize = PageSize - 1

VARIABLES
    entry,        \* m_LdtEntries
    known,        \* entry numbers that programs were told
    gs,           \* GS of each thread: an index into the LDT
    mine,         \* history: what a thread set last, by thread and number
    refused       \* history: the last descriptor, if Windows refused it: its
                  \* base and whether its limit counts pages

lvars == <<entry, known, gs, mine, refused>>

Index == First..(Max_ - 1)
Marker == -1
Unset == -1
Free == [thread |-> 0, really |-> FALSE, number |-> 0, base |-> Unset]

LdtInit ==
    /\ entry = [i \in Index |-> Free]
    /\ known = {} /\ gs = [t \in Tid |-> 0]
    /\ mine = [t \in Tid |-> [i \in Index |-> Unset]]
    /\ refused = {}

-----------------------------------------------------------------------------
(* MemoryHelper                                                            *)

\* AllocateLDTSelector: the first entry of no thread; an LDT entry is only a
\* marker.  The index is -1 if there is none.
AllocateLDTSelector(e, t, isForLDT) ==
    LET free == {i \in Index : e[i].thread = 0}
        i == Min(free)
    IN  IF free = {} THEN [index |-> -1, entry |-> e]
        ELSE [index |-> i,
              entry |-> [e EXCEPT ![i].really = isForLDT,
                                  ![i].thread = IF isForLDT THEN Marker ELSE t]]

\* Mutant of CalculateLDTEntryForThread: the requested entry is good enough.
CalculateAsRequested(e, t, number) ==
    IF number \notin Index \/ e[number].thread = 0
    THEN [index |-> 0, entry |-> e] ELSE [index |-> number, entry |-> e]

\* CalculateLDTEntryForThread: the entry that stands for a number in a
\* thread, made if there is none; 0 for a bad number and for a full table.
CalculateLDTEntryForThread(e, t, number) ==
    LET own == {i \in Index : e[i].number = number /\ e[i].thread = t}
        new == AllocateLDTSelector(e, t, e[number].really)
    IN  CASE number \notin Index \/ e[number].thread = 0 ->
                [index |-> 0, entry |-> e]
          [] number \in Index /\ e[number].thread = t ->
                [index |-> number, entry |-> e]
          [] number \in Index /\ e[number].thread \notin {0, t} /\ own # {} ->
                [index |-> Min(own), entry |-> e]
          [] OTHER -> IF new.index = -1 THEN [index |-> 0, entry |-> e] ELSE new

\* SetLDTSelector's limit, "NT Rules: base < 7FFF0000, limit < 7FFF0000,
\* base+limit <= 7FFF0000", in DWORDs.
Clamped(base, limit, inPages) ==
    LET up == base + PageSize - 1
        base4k == (up - (up % PageSize)) % DwordSize
        most == IF inPages THEN ((LastByte - base4k) % DwordSize) \div PageSize
                ELSE (LastByte - base) % DwordSize
    IN  IF limit > most THEN most ELSE limit

\* NtSetInformationProcess takes descriptors that follow the rules.
Accepted(base, limit, inPages) ==
    base + (IF inPages THEN (limit + 1) * PageSize - 1 ELSE limit) <= LastByte

\* GetLDTSelector: a copy of the descriptor that was recorded.
GetLDTSelector(e, t, number) ==
    LET c == CalculateLDTEntryForThread(e, t, number)
    IN  [entry |-> c.entry,
         base |-> IF c.index = 0 THEN Unset ELSE c.entry[c.index].base]

\* SetLDTSelector, with the table so far and the descriptor.
SetLDTSelector(e, t, number, base, limit, inPages, really) ==
    LET c == CalculateLDTEntryForThread(e, t, number)
        ok == Accepted(base, Clamped(base, limit, inPages), inPages)
    IN  IF c.index = 0
        THEN entry' = c.entry /\ refused' = {} /\ UNCHANGED <<known, mine>>
        ELSE IF ~ok
        THEN /\ entry' = c.entry /\ refused' = {[base |-> base, inPages |-> inPages]}
             /\ UNCHANGED <<known, mine>>
        ELSE /\ entry' = [c.entry EXCEPT ![c.index].number = number,
                                         ![c.index].base = base,
                                         ![c.index].really = really]
             /\ known' = known \union {number}
             /\ mine' = [mine EXCEPT ![t][number] =
                            IF really \/ e[number].really THEN Unset ELSE base]
             /\ refused' = {}

-----------------------------------------------------------------------------
(* System calls, and the trap                                              *)

\* set_thread_area, with entry number -1 or one that a program knows.
SetThreadArea(t, number, base, limit, inPages) ==
    /\ LET new == AllocateLDTSelector(entry, t, FALSE)
       IN  IF number # -1
           THEN SetLDTSelector(entry, t, number, base, limit, inPages, FALSE)
           ELSE IF new.index = -1 THEN UNCHANGED <<entry, known, mine, refused>>
           ELSE SetLDTSelector(new.entry, t, new.index, base, limit, inPages,
                               FALSE)
    /\ UNCHANGED gs

\* get_thread_area and modify_ldt(0): a look at an entry can make one.
GetThreadArea(t, number) ==
    /\ entry' = GetLDTSelector(entry, t, number).entry
    /\ refused' = {}
    /\ UNCHANGED <<known, gs, mine>>

\* modify_ldt(1)
ModifyLdt(t, number, base, limit, inPages) ==
    /\ SetLDTSelector(entry, t, number, base, limit, inPages, TRUE)
    /\ UNCHANGED gs

\* HandlePossibleLDTException: "mov gs,eax" with the selector of an entry
\* that is not in the GDT.
TrapGs(t, number) ==
    /\ LET c == CalculateLDTEntryForThread(entry, t, number)
       IN  entry' = c.entry /\ gs' = [gs EXCEPT ![t] = c.index]
    /\ refused' = {}
    /\ UNCHANGED <<known, mine>>

LdtNext ==
    \E t \in Tid :
        \/ \E base \in Base, limit \in Limit, inPages \in BOOLEAN :
              \/ \E number \in known \union {-1} :
                    SetThreadArea(t, number, base, limit, inPages)
              \/ \E number \in known : ModifyLdt(t, number, base, limit, inPages)
        \/ \E number \in known : GetThreadArea(t, number) \/ TrapGs(t, number)

LdtSpec == LdtInit /\ [][LdtNext]_lvars

-----------------------------------------------------------------------------
(* Properties                                                              *)

\* Entries belong to a thread, to none, or are markers.
LdtTypeOK ==
    /\ \A i \in Index : /\ entry[i].thread \in Tid \union {0, Marker}
                        /\ entry[i].number \in Index \union {0}
                        /\ entry[i].base \in Base \union {Unset}
    /\ known \subseteq Index /\ gs \in [Tid -> Index \union {0}]

\* A thread reads back what it set itself, whatever other threads set under
\* the same number and however many entries the lookups made
\* (CalculateLDTEntryForThread, "determines the correct value for any given
\* LDT entry for a Thread").
ReadsOwn ==
    \A t \in Tid, i \in known :
        mine[t][i] # Unset => GetLDTSelector(entry, t, i).base = mine[t][i]

\* GS never holds another thread's entry: after the trap it is the thread's
\* own, a marker, or 0 because the table is full.
GsIsOwn ==
    \A t \in Tid : gs[t] # 0 => entry[gs[t]].thread \in {t, Marker}

\* What SetLDTSelector hands to Windows keeps to the NT rules wherever some
\* limit does: a descriptor is refused only if its base leaves no room for the
\* smallest segment, a byte or a page.
RefusedForBase == \A r \in refused : ~Accepted(r.base, 0, r.inPages)

\* The shared table gives each thread the area it set.
OwnAreas == ReadsOwn /\ GsIsOwn /\ RefusedForBase
=============================================================================
