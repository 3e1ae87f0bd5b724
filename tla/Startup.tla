------------------------------ MODULE Startup -------------------------------
(***************************************************************************)
(* The kernel's start: ParseCommandLine, the handling of the arguments,    *)
(* the mounts made at boot, and the arguments init is started with.        *)
(*                                                                         *)
(* Characters are a blank, the double quote, "=" and letters; a letter     *)
(* stands for a name, "r" for root, "i" for init, "d" for the three other  *)
(* handlers, and any other letter for no handler's name.                   *)
(***************************************************************************)
EXTENDS Integers, Sequences, FiniteSets, SequencesExt

CONSTANTS
    CmdLines,      \* command lines: sequences of characters
    Dirs,          \* the values that name an existing directory
    MaxArgs,       \* s_InitMaxArgs
    Drives         \* the letters of s_pszAutoMount, as a sequence

VARIABLES
    line,      \* lpCmdLine
    stage,        \* where WinMain is
    pos,       \* the character pArg or p points at
    quoted,    \* inQuote
    word,      \* the argument being collected
    argList,      \* the list of arguments, then those still to be handled
    all,       \* history: the whole list
    initArgs,  \* s_InitArguments, as far as they are set
    root,      \* m_FilesystemRoot
    mounted,    \* m_MountPoints, in order
    argc       \* m_ArgCnt of init; -1: counted past the array's end

uvars == <<line, stage, pos, quoted, word, argList, all, initArgs, root, mounted, argc>>

NoDir == <<>>

StartupInit ==
    /\ line \in CmdLines
    /\ stage = "boot" /\ pos = 1 /\ quoted = FALSE /\ word = <<>>
    /\ argList = <<>> /\ all = <<>>
    /\ initArgs = <<<<"init">>>> /\ root = NoDir /\ mounted = <<>> /\ argc = 0

\* ValidateKernelTraps: an architecture of other page sizes halts.
ValidateKernelTraps(ok) ==
    /\ stage = "boot"
    /\ stage' = IF ok THEN "skip" ELSE "halt"
    /\ UNCHANGED <<line, pos, quoted, word, argList, all, initArgs, root, mounted, argc>>

Blank(c) == c = " "

-----------------------------------------------------------------------------
(* ParseCommandLine                                                        *)

\* while(pArg<pLineEnd), and the blanks before an argument; they end at the
\* terminating zero at the latest.
SkipBlanks ==
    /\ stage = "skip"
    /\ IF pos > Len(line)
       THEN /\ stage' = "args" /\ all' = argList
            /\ UNCHANGED <<pos, word, quoted>>
       ELSE /\ pos' = Min({i \in pos..(Len(line) + 1) :
                              i > Len(line) \/ ~Blank(line[i])})
            /\ word' = <<>> /\ quoted' = FALSE
            /\ stage' = "word"
            /\ UNCHANGED all
    /\ UNCHANGED <<line, argList, initArgs, root, mounted, argc>>

\* Mutant of WordGoesOn: a blank ends an argument, quoted or not.
WordGoesOnBare(c) == ~Blank(c)

WordGoesOn(c) == quoted \/ ~Blank(c)

\* One character, or the end of the argument.
CollectWord ==
    /\ stage = "word"
    /\ IF pos <= Len(line) /\ WordGoesOn(line[pos])
       THEN /\ IF line[pos] = "\""
               THEN quoted' = ~quoted /\ UNCHANGED word
               ELSE word' = Append(word, line[pos]) /\ UNCHANGED quoted
            /\ pos' = pos + 1
            /\ UNCHANGED <<stage, argList>>
       ELSE /\ argList' = Append(argList, word)
            /\ pos' = pos + 1
            /\ stage' = "skip"
            /\ UNCHANGED <<word, quoted>>
    /\ UNCHANGED <<line, all, initArgs, root, mounted, argc>>

-----------------------------------------------------------------------------
(* ProcessCommandLine                                                      *)

Eq(a) == {i \in DOMAIN a : a[i] = "="}
ArgName(a) == IF Eq(a) = {} THEN a ELSE SubSeq(a, 1, Min(Eq(a)) - 1)
Val(a) == IF Eq(a) = {} THEN a ELSE SubSeq(a, Min(Eq(a)) + 1, Len(a))

Handled(a) == ArgName(a) \in {<<"r">>, <<"i">>, <<"d">>}

HasRoom == Len(initArgs) < MaxArgs

\* arg_root: a directory that is not there halts the kernel.
ArgRoot(v) ==
    IF v \in Dirs
    THEN /\ root' = v /\ mounted' = Append(mounted, <<"/", v>>)
         /\ argList' = Tail(argList)
         /\ UNCHANGED <<stage, initArgs>>
    ELSE stage' = "halt" /\ UNCHANGED <<argList, root, mounted, initArgs>>

\* The next argument: its handler, or one more argument for init.
ProcessArg ==
    /\ stage = "args" /\ argList # <<>>
    /\ LET a == Head(argList) IN
       \/ ArgName(a) = <<"r">> /\ ArgRoot(Val(a))
       \/ /\ ArgName(a) # <<"r">>
          /\ initArgs' = CASE ArgName(a) = <<"i">> -> [initArgs EXCEPT ![1] = Val(a)]
                           [] ~Handled(a) /\ HasRoom -> Append(initArgs, Val(a))
                           [] OTHER -> initArgs
          /\ argList' = Tail(argList)
          /\ UNCHANGED <<stage, root, mounted>>
    /\ UNCHANGED <<line, pos, quoted, word, all, argc>>

\* WinMain after the arguments.
ArgsDone ==
    /\ stage = "args" /\ argList = <<>>
    /\ stage' = IF root = NoDir THEN "halt" ELSE "drives"
    /\ pos' = 1
    /\ UNCHANGED <<line, quoted, word, argList, all, initArgs, root, mounted, argc>>

-----------------------------------------------------------------------------
(* AutoMountDrives                                                         *)

\* A drive is there or not, and its directory under /mnt can be made or not.
MountDrive(ok) ==
    /\ stage = "drives" /\ pos <= Len(Drives)
    /\ mounted' = IF ok THEN Append(mounted, <<"/mnt", Drives[pos]>>) ELSE mounted
    /\ pos' = pos + 1
    /\ UNCHANGED <<line, stage, quoted, word, argList, all, initArgs, root, argc>>

MountProcDev(proc, dev) ==
    /\ stage = "drives" /\ pos > Len(Drives)
    /\ mounted' = mounted \o (IF proc THEN <<<<"/proc", "">>>> ELSE <<>>)
                        \o (IF dev THEN <<<<"/dev", "">>>> ELSE <<>>)
    /\ stage' = "start"
    /\ UNCHANGED <<line, pos, quoted, word, argList, all, initArgs, root, argc>>

\* StartInit counts to the NULL.  An array that is full has none: what lies
\* behind it decides.  Without a handler thread the kernel halts.
StartInit ==
    /\ stage = "start"
    /\ argc' \in IF Len(initArgs) < MaxArgs THEN {Len(initArgs)}
                 ELSE {Len(initArgs), -1}
    /\ stage' \in {"booted", "halt"}
    /\ UNCHANGED <<line, pos, quoted, word, argList, all, initArgs, root, mounted>>

StartupNext ==
    \/ SkipBlanks \/ CollectWord \/ ProcessArg \/ ArgsDone \/ StartInit
    \/ \E ok \in BOOLEAN : ValidateKernelTraps(ok) \/ MountDrive(ok)
    \/ \E proc, dev \in BOOLEAN : MountProcDev(proc, dev)

StartupSpec == StartupInit /\ [][StartupNext]_uvars

-----------------------------------------------------------------------------
(* Properties                                                              *)

\* Positions, arguments and the root keep their types.
StartupTypeOK ==
    /\ stage \in {"boot", "skip", "word", "args", "drives", "start", "booted", "halt"}
    /\ pos \in 1..(Len(line) + Len(Drives) + 2)
    /\ Len(initArgs) \in 1..MaxArgs
    /\ root \in Dirs \cup {NoDir}

\* A blank outside quotes; the words are what lies between those.
Separates(i) ==
    Blank(line[i]) /\ Cardinality({j \in 1..i : line[j] = "\""}) % 2 = 0

Unquoted(s) == SelectSeq(s, LAMBDA c : c # "\"")

Starts == {i \in DOMAIN line : ~Separates(i) /\ (i = 1 \/ Separates(i - 1))}

EndOf(i) == Min({j \in i..(Len(line) + 1) : j > Len(line) \/ Separates(j)}) - 1

Words == [n \in 1..Cardinality(Starts) |->
             LET i == CHOOSE i \in Starts : Cardinality({j \in Starts : j < i}) = n - 1
             IN Unquoted(SubSeq(line, i, EndOf(i)))]

\* Blanks at the end of the line beyond one after the last word.
BlankTail == line # <<>> /\ Separates(Len(line))
             /\ (Len(line) = 1 \/ Separates(Len(line) - 1))

\* ParseCommandLine finds the words between unquoted blanks, quotes removed,
\* wherever the quotes are, and an empty argument for a tail of blanks.
ParsesWords ==
    stage = "args" /\ argList = all =>
        argList = Words \o (IF BlankTail THEN <<<<>>>> ELSE <<>>)

\* init is started with its name and the values of the arguments no handler
\* took, in their order, as many as s_InitArguments holds; and the first mount
\* is the root directory's.
InitGetsUnknown ==
    stage = "booted" =>
        /\ LET vals == [i \in DOMAIN all |-> <<Handled(all[i]), Val(all[i])>>]
               unknown == SelectSeq(vals, LAMBDA v : ~v[1])
           IN Tail(initArgs) = [i \in 1..Min({Len(unknown), MaxArgs - 1}) |-> unknown[i][2]]
        /\ mounted[1][1] = "/" /\ \E i \in DOMAIN mounted : mounted[i] = <<"/", root>>

\* The kernel's command line is taken apart and handed on as it was written.
CommandLineObeyed == ParsesWords /\ InitGetsUnknown
=============================================================================
