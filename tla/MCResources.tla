---------------------------- MODULE MCResources -----------------------------
(***************************************************************************)
(* Small instances, for TLC, of Descriptors, AddressSpace and Cons25. They *)
(* are checked side by side: "part" says which of them a behaviour is      *)
(* about, and the variables of the others keep their first values.         *)
(***************************************************************************)
EXTENDS Descriptors, AddressSpace, Cons25

VARIABLES
    part         \* which module this behaviour is one of

\* Programs: static, with an interpreter, a script, and three that fail.
Seg(v, m, f) == [vaddr |-> v, memsz |-> m, filesz |-> f, align |-> 2]
Program(type, dyn, start, interp, segs) ==
    [kind |-> type, dyn |-> dyn, entry |-> start, interp |-> interp, segs |-> segs]
MCImage ==
    [static |-> Program("elf", FALSE, 5, "", <<Seg(4, 1, 1), Seg(7, 2, 1)>>),
     ld     |-> Program("elf", TRUE, 1, "", <<Seg(0, 2, 2)>>),
     prog   |-> Program("elf", FALSE, 4, "ld", <<Seg(4, 3, 2)>>),
     script |-> Program("script", FALSE, 0, "static", <<>>),
     object |-> Program("object", FALSE, 0, "", <<>>),
     lost   |-> Program("elf", FALSE, 4, "gone", <<Seg(4, 2, 2)>>),
     gone   |-> Program("none", FALSE, 0, "", <<>>)]

MCInit ==
    /\ part \in {"descriptors", "space", "cons25"}
    /\ DescriptorsInit
    /\ IF part = "space" THEN SpaceInit
       ELSE /\ reserved = {} /\ committed = {} /\ allocs = <<>> /\ mmaps = <<>>
            /\ elf = NoElf /\ halted = FALSE /\ given = NoRange
    /\ Cons25Init

\* A step of one module.
OnlyDescriptors(step_) ==
    /\ part = "descriptors" /\ step_
    /\ UNCHANGED <<part, mvars, xvars>>
OnlyAddressSpace(step_) ==
    /\ part = "space" /\ step_
    /\ UNCHANGED <<part, dvars, xvars>>
OnlyCons25(step_) ==
    /\ part = "cons25" /\ step_
    /\ UNCHANGED <<part, dvars, mvars>>

MCNext ==
    \/ OnlyDescriptors(DescriptorsNext)
    \/ OnlyAddressSpace(SpaceNext)
    \/ OnlyCons25(Cons25Next)

MCvars == <<part, dvars, mvars, xvars>>

\* The fairness of each module's own specification: a behaviour is one of a
\* single module, so that one condition covers an action of each of them.
Fair1 == OnlyDescriptors(EndTransfer("p"))

Fair2 == OnlyDescriptors(EndTransfer("c"))

MCSpec ==
    /\ MCInit /\ [][MCNext]_MCvars
    /\ WF_MCvars(Fair1) /\ WF_MCvars(Fair2)

\* The variables of each module have their types.
MCTypeOK ==
    DescriptorsTypeOK /\ Cons25TypeOK /\ (part = "space" => SpaceTypeOK)

\* m_MemoryAllocations serves all that use it: what brk and mmap gave is memory,
\* all memory is recorded, exec frees it, and fork copies it.
MCMemoryServes == part = "space" => MemoryServes
=============================================================================
