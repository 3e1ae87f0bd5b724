-------------------------------- MODULE Ids ---------------------------------
(***************************************************************************)
(* The user and group ids and the umask of a process: setreuid, setregid   *)
(* (and their 32-bit names), umask, fork's copy, and the calls on files'   *)
(* modes and owners, which change nothing.  The saved ids are 0 from the   *)
(* constructor on: no call sets them.                                      *)
(***************************************************************************)
EXTENDS Integers

CONSTANTS
    Id,        \* user and group ids, with 0
    Mask       \* umasks

ASSUME IdsConstants == Id \subseteq Nat /\ 0 \in Id

VARIABLES
    uids,      \* m_uid and m_euid
    gids,      \* m_gid and m_egid
    umask,     \* m_umask
    asked,     \* history: the call made last, its arguments
    eax        \* history: and what it returned

ivars == <<uids, gids, umask, asked, eax>>

None == -1
SavedId == 0

\* The constructor; 18 is 022.
IdsInit ==
    /\ uids = [real |-> 0, eff |-> 0] /\ gids = [real |-> 0, eff |-> 0]
    /\ umask \in Mask
    /\ asked = <<"none", None, None>> /\ eax = "0"

IsRoot(u) == u.real = 0 \/ u.eff = 0

\* The two tests of a call that sets ids: root, before and after the real id
\* is set (for user ids that can end it), or for the effective one an id the
\* process has.
SetsReal(r, root) == r # None /\ root

SetsEff(e, own, root) == e # None /\ (root \/ e \in {own.real, own.eff, SavedId})

Answer(real, eff) == IF real \/ eff THEN "0" ELSE "EPERM"

\* Mutant of Setreuid: the effective id first.
SetreuidSwapped(r, e) ==
    LET eff  == SetsEff(e, uids, IsRoot(uids))
        mid  == IF eff THEN [uids EXCEPT !.eff = e] ELSE uids
        real == SetsReal(r, IsRoot(mid))
    IN /\ uids' = IF real THEN [mid EXCEPT !.real = r] ELSE mid
       /\ eax' = Answer(real, eff)
       /\ asked' = <<"uid", r, e>>
       /\ UNCHANGED <<gids, umask>>

Setreuid(r, e) ==
    LET real == SetsReal(r, IsRoot(uids))
        mid  == IF real THEN [uids EXCEPT !.real = r] ELSE uids
        eff  == SetsEff(e, mid, IsRoot(mid))
    IN /\ uids' = IF eff THEN [mid EXCEPT !.eff = e] ELSE mid
       /\ eax' = Answer(real, eff)
       /\ asked' = <<"uid", r, e>>
       /\ UNCHANGED <<gids, umask>>

Setregid(r, e) ==
    LET real == SetsReal(r, IsRoot(uids))
        mid  == IF real THEN [gids EXCEPT !.real = r] ELSE gids
        eff  == SetsEff(e, mid, IsRoot(uids))
    IN /\ gids' = IF eff THEN [mid EXCEPT !.eff = e] ELSE mid
       /\ eax' = Answer(real, eff)
       /\ asked' = <<"gid", r, e>>
       /\ UNCHANGED <<uids, umask>>

Umask(m) ==
    /\ umask' = m
    /\ asked' = <<"umask", None, None>> /\ eax' = "0"
    /\ UNCHANGED <<uids, gids>>

\* chmod, fchmod, chown, lchown, fchown and the 32-bit names: "pretent we
\* worked".
Chmod ==
    /\ asked' = <<"chmod", None, None>> /\ eax' = "0"
    /\ UNCHANGED <<uids, gids, umask>>

\* The child of fork goes on with a copy.
ForkCopy ==
    /\ uids' = uids /\ gids' = gids /\ umask' = umask
    /\ asked' = <<"fork", None, None>> /\ eax' = "0"

IdsNext ==
    \/ \E r, e \in Id \cup {None} : Setreuid(r, e) \/ Setregid(r, e)
    \/ \E m \in Mask : Umask(m)
    \/ Chmod \/ ForkCopy

IdsSpec == IdsInit /\ [][IdsNext]_ivars

-----------------------------------------------------------------------------
\* The ids and the umask that the sys_set* calls leave have their types.
IdsTypeOK ==
    /\ uids \in [real : Id, eff : Id] /\ gids \in [real : Id, eff : Id]
    /\ umask \in Mask

\* A setreuid or setregid that answers EPERM has changed no id.
RefusedKeeps == [][eax' = "EPERM" => UNCHANGED <<uids, gids>>]_ivars

\* setreuid of a process whose effective id is root's sets both ids it is
\* given: setting the real one first does not take the right to set the other.
\* A process that is root by its real id only can end up with half of it.
RootSetsBoth ==
    [][\A r, e \in Id : asked' = <<"uid", r, e>> /\ uids.eff = 0 =>
           uids' = [real |-> r, eff |-> e]]_ivars

\* setreuid and setregid decide on two ids one after the other: they set none
\* where they refuse, and both where root asks.
SetsBothOrNone == RefusedKeeps /\ RootSetsBoth
=============================================================================
