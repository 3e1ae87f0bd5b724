----------------------------- MODULE MCSignals -----------------------------
(* Signals on a few signal numbers. *)
EXTENDS Signals

Act(h, oneshot, nodefer, sa_mask) ==
    [handler |-> h, oneshot |-> oneshot, nodefer |-> nodefer,
     sa_mask |-> sa_mask]

MCSig == {10, 12}
MCActions == {Act("IGN", FALSE, FALSE, {}), Act("FN", FALSE, FALSE, {}),
              Act("FN", TRUE, FALSE, {12}), Act("FN", FALSE, TRUE, {})}
MCMasks == {{10}, {12}}

\* An interrupt, and the signals that kill, stop and continue.
StopSig == {2, 9, 18, 19}
StopActions == {Act("IGN", FALSE, FALSE, {}), Act("FN", FALSE, FALSE, {9})}
StopMasks == {{9, 18}}
=============================================================================
