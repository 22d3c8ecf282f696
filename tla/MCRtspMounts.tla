---------------------------- MODULE MCRtspMounts ----------------------------
(* Two cameras, one with detection: one can die while the other serves. Both on the V4L2
   path, where set-sync is possible, or one of them on Argus. *)
EXTENDS RtspMounts

MCSources == {[c \in Cameras |-> "v4l2"], [c \in Cameras |-> IF c = 0 THEN "argus" ELSE "v4l2"]}
=============================================================================
