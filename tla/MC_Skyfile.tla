------------------------------ MODULE MC_Skyfile ------------------------------
(* Small instances of Skyfile: two callers, two skylinks, and one existing *)
(* siafile that lists one of them.                                          *)
(* In the instance of the outcome property, the second caller uploads over *)
(* the existing siafile, so a failed upload whose path was taken before it *)
(* (refused without Force, or replaced with Force) is reached.             *)
EXTENDS SkyfileProofs

CONSTANTS c1, c2, l1, l2, p1, p3, p4, ps, none

MCCallers == {c1, c2}
MCLinks == {l1, l2}
MCPaths == {p1, p3, p4, ps}
MCSources == {ps}
MCInitLinks == [s \in {ps} |-> {l2}]
MCRestorePath == [l \in MCLinks |-> IF l = l1 THEN p3 ELSE p4]

\* Every caller uploads to a siapath of its own; c2's is the existing one.
MCCallerPath == [c \in MCCallers |-> IF c = c1 THEN p1 ELSE ps]

\* Both callers upload to the same siapath.
MCSharedPath == [c \in MCCallers |-> p1]
=============================================================================
