------------------------------ MODULE Upgrade ------------------------------
(***************************************************************************)
(* What opening a snapshot file promises, without migrations or steps: a   *)
(* file of an older build is served or refused, and is replaced as a whole *)
(* by one of this build or not at all, except by a crash while it is       *)
(* replaced.  A file of this build is always served and never touched      *)
(* again; what a crash left of a file is never served.                     *)
(***************************************************************************)
VARIABLES
    disk,   \* the file: "old", "current" or "torn"
    mode    \* the program: "idle", "saving", "served" or "refused"

vars == <<disk, mode>>

Init == disk \in {"old", "current"} /\ mode = "idle"

Serve == mode = "idle" /\ disk # "torn" /\ mode' = "served" /\ UNCHANGED disk

Refuse == mode = "idle" /\ disk # "current" /\ mode' = "refused" /\ UNCHANGED disk

StartSave == mode = "idle" /\ disk = "old" /\ mode' = "saving" /\ disk' = "torn"

FinishSave == mode = "saving" /\ mode' = "served" /\ disk' = "current"

Crash == mode = "saving" /\ mode' = "idle" /\ disk' \in {"torn", "current"}

Close == mode \in {"served", "refused"} /\ mode' = "idle" /\ UNCHANGED disk

Next == Serve \/ Refuse \/ StartSave \/ FinishSave \/ Crash \/ Close

Spec == Init /\ [][Next]_vars
=============================================================================
