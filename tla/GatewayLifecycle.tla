-------------------------- MODULE GatewayLifecycle --------------------------
(***************************************************************************)
(* What a client of the agent may expect of the "state" that build_status  *)
(* reports: a session is created before its children run and outlives      *)
(* them, so the report never jumps between "locked" and "running".  The    *)
(* one exception is a child that was started from a manifest of another    *)
(* version: a later start drops that manifest under it.                    *)
(***************************************************************************)

VARIABLES
    state,
    dropped  \* has a recorded child lost its manifest?

Init == state \in {"locked", "manifest_ready"} /\ dropped = FALSE

\* A session comes and goes, and so does its child.
Follow(from, to) == state = from /\ state' = to /\ dropped = FALSE /\ dropped' = FALSE

Start        == Follow("locked", "manifest_ready")
RuntimeStart == Follow("manifest_ready", "running")
RuntimeStop  == Follow("running", "manifest_ready")
Lock         == Follow("manifest_ready", "locked")

\* The manifest of a child, be it gone or running, is dropped.
Drop ==
    /\ dropped = FALSE /\ dropped' = TRUE
    /\ \/ state = "running" /\ state' = "running"
       \/ state = "manifest_ready" /\ state' = "locked"

\* Without it the report says only whether something has the child's pid,
Jump == dropped = TRUE /\ dropped' = TRUE /\ state' \in {"locked", "running"}

\* until there is a new manifest, or the child is forgotten.
Resolve ==
    /\ dropped = TRUE /\ dropped' = FALSE
    /\ \/ state = "running" /\ state' \in {"running", "locked"}
       \/ state = "locked" /\ state' \in {"manifest_ready", "locked"}

Next == Start \/ RuntimeStart \/ RuntimeStop \/ Lock \/ Drop \/ Jump \/ Resolve

Spec == Init /\ [][Next]_<<state, dropped>>
=============================================================================
