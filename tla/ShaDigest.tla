----------------------------- MODULE ShaDigest -----------------------------
(***************************************************************************)
(* What a caller of VersatSHA, or of sha256, is promised: the call returns *)
(* the digest of the message it was made with.                             *)
(***************************************************************************)
EXTENDS ShaBlocks

VARIABLES
    busy,       \* a call is in progress
    msg,        \* the message of the call in progress, or of the last one
    out         \* what the caller's buffer holds

vars == <<busy, msg, out>>

Init ==
    /\ busy = FALSE
    /\ msg = << >>
    /\ out = Garbage

Call ==
    /\ ~busy
    /\ busy' = TRUE
    /\ msg' \in Messages
    /\ UNCHANGED out

Return ==
    /\ busy
    /\ busy' = FALSE
    /\ out' = Digest(msg)
    /\ UNCHANGED msg

Next == Call \/ Return

Spec == Init /\ [][Next]_vars
============================================================================
