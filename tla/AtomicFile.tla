----------------------------- MODULE AtomicFile -----------------------------
(***************************************************************************)
(* What atomic_write of crates/daemon/src/persist.rs promises ("Atomically *)
(* write `data` to `path`"): whoever opens the file finds the whole of one *)
(* version or no file at all, whatever is being saved at the time and      *)
(* wherever the process is killed.                                         *)
(***************************************************************************)
CONSTANTS
    Writers,   \* saves that can be in progress at a time
    Data,      \* versions that may be saved
    None       \* no file; nothing being saved

VARIABLES
    file,      \* what a reader finds
    saving     \* the version each writer is saving

vars == <<file, saving>>

Idle == [w \in Writers |-> None]

Init == file = None /\ saving = Idle

Begin(w, d) ==
    /\ saving[w] = None
    /\ saving' = [saving EXCEPT ![w] = d]
    /\ UNCHANGED file

\* The version is visible from here on.
Commit(w) ==
    /\ saving[w] # None
    /\ file' = saving[w]
    /\ saving' = [saving EXCEPT ![w] = None]

Fail(w) ==
    /\ saving[w] # None
    /\ saving' = [saving EXCEPT ![w] = None]
    /\ UNCHANGED file

Delete == file' = None /\ UNCHANGED saving

Crash == saving' = Idle /\ UNCHANGED file

Next ==
    \/ \E w \in Writers : (\E d \in Data : Begin(w, d)) \/ Commit(w) \/ Fail(w)
    \/ Delete
    \/ Crash

Spec == Init /\ [][Next]_vars

=============================================================================
