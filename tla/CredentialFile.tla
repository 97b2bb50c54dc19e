--------------------------- MODULE CredentialFile ---------------------------
(***************************************************************************)
(* PersistedCredentials::save, delete and load and the atomic_write they   *)
(* use (crates/daemon/src/persist.rs), on the file system it runs on:      *)
(* names refer to inodes, an open file keeps its inode when the name goes, *)
(* and a write starts at offset 0 of the inode it was opened on.           *)
(*                                                                         *)
(* A version of the credentials is a model value with a size; a file is a  *)
(* sequence of blocks, each marked with the version it was written from.   *)
(* It parses when it consists of all the blocks of one version.  config    *)
(* .json is written the same way, under another name.                      *)
(***************************************************************************)
EXTENDS Integers, Sequences, FiniteSets

CONSTANTS
    Writers,    \* calls of save that can be in progress at a time
    Data,       \* versions of the credentials
    Size,       \* blocks of each
    None,       \* no version, no file
    Garbage     \* a file that does not parse

ASSUME FileAssumption ==
    /\ IsFiniteSet(Writers)
    /\ Size \in [Data -> Nat \ {0}]
    /\ None \notin Data /\ Garbage \notin Data /\ Garbage # None

\* Enough for the two names and the files open under neither.
Inodes == 1 .. Cardinality(Writers) + 2

VARIABLES
    blocks,     \* the content of each inode
    tmp,        \* inode of credentials.tmp, 0 if there is none
    target,     \* inode of credentials.json, 0 if there is none
    pc,         \* where each save is
    data,       \* the version it saves
    fd          \* the inode it has open

vars == <<blocks, tmp, target, pc, data, fd>>

Pcs == {"idle", "open", "write", "chmod", "rename"}

TypeOK ==
    /\ blocks \in [Inodes -> Seq(Data)]
    /\ tmp \in Inodes \cup {0}
    /\ target \in Inodes \cup {0}
    /\ pc \in [Writers -> Pcs]
    /\ data \in [Writers -> Data \cup {None}]
    /\ fd \in [Writers -> Inodes \cup {0}]

Init ==
    /\ blocks = [i \in Inodes |-> <<>>]
    /\ tmp = 0
    /\ target = 0
    /\ pc = [w \in Writers |-> "idle"]
    /\ data = [w \in Writers |-> None]
    /\ fd = [w \in Writers |-> 0]

-----------------------------------------------------------------------------

\* serde_json::to_vec_pretty and from_slice
Whole(d) == [k \in 1 .. Size[d] |-> d]

Parse(content) ==
    IF \E d \in Data : content = Whole(d) THEN content[1] ELSE Garbage

\* PersistedCredentials::load
load == IF target = 0 THEN None ELSE Parse(blocks[target])

\* PersistedCredentials::save serializes first.
save(w, d) ==
    /\ pc[w] = "idle"
    /\ pc' = [pc EXCEPT ![w] = "open"]
    /\ data' = [data EXCEPT ![w] = d]
    /\ UNCHANGED <<blocks, tmp, target, fd>>

Unused(i) == i \notin {tmp, target} /\ \A w \in Writers : fd[w] # i

\* Mutant: the temporary file is not truncated.
Open_NoTruncate(w) ==
    /\ pc[w] = "open"
    /\ \E i \in Inodes :
          /\ IF tmp # 0 THEN i = tmp
             ELSE Unused(i) /\ \A j \in Inodes : Unused(j) => i <= j
          /\ tmp' = i
          /\ fd' = [fd EXCEPT ![w] = i]
          /\ blocks' = IF tmp # 0 THEN blocks ELSE [blocks EXCEPT ![i] = <<>>]
    /\ pc' = [pc EXCEPT ![w] = "write"]
    /\ UNCHANGED <<target, data>>

\* create(true).truncate(true): the inode of the name if there is one.
Open(w) ==
    /\ pc[w] = "open"
    /\ \E i \in Inodes :
          /\ IF tmp # 0 THEN i = tmp
             ELSE Unused(i) /\ \A j \in Inodes : Unused(j) => i <= j
          /\ tmp' = i
          /\ fd' = [fd EXCEPT ![w] = i]
          /\ blocks' = [blocks EXCEPT ![i] = <<>>]
    /\ pc' = [pc EXCEPT ![w] = "write"]
    /\ UNCHANGED <<target, data>>

\* A write from the start of the file leaves what is longer than it.
Overwrite(old, d) ==
    [k \in 1 .. (IF Size[d] < Len(old) THEN Len(old) ELSE Size[d]) |->
        IF k <= Size[d] THEN d ELSE old[k]]

\* write_all, sync_all and drop.
Write(w) ==
    /\ pc[w] = "write"
    /\ blocks' = [blocks EXCEPT ![fd[w]] = Overwrite(@, data[w])]
    /\ fd' = [fd EXCEPT ![w] = 0]
    /\ pc' = [pc EXCEPT ![w] = "chmod"]
    /\ UNCHANGED <<tmp, target, data>>

Ends(w) ==
    /\ pc' = [pc EXCEPT ![w] = "idle"]
    /\ data' = [data EXCEPT ![w] = None]

\* set_permissions goes by name: it fails when the name is gone.
Chmod(w) ==
    /\ pc[w] = "chmod"
    /\ IF tmp = 0 THEN Ends(w)
       ELSE pc' = [pc EXCEPT ![w] = "rename"] /\ UNCHANGED data
    /\ UNCHANGED <<blocks, tmp, target, fd>>

Rename(w) ==
    /\ pc[w] = "rename"
    /\ IF tmp = 0 THEN UNCHANGED <<tmp, target>>
       ELSE target' = tmp /\ tmp' = 0
    /\ Ends(w)
    /\ UNCHANGED <<blocks, fd>>

\* An open, a write or a sync that fails ends the save where it is.
SaveFails(w) ==
    /\ pc[w] \in {"open", "write", "chmod", "rename"}
    /\ Ends(w)
    /\ fd' = [fd EXCEPT ![w] = 0]
    /\ UNCHANGED <<blocks, tmp, target>>

\* PersistedCredentials::delete; a missing file is no error.
delete ==
    /\ target' = 0
    /\ UNCHANGED <<blocks, tmp, pc, data, fd>>

\* The process is killed and started again; what is on disk stays.
Crash ==
    /\ pc' = [w \in Writers |-> "idle"]
    /\ data' = [w \in Writers |-> None]
    /\ fd' = [w \in Writers |-> 0]
    /\ UNCHANGED <<blocks, tmp, target>>

Next ==
    \/ \E w \in Writers :
          \/ \E d \in Data : save(w, d)
          \/ Open(w) \/ Write(w) \/ Chmod(w) \/ Rename(w) \/ SaveFails(w)
    \/ delete
    \/ Crash

Spec == Init /\ [][Next]_vars

-----------------------------------------------------------------------------
(* Properties *)

\* "Atomically write": at any moment, and so after a crash at any moment, the
\* next start of the daemon can load the credentials, or finds none.
Loadable == load # Garbage

\* The steps of a save, with the version visible at the rename, implement the
\* file that is replaced in one step.
Abstract == INSTANCE AtomicFile WITH file <- load, saving <- data
ImplementsAtomicFile == Abstract!Spec

=============================================================================
