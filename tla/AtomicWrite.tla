---------------------------- MODULE AtomicWrite ----------------------------
(***************************************************************************)
(* atomic::write_bytes (src/core/src/atomic.rs) replacing one file: a      *)
(* unique temporary file is created, filled, fsynced and renamed over the  *)
(* destination, and the directory is fsynced.  Any system call may fail,   *)
(* the app may be killed and the device may lose power between any two.    *)
(*                                                                         *)
(* What a power loss may leave is the set `survivors`: the contents the    *)
(* destination may be found with.                                          *)
(***************************************************************************)
CONSTANTS
  Contents,     \* complete contents of the file
  Torn          \* a file whose data did not all reach the disk

ASSUME TornAssumption == Torn \notin Contents

VARIABLES
  file,         \* what the destination reads as
  survivors,    \* what it may read as after a power loss
  temp,         \* the temporary file: "none", "partial", "written", "synced"
  wpc,          \* where write_bytes stands
  bytes,        \* what it writes
  before,       \* history: what the destination read as when it began
  outcome       \* history: how the last call ended: "none", "ok", "early", "late"

write == << file, survivors, temp, wpc, bytes, before, outcome >>

AtomicTypeOK ==
  /\ file \in Contents \cup {Torn}
  /\ survivors \in SUBSET (Contents \cup {Torn})
  /\ temp \in {"none", "partial", "written", "synced"}
  /\ wpc \in {"idle", "create", "fill", "sync", "rename", "sync_dir"}
  /\ bytes \in Contents
  /\ before \in Contents \cup {Torn}
  /\ outcome \in {"none", "ok", "early", "late"}

AtomicInit ==
  /\ file \in Contents
  /\ survivors = {file}
  /\ temp = "none"
  /\ wpc = "idle"
  /\ bytes = file
  /\ before = file
  /\ outcome = "none"

Begin(c) ==
  /\ wpc = "idle"
  /\ wpc' = "create"
  /\ bytes' = c
  /\ before' = file
  /\ outcome' = "none"
  /\ UNCHANGED << file, survivors, temp >>

\* The next system call fails: the temporary file is removed, if it can be,
\* and the error returned. An "early" failure is one before the rename.
Fails ==
  /\ wpc # "idle"
  /\ temp' \in {"none", temp}
  /\ wpc' = "idle"
  /\ outcome' = IF wpc = "sync_dir" THEN "late" ELSE "early"
  /\ UNCHANGED << file, survivors, bytes, before >>

\* Bug: the destination itself is opened for writing.
CreateInPlace ==
  /\ wpc = "create"
  /\ file' = Torn
  /\ temp' = "partial"
  /\ wpc' = "fill"
  /\ UNCHANGED << survivors, bytes, before, outcome >>

\* create_new under a fresh name: what an earlier kill has left is not in the way.
Create ==
  /\ wpc = "create"
  /\ temp' = "partial"
  /\ wpc' = "fill"
  /\ UNCHANGED << file, survivors, bytes, before, outcome >>

\* Bug: the temporary file is not synced before it is renamed.
FillUnsynced ==
  /\ wpc = "fill"
  /\ temp' = "written"
  /\ wpc' = "rename"
  /\ UNCHANGED << file, survivors, bytes, before, outcome >>

Fill ==
  /\ wpc = "fill"
  /\ temp' = "written"
  /\ wpc' = "sync"
  /\ UNCHANGED << file, survivors, bytes, before, outcome >>

Sync ==
  /\ wpc = "sync"
  /\ temp' = "synced"
  /\ wpc' = "rename"
  /\ UNCHANGED << file, survivors, bytes, before, outcome >>

\* Bug: success is reported before the directory is synced.
RenameAndReturn ==
  /\ wpc = "rename"
  /\ file' = bytes
  /\ survivors' = survivors \cup {bytes}
  /\ temp' = "none"
  /\ wpc' = "idle"
  /\ outcome' = "ok"
  /\ UNCHANGED << bytes, before >>

\* The rename may reach the disk at any time from now on, and so may the data
\* of a file that was not synced.
Rename ==
  /\ wpc = "rename"
  /\ file' = IF temp = "partial" THEN Torn ELSE bytes
  /\ survivors' = survivors \cup {file'} \cup (IF temp = "synced" THEN {} ELSE {Torn})
  /\ temp' = "none"
  /\ wpc' = "sync_dir"
  /\ UNCHANGED << bytes, before, outcome >>

\* fsync_directory. The rename is taken to be on the disk when libc::fsync returns;
\* on iOS that is less than the F_FULLFSYNC of sync_all, and the device may hold it
\* in its cache a little longer.
SyncDirectory ==
  /\ wpc = "sync_dir"
  /\ survivors' = {file}
  /\ wpc' = "idle"
  /\ outcome' = "ok"
  /\ UNCHANGED << file, temp, bytes, before >>

\* The process dies; the files are as the calls left them.
Killed ==
  /\ wpc' = "idle"
  /\ outcome' = "none"
  /\ UNCHANGED << file, survivors, temp, bytes, before >>

\* The device goes down: one of the survivors is what is found.
PowerLost ==
  /\ file' \in survivors
  /\ survivors' = {file'}
  /\ wpc' = "idle"
  /\ outcome' = "none"
  /\ UNCHANGED << temp, bytes, before >>

WriteStep == Fails \/ Create \/ Fill \/ Sync \/ Rename \/ SyncDirectory
Crash     == Killed \/ PowerLost

AtomicNext == (\E c \in Contents : Begin(c)) \/ WriteStep \/ Crash

AtomicSpec == AtomicInit /\ [][AtomicNext]_write

-----------------------------------------------------------------------------
(* Properties. *)

\* The destination is never torn: it reads as a complete content, and would
\* after a power loss at any moment.
NeverTorn == file # Torn /\ Torn \notin survivors

\* write_bytes returns Ok only when the new content would survive a power loss.
OkIsDurable == outcome = "ok" => file = bytes /\ survivors = {bytes}

\* "Any failure before rename leaves the previous save untouched" (README).
EarlyFailureKeepsFile == outcome = "early" => file = before

\* While a write runs, the destination is what it was or what is written.
OldOrNew == wpc # "idle" => file \in {before, bytes}
=============================================================================
