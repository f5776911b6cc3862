--------------------------- MODULE UploadContract ---------------------------
(***************************************************************************)
(* What an upload promises to its caller: Steam shows the old file or the  *)
(* whole new one, an upload replaces its file at most once, it may fail on *)
(* either side of that, and it succeeds only when Steam shows the new one. *)
(* SlotSync is built on this (PushUpload, PushVerify, OperationFails);     *)
(* CloudUpload implements it.                                              *)
(***************************************************************************)
CONSTANTS Names, Contents, None

VARIABLES
  shown,    \* name -> content Steam shows, or None
  job,      \* the upload under way: its name, content and whether it replaced the file; or None
  result    \* of the last upload

vars == << shown, job, result >>

Init ==
  /\ shown \in [Names -> Contents \cup {None}]
  /\ job = None
  /\ result = "none"

\* Another computer uploads or deletes.
Peer ==
  /\ \E n \in Names, c \in Contents \cup {None} : shown' = [shown EXCEPT ![n] = c]
  /\ UNCHANGED << job, result >>

Begin ==
  /\ job = None
  /\ \E n \in Names, c \in Contents : job' = [name |-> n, content |-> c, replaced |-> FALSE]
  /\ result' = "none"
  /\ UNCHANGED shown

Replace ==
  /\ job # None
  /\ ~job.replaced
  /\ shown' = [shown EXCEPT ![job.name] = job.content]
  /\ job' = [name |-> job.name, content |-> job.content, replaced |-> TRUE]
  /\ UNCHANGED result

Succeed ==
  /\ job # None
  /\ job.replaced
  /\ shown[job.name] = job.content
  /\ job' = None
  /\ result' = "ok"
  /\ UNCHANGED shown

Fail ==
  /\ job # None
  /\ job' = None
  /\ result' = "failed"
  /\ UNCHANGED shown

Next == Peer \/ Begin \/ Replace \/ Succeed \/ Fail

Spec == Init /\ [][Next]_vars
=============================================================================
