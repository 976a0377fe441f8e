---------------------------- MODULE ReleaseGate ----------------------------
(***************************************************************************)
(* What the download manager promises about files under their final names: *)
(* a file appears there only with exactly the bytes for which a decision   *)
(* to release is in force, and each decision releases at most one file.    *)
(***************************************************************************)
CONSTANTS Files, Contents, None

VARIABLES
  released,  \* the content under each final name, None when there is none
  cleared    \* the contents with a decision to release in force

gateVars == <<released, cleared>>

Init == released = [f \in Files |-> None] /\ cleared = {}

Clear(c) == cleared' = {c} /\ UNCHANGED released

\* A decision lapses when the process dies, the bytes change or a file
\* operation fails.
Lapse == cleared' = {} /\ UNCHANGED released

\* A file being replaced is gone before its successor appears.
Remove(f) == released' = [released EXCEPT ![f] = None] /\ UNCHANGED cleared

Release(f) ==
  /\ \E c \in cleared : released' = [released EXCEPT ![f] = c]
  /\ cleared' = {}

Next ==
  \/ \E c \in Contents : Clear(c)
  \/ Lapse
  \/ \E f \in Files : Remove(f) \/ Release(f)

Spec == Init /\ [][Next]_gateVars
=============================================================================
