------------------------------- MODULE Recorder -------------------------------
(***************************************************************************)
(* What one capture promises whoever started it: every frame the kernel    *)
(* took before the stop is in the file the capture leaves, no frame is     *)
(* there twice or comes from nowhere, and the file is in timestamp order;  *)
(* or else the capture says that it did not keep the file, or something    *)
(* broke under it.  A frame is its place on the wire and a timestamp.      *)
(***************************************************************************)
EXTENDS Naturals, Sequences

CONSTANT Place

VARIABLES
  phase,   \* life of the capture
  got,     \* frames taken so far
  due,     \* frames taken before the stop
  broken,  \* the interface went away or the disk filled up
  file     \* what the capture leaves

vars == <<phase, got, due, broken, file>>

Places(s)  == {s[i].at : i \in DOMAIN s}
InOrder(s)  == \A i, j \in DOMAIN s : i < j => s[i].at # s[j].at /\ s[i].ts <= s[j].ts

Init ==
  /\ phase = "new"
  /\ got = {} /\ due = {} /\ broken = FALSE /\ file = <<>>

\* A capture that comes up may have been told to stop already.
Begin ==
  /\ phase = "new" /\ phase' \in {"on", "stopping"}
  /\ UNCHANGED <<got, due, broken, file>>

Take ==
  /\ phase \in {"new", "on", "stopping"}
  /\ \E p \in Place : p \notin got /\ got' = got \cup {p}
  /\ UNCHANGED <<phase, due, broken, file>>

Break ==
  /\ ~broken /\ phase \in {"new", "on", "stopping"} /\ broken' = TRUE
  /\ UNCHANGED <<phase, got, due, file>>

Stop ==
  /\ phase = "on" /\ phase' = "stopping"
  /\ due' = got
  /\ UNCHANGED <<got, broken, file>>

\* Without a stop only a broken capture ends.
Keep ==
  /\ phase = "stopping" \/ (phase = "on" /\ broken)
  /\ phase' = "kept"
  /\ InOrder(file') /\ Places(file') \subseteq got
  /\ ~broken => due \subseteq Places(file')
  /\ UNCHANGED <<got, due, broken>>

Lose ==
  /\ phase \in {"new", "on", "stopping"} /\ phase' = "lost"
  /\ UNCHANGED <<got, due, broken, file>>

Next == Begin \/ Take \/ Break \/ Stop \/ Keep \/ Lose

Spec == Init /\ [][Next]_vars

=============================================================================
