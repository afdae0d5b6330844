-------------------------------- MODULE Mirror --------------------------------
(***************************************************************************)
(* What the sync engine promises of the local mirror, whatever happens in  *)
(* between: the committed files table and the committed page token change  *)
(* together, in one step, and whatever the table has wrong is still told   *)
(* by Drive's change log after the token, or has changed outside My Drive  *)
(* since the last full listing.  No processes, no pages, no crashes: those *)
(* are SyncEngine's, which implements this specification for one process   *)
(* at a time and one account.                                              *)
(***************************************************************************)
EXTENDS Integers

CONSTANTS Files, MaxClock

VARIABLES clock, ver, kind, log, rows, token, listed

vars == <<clock, ver, kind, log, rows, token, listed>>

Absent == 0
NoToken == -1

Visible(f) == IF kind[f] \in {"mine", "shared"} THEN ver[f] ELSE Absent
Told(f) == log[f] = "file" \/ (log[f] = "removed" /\ kind[f] = "gone")

Covers(copy, t, from) ==
  \A f \in Files : copy[f] # Visible(f) => ver[f] > (IF Told(f) THEN t ELSE from)

Init ==
  /\ clock = 0
  /\ ver = [f \in Files |-> 0]
  /\ kind = [f \in Files |-> "gone"]
  /\ log = [f \in Files |-> "none"]
  /\ rows = [f \in Files |-> Absent]
  /\ token = NoToken
  /\ listed = 0

\* A file changes on Drive; in My Drive the log tells of it.
Change(f) ==
  /\ clock < MaxClock
  /\ clock' = clock + 1
  /\ ver' = [ver EXCEPT ![f] = clock + 1]
  /\ \E k \in {"mine", "shared", "trashed", "gone"}, e \in {"file", "removed", "none"} :
       /\ k = "mine" => e = "file"
       /\ kind[f] = "mine" => e # "none"
       /\ kind' = [kind EXCEPT ![f] = k]
       /\ log' = [log EXCEPT ![f] = e]
  /\ UNCHANGED <<rows, token, listed>>

\* A sync commits: any copy that a token not older than the last one covers.
Commit ==
  /\ token' \in {t \in 0 .. clock : t >= token}
  /\ listed' \in {t \in 0 .. token' : t >= listed}
  /\ rows' \in [Files -> 0 .. clock]
  /\ Covers(rows', token', listed')
  /\ UNCHANGED <<clock, ver, kind, log>>

Next == Commit \/ \E f \in Files : Change(f)

Spec == Init /\ [][Next]_vars

=============================================================================
