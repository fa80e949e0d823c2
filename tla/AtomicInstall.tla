--------------------------- MODULE AtomicInstall ---------------------------
(***************************************************************************)
(* What the updater promises to whoever launches the app: an update is     *)
(* pending from the moment it is journaled, and ends by installing the     *)
(* whole of its release or by leaving the files exactly as they were.      *)
(***************************************************************************)
CONSTANTS Release, NoRelease, Payload

VARIABLES files,    \* the installation as of the last settled transaction
          pending   \* the release being installed, or NoRelease

Init == /\ files \in {Payload[r] : r \in Release}
        /\ pending = NoRelease

Begin(r) == /\ pending = NoRelease
            /\ pending' = r
            /\ UNCHANGED files

Commit == /\ pending # NoRelease
          /\ files' = Payload[pending]
          /\ pending' = NoRelease

Abort == /\ pending # NoRelease
         /\ pending' = NoRelease
         /\ UNCHANGED files

Next == (\E r \in Release : Begin(r)) \/ Commit \/ Abort

vars == <<files, pending>>

Spec == Init /\ [][Next]_vars
=============================================================================
