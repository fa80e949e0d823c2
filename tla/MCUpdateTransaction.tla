------------------------ MODULE MCUpdateTransaction ------------------------
(* Two releases: the updater and the manifest differ, `added' is new in the
   second release and `dropped' only in the first; `added' sorts before them. *)
EXTENDS UpdateTransaction

CONSTANTS manifest, updater, added, dropped, v1, v2, absent,
          m1, m2, u1, u2, a2, b1

MCPath == {manifest, updater, added, dropped}
MCRelease == {v1, v2}
MCBytes == {m1, m2, u1, u2, a2, b1}

MCRank == [p \in MCPath |-> CASE p = added -> 1 [] p = dropped -> 2
                              [] p = updater -> 3 [] p = manifest -> 4]

MCPayload ==
    [r \in MCRelease |-> [p \in MCPath |->
        CASE p = manifest -> IF r = v1 THEN m1 ELSE m2
          [] p = updater  -> IF r = v1 THEN u1 ELSE u2
          [] p = added    -> IF r = v1 THEN absent ELSE a2
          [] p = dropped  -> IF r = v1 THEN b1 ELSE absent]]
=============================================================================
