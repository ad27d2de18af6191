------------------------------ MODULE Replicas ------------------------------
(***************************************************************************)
(* What a replica keeps in its memory: its claim to lead the outbox        *)
(* workers, its signing keys, the checkpoints of imports and the variables *)
(* of a backfill.  They share no state, so that focus is the one that      *)
(* moves.                                                                  *)
(***************************************************************************)
EXTENDS WorkerLease, Keys, Imports, Backfill

VARIABLE focus

replicasVars == <<vars, keyVars, importVars, backfillVars, focus>>

ReplicasInit ==
    /\ Init /\ KeyInit /\ ImportInit /\ BackfillInit
    /\ focus \in {"lease", "keys", "imports", "backfill"}

LeaseStep == focus = "lease" /\ Next /\ UNCHANGED <<keyVars, importVars, backfillVars, focus>>

KeyStep == focus = "keys" /\ KeyNext /\ UNCHANGED <<vars, importVars, backfillVars, focus>>

ImportStep == focus = "imports" /\ ImportNext /\ UNCHANGED <<vars, keyVars, backfillVars, focus>>

BackfillStep == focus = "backfill" /\ BackfillNext /\ UNCHANGED <<vars, keyVars, importVars, focus>>

ReplicasNext == LeaseStep \/ KeyStep \/ ImportStep \/ BackfillStep

ReplicasSpec == ReplicasInit /\ [][ReplicasNext]_replicasVars
=============================================================================
