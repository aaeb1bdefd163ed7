-------------------------- MODULE AuthzSyncRestore --------------------------
(***************************************************************************)
(* AuthzSync when the backend's database is restored from a dump, or       *)
(* replaced by a fresh one, under an agent that keeps its cursor.  The     *)
(* restored log is another timeline: its revisions start over from the     *)
(* dump's, and a cursor of the old timeline names something else there.    *)
(***************************************************************************)
EXTENDS AuthzSync

CONSTANT MaxRestores   \* bound: how often the database is restored

ASSUME RestoreAssumption == MaxRestores \in Nat

VARIABLES backup,    \* the latest dump; at first the empty database
          restores,  \* restores so far
          on         \* history: is it of the database's present timeline?

rvars == <<vars, backup, restores, on>>

dump == [cur |-> authz_current, revs |-> authz_revisions, rev |-> rev,
         setAt |-> setAt, touched |-> touched]

RestoreInit ==
  /\ Init
  /\ backup = dump
  /\ restores = 0
  /\ on = [resp |-> TRUE, mem |-> TRUE, disk |-> TRUE]

\* pg_dump
Backup ==
  /\ restores < MaxRestores
  /\ backup # dump
  /\ backup' = dump
  /\ UNCHANGED <<vars, restores, on>>

\* The dump is loaded and the backend started on it: a parked long poll
\* ends without an answer and the memo of AuthzStatus is gone.
Restore ==
  /\ restores < MaxRestores
  /\ dump # backup
  /\ restores' = restores + 1
  /\ authz_current' = backup.cur
  /\ authz_revisions' = backup.revs
  /\ rev' = backup.rev
  /\ setAt' = backup.setAt
  /\ touched' = backup.touched
  /\ memo' = [rev |-> -1, set |-> {}]
  /\ IF pc = "wait" THEN ToIdle ELSE UNCHANGED <<pc, req, resp, plan>>
  /\ on' = [resp |-> FALSE, mem |-> FALSE, disk |-> FALSE]
  /\ UNCHANGED <<kernel, cursor, disk, forceFull, resync, usageVars, hpc, hb,
                 faults, cut, backup>>

-----------------------------------------------------------------------------
(* The steps of AuthzSync, with on kept up: a full set brings the agent to *)
(* the present timeline, a delta leaves it on the one its cursor is of.    *)

Answer == AnswerBody /\ on' = [on EXCEPT !.resp = resp'.full \/ on.mem]
Applied == Persist /\ on' = [on EXCEPT !.mem = on.resp, !.disk = on.resp]
AppliedInMemory == PersistFails /\ on' = [on EXCEPT !.mem = on.resp]
Saved == SaveRuntime /\ on' = [on EXCEPT !.disk = on.mem]
Restarted == (Crash \/ CrashCorrupt) /\ on' = [on EXCEPT !.mem = on.disk]

Kept ==
  /\ \/ Recompute \/ IngestRevokes \/ Compact
     \/ SyncRequest \/ AnswerUnchanged \/ ApplyList \/ ApplyRefused
     \/ ApplyBatch \/ ApplyRejected \/ GraceApply
     \/ UsageStep \/ HeartbeatStep
     \/ RequestFails \/ GraceList \/ NftFails \/ AckLost \/ HeartbeatFails \/ Flush
  /\ UNCHANGED on

SyncOrFault ==
  /\ Answer \/ Applied \/ AppliedInMemory \/ Saved \/ Restarted \/ Kept
  /\ UNCHANGED <<backup, restores>>

\* revRegressionError: ask for a full set next.
ApplyRegressed ==
  /\ pc = "answered"
  /\ Regressed(resp)
  /\ forceFull' = TRUE
  /\ ToIdle
  /\ UNCHANGED <<logVars, kernel, cursor, disk, resync, usageVars, hbVars, faults, cut,
                 backup, restores, on>>

RestoreNext == SyncOrFault \/ ApplyRegressed \/ Backup \/ Restore

RestoreSpec == RestoreInit /\ [][RestoreNext]_rvars

RestoreFairSpec ==
  /\ RestoreSpec
  /\ WF_<<pc, disk>>(SyncStep \/ ApplyRegressed)
  /\ WF_upc(UsageStep)
  /\ WF_hpc(HeartbeatStep)

-----------------------------------------------------------------------------
\* From the first full set the agent applies after a restore, its kernel set
\* mirrors the restored log as if nothing had happened: applyAuthz carries no
\* stray over and loses no member, although runSync still holds a cursor, an
\* answer or a usage ack of the old timeline when the restore happens.
MirrorsRestored == on.mem => StrayCovered /\ MissingExplained

\* The cursor goes back only with a full set (or with runtime.json, on a
\* restart): a delta of a restored log that is behind the cursor is refused
\* (revRegressionError) instead of being applied.
CursorBackOnlyByFull ==
  [][cursor' < cursor => resp.full \/ (cursor' \in {disk, 0} /\ forceFull')]_rvars

\* After the last restore the kernel set becomes the restored authorized set,
\* whether the restored revision is behind, at or past the cursor, without
\* the periodic reconcile: regression, drift and delta together cover all
\* three.  The mass-revoke guard may hold a full set back, as documented.
RestoreConverges == <>[](kernel = authz_current \/ Refused(FullSet, kernel))
=============================================================================
