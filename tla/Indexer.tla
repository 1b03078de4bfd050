------------------------------- MODULE Indexer -------------------------------
(***************************************************************************)
(* SolanaIndexer::start: one process in which the RPC source, the backfill *)
(* manager and the cleanup of stale tentative rows work on the same tables *)
(* and the same chain.  The live and the backfill handlers are registered  *)
(* separately, so each of the two counts its own calls (handled, calls).   *)
(*                                                                         *)
(* The token is not cancelled here: it stops the manager and the cleanup,  *)
(* which nothing obliges to go on anyway, and the RPC source ignores it.   *)
(***************************************************************************)
EXTENDS Storage, Signatures, Process, BackfillTrigger

CONSTANTS
  Strategy, BatchSize, Workers, MaxRetries, Jobs, MaxHandled,          \* of LiveRpc
  Config, EntryPoint, Concurrency, InitialTentative, MaxCalls,         \* of Backfill
  StaleThreshold   \* config.stale_tentative_threshold (1000)

ASSUME IndexerAssumption ==
  /\ Strategy \in {"latest", "resume"} \union Sigs
  /\ BatchSize \in Nat \ {0} /\ Workers \in Nat \ {0}
  /\ MaxRetries \in Nat /\ MaxHandled \in Nat \ {0}
  /\ Config \in TriggerConfig /\ EntryPoint = "manager"
  /\ Concurrency \in Nat \ {0} /\ MaxCalls \in Nat \ {0}
  /\ InitialTentative \subseteq [Sigs -> TentativeRow \union {NoRow}]
  /\ StaleThreshold \in Nat

VARIABLES
  poll, job, handled, failed, dropped, origin,   \* of LiveRpc
  eng, task, calls, lost, missed, notified,      \* of Backfill
  cutoff,  \* the cleanup task: the cutoff it has computed, if any
  taken    \* history: how often a tentative row was deleted, per transaction

Live == INSTANCE LiveRpc
Backfill == INSTANCE Backfill

liveVars == <<poll, job, handled, failed, dropped, origin>>
backfillVars == <<eng, task, calls, lost, missed, notified>>
vars == <<tables, chainVars, processVars, liveVars, backfillVars, cutoff, taken>>

\* Type invariant.
TypeOK ==
  /\ Live!TypeOK /\ Backfill!BackfillTypeOK
  /\ cutoff \in Slots \union {NoSlot}
  /\ taken \in [Sigs -> 0..MaxHandled]

\* start returns when the RPC source does; the other tasks end with it.
Alive == poll.pc # "stopped"

-----------------------------------------------------------------------------
(* Each part takes its own steps.                                          *)

OnlyLive == UNCHANGED <<backfillVars, cutoff>>
OnlyBackfill == UNCHANGED <<liveVars, cutoff>>

PollStep ==
  /\ Live!PollStep
  /\ IF poll'.pc = "stopped"
     THEN Backfill!ResetEngine /\ cutoff' = NoSlot
     ELSE OnlyLive

JobStep(j) == Live!JobStep(j) /\ OnlyLive

EngineStep == Alive /\ Backfill!EngineStep /\ OnlyBackfill

TaskStep(sig) == Alive /\ Backfill!TaskStep(sig) /\ OnlyBackfill

-----------------------------------------------------------------------------
(* The cleanup task: cleanup_stale_tentative_transactions every minute.    *)
(* An error of either statement is only logged: nothing has happened.      *)

OnlyCleanup ==
  UNCHANGED <<chainVars, processVars, liveVars, backfillVars>>

\* The first statement: how far the processed table has come.
CleanupReads ==
  /\ Alive /\ cutoff = NoSlot
  /\ LastProcessedSlot >= StaleThreshold
  /\ cutoff' = LastProcessedSlot - StaleThreshold
  /\ UNCHANGED tables /\ OnlyCleanup

\* The second, with the cutoff of a moment ago.
CleanupDeletes ==
  /\ cutoff # NoSlot
  /\ DeleteStaleTentative(cutoff)
  /\ cutoff' = NoSlot
  /\ OnlyCleanup

-----------------------------------------------------------------------------
Init ==
  /\ Live!Init
  /\ Backfill!EngineInit
  /\ cutoff = NoSlot
  /\ taken = [sig \in Sigs |-> 0]

\* The process dies, or has stopped, and is started again.
Restart ==
  /\ NewProcess /\ Live!ResetLive /\ Backfill!ResetEngine
  /\ cutoff' = NoSlot
  /\ UNCHANGED <<tables, chainVars>>

ClusterStep == Live!ClusterStep /\ OnlyLive

Step ==
  \/ PollStep \/ (\E j \in Jobs : JobStep(j))
  \/ EngineStep \/ (\E sig \in Sigs : TaskStep(sig))
  \/ CleanupReads \/ CleanupDeletes
  \/ Restart \/ ClusterStep

Deleted(sig) == InTentative(sig) /\ tentative'[sig] = NoRow

Next ==
  /\ Step
  /\ taken' = [sig \in Sigs |->
                 IF Deleted(sig) THEN Least(taken[sig] + 1, MaxHandled) ELSE taken[sig]]

Spec == Init /\ [][Next]_vars

-----------------------------------------------------------------------------
(* Properties.                                                             *)

\* The manager and the engine trust the tables they read, the live source and
\* the cleanup write to them between any two of their statements and may end
\* them at any time.  What the backfill promises on its own it still promises:
\* a processed row has its block and never changes, whatever tentative rows of
\* another fork detect_reorg comes upon; only finalized blocks are stored; the
\* saved progress never runs ahead of the work nor goes back; announced ranges
\* are done, and no transaction twice.  NoOrphanProcessed is not among them: a
\* live job may insert the row of an orphan after detect_reorg has found none,
\* and mark_finalized promotes it under the block that replaced its own.  It
\* takes a commitment below "finalized" to do so.
BackfillUndisturbed ==
  /\ [](/\ Backfill!ProcessedHasBlock /\ Backfill!OnlyFinalizedStored
        /\ Backfill!SweptSlotsIndexed /\ Backfill!AnnouncedRangesIndexed
        /\ Backfill!HandledOncePerInterruption)
  /\ Backfill!ProcessedRowsImmutable /\ Backfill!ProgressNeverRegresses

\* Whoever writes, moves or deletes a row, and in whatever order their
\* statements interleave: a transaction that the database knows has been
\* through the handlers of the live source or of the backfill.
RecordedWasHandled ==
  \A sig \in Recorded : handled[sig] + calls[sig] > 0

\* A signature is received again after a crash, or once a reorganisation has
\* taken the checkpoint.  The live handlers then see the transaction again only
\* if a crash or an error has kept it from being recorded, or if its tentative
\* row has been taken away: rows are promoted, cleaned up and deleted between
\* the two statements of is_processed.
HandledOnceWhileKept ==
  \A sig \in Sigs : handled[sig] <= 1 + taken[sig] + Used("crash") + Used("db")
=============================================================================
