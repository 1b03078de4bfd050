-------------------------- MODULE BackfillTrigger --------------------------
(***************************************************************************)
(* DefaultBackfillTrigger::next_range and the context it is asked with, as *)
(* pure operators.  A slot that is None is NoSlot (-1); a configuration is *)
(* a record                                                                *)
(*    [start, end, maxDepth, lag : slot or -1,  chunk : Nat]               *)
(* of which chunk is the constant 10_000 of the code.  u64 arithmetic that *)
(* saturates is modelled by what it does; no other sum can overflow below  *)
(* 2^64 - 1.                                                               *)
(***************************************************************************)
EXTENDS Integers

None == -1
OptionNat == Nat \union {None}

TriggerConfig ==
  [start : OptionNat, end : OptionNat, maxDepth : OptionNat,
   lag : OptionNat, chunk : Nat]

NoRange == [start |-> None, end |-> None]

Least(a, b) == IF a <= b THEN a ELSE b
Greatest(a, b) == IF a >= b THEN a ELSE b

SaturatingSub(a, b) == IF a >= b THEN a - b ELSE 0

\* Slots behind the latest finalized slot; all of them before any progress.
CurrentLag(latest, last) ==
  IF last # None THEN SaturatingSub(latest, last) ELSE latest

ShouldBackfillByLag(config, latest, last) ==
  config.lag # None => CurrentLag(latest, last) > config.lag

\* Mutants: resume at the last slot instead of after it; ignore the progress.
StartSlot_Overlap(config, last) ==
  IF last = None THEN Greatest(config.start, 0) ELSE last
StartSlot_FromScratch(config, last) == Greatest(config.start, 0)

\* With a configured start and some progress the code takes the smaller of
\* config_start and last + 1.
StartSlot(config, last) ==
  IF config.start # None
  THEN IF last # None THEN Least(config.start, last + 1) ELSE config.start
  ELSE IF last # None THEN last + 1 ELSE 0

\* A mutant: the latest finalized slot is left for later.
EndSlot_Exclusive(config, latest, start) ==
  IF config.end # None THEN config.end ELSE SaturatingSub(latest, 1)

EndSlot(config, latest, start) ==
  IF config.end # None THEN config.end
  ELSE IF config.maxDepth # None
       THEN Greatest(SaturatingSub(latest, config.maxDepth), start)
       ELSE latest

\* max_depth is only consulted when the range starts deeper than it allows:
\* then the end is clamped to the latest finalized slot, the start is not.
ClampedEnd(config, latest, start, end) ==
  IF config.maxDepth # None /\ start < SaturatingSub(latest, config.maxDepth)
  THEN Least(end, latest) ELSE end

BeyondDepth(config, latest, start, end) ==
  /\ config.maxDepth # None
  /\ start < SaturatingSub(latest, config.maxDepth)
  /\ Least(end, latest) < SaturatingSub(latest, config.maxDepth)

NextRange(config, latest, last) ==
  LET start   == StartSlot(config, last)
      end     == EndSlot(config, latest, start)
      clamped == ClampedEnd(config, latest, start, end)
  IN  IF \/ ~ShouldBackfillByLag(config, latest, last)
         \/ end < start
         \/ BeyondDepth(config, latest, start, end)
      THEN NoRange
      ELSE [start |-> start, end |-> Least(clamped, start + config.chunk)]
=============================================================================
