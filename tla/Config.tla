------------------------------- MODULE Config -------------------------------
(***************************************************************************)
(* SolanaIndexerConfigBuilder and the configuration it builds.  A builder  *)
(* is a record of optional fields; every setter takes one and returns one. *)
(* URLs, keys of providers and thresholds are not told apart.              *)
(***************************************************************************)
EXTENDS Integers, Sequences

CONSTANTS
  Unset,        \* None
  ProgramIds,   \* strings that parse as a public key
  BadId         \* a string that does not

ASSUME ConfigAssumption ==
  BadId \notin ProgramIds /\ Unset \notin ProgramIds /\ Unset \notin Nat

Mode(inputs, logs, accounts) ==
  [inputs |-> inputs, logs |-> logs, accounts |-> accounts]

\* IndexingMode::inputs(), logs(), accounts() and all().
IndexingModes ==
  [inputs |-> Mode(TRUE, FALSE, FALSE), logs |-> Mode(FALSE, TRUE, FALSE),
   accounts |-> Mode(FALSE, FALSE, TRUE), all |-> Mode(TRUE, TRUE, TRUE)]

\* RegistryConfig: how many entries each registry may hold, 0 for any number.
\* Both handler registries take their limit from max_handlers.
Unlimited == [input |-> 0, log |-> 0, account |-> 0, handler |-> 0, backfill |-> 0]

DefaultRetries == 5

\* SourceConfig: the intervals and sizes that the sources keep for themselves.
Source(kind, poll, batch) == [kind |-> kind, poll |-> poll, batch |-> batch]

StreamKinds == {"websocket", "helius_websocket", "helius_rpc", "hybrid", "laserstream"}

\* The URL every RPC request goes to.
RpcEndpoint(source) ==
  CASE source.kind \in {"rpc", "websocket", "hybrid"} -> "rpc_url"
    [] source.kind \in {"helius_websocket", "helius_rpc"} -> "helius"
    [] source.kind = "laserstream" -> "grpc_url"

Or(value, default) == IF value = Unset THEN default ELSE value

-----------------------------------------------------------------------------
(* The builder.                                                            *)

NewBuilder ==
  [database |-> FALSE, program_ids |-> Unset, accounts |-> Unset, poll |-> Unset,
   batch |-> Unset, source |-> Unset, strategy |-> Unset, mode |-> Unset,
   registry |-> Unset, workers |-> Unset, retries |-> Unset]

WithRpc(b) == [b EXCEPT !.source = Source("rpc", Or(b.poll, 5), Or(b.batch, 100))]

\* with_ws, with_helius, with_helius_network and with_laserstream.
WithStream(b, kind) == [b EXCEPT !.source = Source(kind, Unset, Unset)]

\* with_hybrid: an interval of its own.
WithHybrid(b, secs) == [b EXCEPT !.source = Source("hybrid", secs, Unset)]

HasRpc(b) == b.source # Unset /\ b.source.kind = "rpc"

\* A mutant: a source that is already set keeps its interval.
WithPollInterval_Forgets(b, secs) == [b EXCEPT !.poll = secs]

WithPollInterval(b, secs) ==
  [b EXCEPT !.poll = secs, !.source = IF HasRpc(b) THEN [@ EXCEPT !.poll = secs] ELSE @]

WithBatchSize(b, size) ==
  [b EXCEPT !.batch = size, !.source = IF HasRpc(b) THEN [@ EXCEPT !.batch = size] ELSE @]

WithDatabase(b) == [b EXCEPT !.database = TRUE]

\* program_id adds one, program_ids replaces them all.
AddProgram(b, id) == [b EXCEPT !.program_ids = Append(Or(@, <<>>), id)]
SetPrograms(b, ids) == [b EXCEPT !.program_ids = ids]

AccountsToDecode(b, ids) == [b EXCEPT !.accounts = ids]

\* A signature that does not parse is ignored.
WithStartSignature(b, parses) ==
  [b EXCEPT !.strategy = IF parses THEN "signature" ELSE @]

\* The setters that only assign their field.
With(b, field, value) == [b EXCEPT ![field] = value]

-----------------------------------------------------------------------------
(* build().                                                                *)

Parse(ids) == \A i \in DOMAIN ids : ids[i] \in ProgramIds

Buildable(b) ==
  /\ b.database
  /\ b.program_ids # Unset /\ Parse(b.program_ids)
  /\ Parse(Or(b.accounts, <<>>))
  /\ b.source # Unset

Built(b) ==
  [poll |-> Or(b.poll, 5), batch |-> Or(b.batch, 100), source |-> b.source,
   program_ids |-> b.program_ids, accounts |-> Or(b.accounts, <<>>),
   strategy |-> Or(b.strategy, "latest"), mode |-> Or(b.mode, IndexingModes.all),
   registry |-> Or(b.registry, Unlimited), workers |-> Or(b.workers, 10),
   retries |-> Or(b.retries, DefaultRetries)]
=============================================================================
