------------------------------ MODULE Pipeline ------------------------------
(***************************************************************************)
(* How an indexer is set up, and what process_transaction_core then does   *)
(* with one transaction: an application calls the builder, build, new, the *)
(* register functions and start; a source hands over a transaction; it is  *)
(* fetched, decoded, and its events go to their handlers one by one.       *)
(*                                                                         *)
(* Tasks share nothing here but the registries, which no longer change:    *)
(* one task stands for all of them.  The statements that record a          *)
(* transaction are in LiveRpc, Streams, FullStreams and Backfill; here     *)
(* recording is one step.                                                  *)
(***************************************************************************)
EXTENDS Config, Decoding, Retry

CONSTANTS
  Settings,          \* fields and values of With an application may ask for
  Registrations,     \* registrations it may attempt: [kind, key, item]
  MaxSettings,       \* bound: calls of the builder
  MaxRegistrations   \* bound: registrations accepted

ASSUME PipelineAssumption ==
  /\ MaxSettings \in Nat /\ MaxRegistrations \in Nat
  /\ Registrations \subseteq
       {r \in [kind : Kinds, key : Keys, item : Decoder \union Events] :
          r.item \in IF r.kind \in Handlers THEN Events ELSE Decoder}
  /\ \A s \in Settings :
       /\ s.field \in {"mode", "registry", "retries", "strategy", "workers"}
       /\ s.field = "registry" => s.value \in [Kinds -> Nat]
       /\ s.field = "retries" => s.value \in Nat

VARIABLES
  phase,    \* "build", "built", "register", "run", or "refused"
  setup,    \* the builder, then the configuration
  calls,    \* calls of the builder so far
  core      \* process_transaction_core

vars == <<registry, parser, phase, setup, calls, core>>

EventRecord == [kind : {"input", "log", "account"}, at : Nat \ {0}, event : Events]

NoTransaction ==
  [pc |-> "idle", tx |-> Unset, attempt |-> 0, todo |-> <<>>, done |-> <<>>,
   unread |-> FALSE, error |-> NoError]

CoreRecord ==
  [pc : {"idle", "fetch", "decode", "block", "input", "log", "accounts", "account",
         "mark", "recorded", "failed"},
   tx : Transactions \union {Unset}, attempt : Nat, todo : Seq(EventRecord),
   done : Seq(EventRecord), unread : BOOLEAN,
   error : [kind : {"none", "RetryExhausted", "Handler", "Database"}
                     \union PermanentErrors, attempts : Nat]]

\* Type invariant.
TypeOK ==
  /\ phase \in {"build", "built", "register", "run", "refused"}
  /\ calls \in 0..MaxSettings
  /\ RegistryTypeOK /\ ParserTypeOK
  /\ core \in CoreRecord

-----------------------------------------------------------------------------
(* Setting up.                                                             *)

OnlySetup == UNCHANGED <<registry, parser, core>>

Call(builder) ==
  /\ phase = "build" /\ calls < MaxSettings
  /\ setup' = builder /\ calls' = calls + 1
  /\ UNCHANGED phase /\ OnlySetup

ChooseSource ==
  \/ Call(WithRpc(setup))
  \/ \E kind \in StreamKinds \ {"hybrid"} : Call(WithStream(setup, kind))
  \/ Call(WithHybrid(setup, 2))

ChoosePolling == Call(WithPollInterval(setup, 2)) \/ Call(WithBatchSize(setup, 50))

ChoosePrograms ==
  \E id \in ProgramIds \union {BadId} :
    \/ Call(AddProgram(setup, id))
    \/ Call(SetPrograms(setup, <<id>>))
    \/ Call(AccountsToDecode(setup, <<id>>))

ChooseSetting ==
  \/ Call(WithDatabase(setup))
  \/ \E parses \in BOOLEAN : Call(WithStartSignature(setup, parses))
  \/ \E s \in Settings : Call(With(setup, s.field, s.value))

Build ==
  /\ phase = "build"
  /\ IF Buildable(setup)
     THEN phase' = "built" /\ setup' = Built(setup)
     ELSE phase' = "refused" /\ setup' = NewBuilder
  /\ calls' = 0 /\ OnlySetup

\* SolanaIndexer::new: empty registries.  From here on the model only keeps
\* what the rest of it reads.
New ==
  /\ phase = "built"
  /\ phase' = "register"
  /\ setup' = [mode |-> setup.mode, retries |-> setup.retries, registry |-> setup.registry]
  /\ registry' = NewRegistry
  /\ UNCHANGED <<calls, parser, core>>

Registered(kind) == registry.count[kind]
AllRegistered == Registered("input") + Registered("log") + Registered("account")
                   + Registered("handler") + Registered("backfill")

ModeOf == [input |-> "inputs", log |-> "logs", account |-> "accounts"]

\* register_decoder, register_log_decoder, register_account_decoder switch
\* their part of the indexing mode on; the handlers' functions do not, nor does
\* a registration through decoder_registry_mut() and its like.
Register(r) ==
  /\ phase = "register" /\ AllRegistered < MaxRegistrations
  /\ IF Accepts(r, setup.registry)
     THEN /\ Enter(r)
          /\ \/ UNCHANGED setup
             \/ /\ r.kind \notin Handlers
                /\ setup' = [setup EXCEPT !.mode[ModeOf[r.kind]] = TRUE]
     ELSE UNCHANGED <<registry, setup>>
  /\ UNCHANGED <<phase, calls, parser, core>>

Start ==
  /\ phase = "register"
  /\ phase' = "run"
  /\ UNCHANGED <<setup, calls>> /\ OnlySetup

-----------------------------------------------------------------------------
(* process_transaction_core.                                               *)

OnlyCore == UNCHANGED <<registry, phase, setup, calls>>

Busy == core.pc \notin {"idle", "recorded", "failed"}

Goto(pc) == core' = [core EXCEPT !.pc = pc, !.attempt = 0]

\* The task returns an error.
Fail(error) == core' = [core EXCEPT !.pc = "failed", !.todo = <<>>, !.error = error]

\* A task is given a transaction, with its data if it has been preloaded.
Begin(t) ==
  /\ phase = "run" /\ ~Busy
  /\ \E pc \in {"fetch", "decode"} :
       core' = [NoTransaction EXCEPT !.pc = pc, !.tx = t]
  /\ parser' = NewParser
  /\ OnlyCore

\* decode_transaction: the log line by line, then the instructions and the
\* metadata, whose absence is an error.
Decode ==
  /\ core.pc = "decode"
  /\ \/ ParseLine(core.tx) /\ UNCHANGED core
     \/ /\ ~MoreLines(core.tx)
        /\ IF Decodable(core.tx) /\ Content[core.tx].meta THEN Goto("block")
           ELSE Fail(ErrorOf("DecodingError", 1))
        /\ UNCHANGED parser
  /\ OnlyCore

\* On to a stage, with the events it has to hand over.
Stage(pc, todo) == core' = [core EXCEPT !.pc = pc, !.attempt = 0, !.todo = todo]

EnterInput ==
  Stage("input", IF setup.mode.inputs THEN DecodeEach("input", InstructionsOf(core.tx)) ELSE <<>>)

AccountEvents(order) ==
  FlattenSeq([i \in DOMAIN order |->
    LET account == Content[core.tx].accounts[order[i]]
    IN  IF account.exists THEN DecodeAccount(order[i], account.form) ELSE <<>>])

\* get_transaction, get_block and get_multiple_accounts are answered.  The
\* accounts are asked for in the order of a hash set.
RequestAnswered ==
  /\ \/ core.pc = "fetch" /\ Goto("decode")
     \/ core.pc = "block" /\ EnterInput
     \/ /\ core.pc = "accounts"
        /\ \E order \in SetToSeqs(AccountsOf(core.tx)) :
             Stage("account", AccountEvents(order))
  /\ UNCHANGED parser /\ OnlyCore

\* A mutant: the first request counts as a retry.
RequestFails_Early ==
  /\ core.pc \in {"fetch", "block", "accounts"}
  /\ \E error \in ProviderErrors :
       LET n == core.attempt + 1
       IN  IF AsksAgain(error, n + 1, setup.retries) THEN core' = [core EXCEPT !.attempt = n]
           ELSE CASE core.pc = "fetch" -> Fail(ErrorOf(error, n))
                  [] core.pc = "block" -> EnterInput
                  [] core.pc = "accounts" -> core' = [core EXCEPT !.pc = "mark", !.unread = TRUE]
  /\ UNCHANGED parser /\ OnlyCore

\* A request fails.  With no attempt left, the transaction is an error of the
\* task, the block is "UNKNOWN", and the accounts are passed over.
RequestFails ==
  /\ core.pc \in {"fetch", "block", "accounts"}
  /\ \E error \in ProviderErrors :
       LET n == core.attempt + 1
       IN  IF AsksAgain(error, n, setup.retries) THEN core' = [core EXCEPT !.attempt = n]
           ELSE CASE core.pc = "fetch" -> Fail(ErrorOf(error, n))
                  [] core.pc = "block" -> EnterInput
                  [] core.pc = "accounts" -> core' = [core EXCEPT !.pc = "mark", !.unread = TRUE]
  /\ UNCHANGED parser /\ OnlyCore

Handling == core.pc \in {"input", "log", "account"} /\ core.todo # <<>>

\* A mutant: the event stays at the head.
HandleEvent_Keeps ==
  /\ Handling /\ HasHandler(Head(core.todo).event)
  /\ core' = [core EXCEPT !.attempt = 0, !.done = Append(@, Head(core.todo))]
  /\ UNCHANGED parser /\ OnlyCore

HandleEvent ==
  /\ Handling /\ HasHandler(Head(core.todo).event)
  /\ core' = [core EXCEPT !.attempt = 0, !.todo = Tail(@), !.done = Append(@, Head(core.todo))]
  /\ UNCHANGED parser /\ OnlyCore

\* A mutant: the error is logged and the next event handled.
HandlerFails_GoesOn ==
  /\ Handling
  /\ LET n == core.attempt + 1
     IN  IF CallsAgain(n, setup.retries) THEN core' = [core EXCEPT !.attempt = n]
         ELSE core' = [core EXCEPT !.attempt = 0, !.todo = Tail(@)]
  /\ UNCHANGED parser /\ OnlyCore

\* A mutant: `attempts` starts again.
HandlerFails_Forgets ==
  /\ Handling
  /\ LET n == core.attempt + 1
     IN  IF CallsAgain(n, setup.retries) THEN UNCHANGED core
         ELSE Fail([kind |-> "Handler", attempts |-> n])
  /\ UNCHANGED parser /\ OnlyCore

\* A call fails, as it does whenever there is no handler: any error is tried
\* again, the last one is the task's.
HandlerFails ==
  /\ Handling
  /\ LET n == core.attempt + 1
     IN  IF CallsAgain(n, setup.retries) THEN core' = [core EXCEPT !.attempt = n]
         ELSE Fail([kind |-> "Handler", attempts |-> n])
  /\ UNCHANGED parser /\ OnlyCore

\* A stage is over.  Accounts are looked at within the stage of the logs.
NextStage ==
  /\ core.pc \in {"input", "log", "account"} /\ core.todo = <<>>
  /\ CASE core.pc = "input" /\ setup.mode.logs -> Stage("log", DecodeEach("log", parser.events))
       [] core.pc = "log" /\ setup.mode.accounts /\ AccountsOf(core.tx) # {} -> Goto("accounts")
       [] OTHER -> Goto("mark")
  /\ UNCHANGED parser /\ OnlyCore

\* mark_tentative, or mark_finalized and mark_processed.
Record ==
  /\ core.pc = "mark"
  /\ Goto("recorded") \/ Fail([kind |-> "Database", attempts |-> 1])
  /\ UNCHANGED parser /\ OnlyCore

-----------------------------------------------------------------------------
Init ==
  /\ registry = NewRegistry /\ parser = NewParser
  /\ phase = "build" /\ setup = NewBuilder /\ calls = 0
  /\ core = NoTransaction

CoreStep ==
  \/ Decode \/ RequestAnswered \/ RequestFails
  \/ HandleEvent \/ HandlerFails \/ NextStage \/ Record

Next ==
  \/ ChooseSource \/ ChoosePolling \/ ChoosePrograms \/ ChooseSetting \/ Build
  \/ New \/ (\E r \in Registrations : Register(r)) \/ Start
  \/ (\E t \in Transactions : Begin(t)) \/ CoreStep

Spec == Init /\ [][Next]_vars

(* The runtime polls the task, its timers fire, requests and handlers      *)
(* return.                                                                 *)
FairSpec == Spec /\ WF_vars(CoreStep)

-----------------------------------------------------------------------------
(* Properties.                                                             *)

\* Whatever the order of with_rpc, with_poll_interval and with_batch_size, the
\* copies that the RPC source keeps agree with the fields the indexer reads.
RpcSettingsAgree ==
  phase = "built" /\ setup.source.kind = "rpc"
    => setup.source.poll = setup.poll /\ setup.source.batch = setup.batch

\* A limit holds, for any mix of new and known keys.
WithinLimits ==
  phase = "register" =>
    \A kind \in Kinds : setup.registry[kind] # 0 => Size(kind) <= setup.registry[kind]

\* Every event is attributed to the program that was running when its line was
\* written, whatever programs write into their messages.
Attribution ==
  \A i \in DOMAIN parser.events :
    LET e == parser.events[i] IN e.key = Current(Running(core.tx, e.at))

\* A task that has given up on a request or a handler has made exactly
\* max_retries + 1 attempts, though the two loops count differently.
RetriesAsConfigured ==
  core.error.kind \in {"RetryExhausted", "Handler"} => core.error.attempts = setup.retries + 1

\* The first decoder of a program that recognises a form decides its event.
Yields(kind, key, form, e) ==
  /\ key \in Keys
  /\ LET ds == registry.items[kind][key]
     IN  \E i \in DOMAIN ds :
           /\ form \in ds[i].reads /\ ds[i].event = e
           /\ \A k \in 1..(i - 1) : form \notin ds[k].reads

\* The lines that count as events.
Reported(l) == l.kind = "invoke" \/ (l.kind \in {"data", "log"} /\ l.mentions = "nothing")

EventsOf(kind, positions) == [kind : {kind}, at : positions, event : Events]

DueInputs ==
  LET all == Content[core.tx].instructions
  IN  {e \in EventsOf("input", DOMAIN all) :
         /\ setup.mode.inputs /\ Content[core.tx].format = "parsed"
         /\ Yields("input", all[e.at].key, all[e.at].form, e.event)}

DueLogs ==
  LET all == Content[core.tx].lines
  IN  {e \in EventsOf("log", DOMAIN all) :
         /\ setup.mode.logs /\ Reported(all[e.at])
         /\ Yields("log", Current(all[e.at].running), all[e.at].form, e.event)}

DueAccounts ==
  LET all == Content[core.tx].accounts
  IN  {e \in EventsOf("account", AccountsOf(core.tx)) :
         /\ setup.mode.logs /\ setup.mode.accounts /\ ~core.unread
         /\ all[e.at].exists
         /\ \E d \in Range(registry.items["account"][AnyAccount]) :
              all[e.at].form \in d.reads /\ d.event = e.event}

\* A recorded transaction has had every event handled that the registered
\* decoders can make of it in the modes that are on: instructions and log lines
\* of their programs, and, with the logs, the accounts that could be read.
RecordedIsComplete ==
  core.pc = "recorded" =>
    Range(core.done) = DueInputs \union DueLogs \union DueAccounts

Rank(kind) == CASE kind = "input" -> 1 [] kind = "log" -> 2 [] kind = "account" -> 3

\* Within one run the handlers see the events of instructions, then those of
\* logs, each once and in the order of the chain, then those of accounts.
HandledInOrder ==
  \A i, k \in DOMAIN core.done : i < k =>
    LET a == core.done[i]
        b == core.done[k]
    IN  \/ Rank(a.kind) < Rank(b.kind)
        \/ a.kind = b.kind /\ (a.kind = "account" \/ a.at < b.at)

\* However requests and handlers fail, a run comes to an end.
RunsEnd == Busy ~> ~Busy
=============================================================================
