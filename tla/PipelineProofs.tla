--------------------------- MODULE PipelineProofs ---------------------------
(***************************************************************************)
(* Proofs about the configuration, the registries, the log parser, the     *)
(* retries and the queue of a transaction, for every set of programs,      *)
(* decoders and limits, and for every log.                                 *)
(***************************************************************************)
EXTENDS Pipeline, FiniteSetTheorems, SequenceTheorems, WellFoundedInduction, TLAPS

SetupStep == ChooseSource \/ ChoosePolling \/ ChoosePrograms \/ ChooseSetting

LEMMA SetupKeeps ==
  ASSUME SetupStep
  PROVE  /\ phase = "build" /\ UNCHANGED <<phase, registry, parser, core>>
  BY DEF SetupStep, ChooseSource, ChoosePolling, ChoosePrograms, ChooseSetting, Call, OnlySetup

LEMMA CoreKeeps ==
  ASSUME CoreStep \/ \E t \in Transactions : Begin(t)
  PROVE  UNCHANGED <<registry, phase, setup, calls>>
  BY DEF CoreStep, Begin, Decode, RequestAnswered, RequestFails, HandleEvent, HandlerFails,
         NextStage, Record, OnlyCore

LEMMA Steps ==
  ASSUME Next
  PROVE  \/ SetupStep \/ Build \/ New \/ (\E r \in Registrations : Register(r)) \/ Start
         \/ CoreStep \/ (\E t \in Transactions : Begin(t))
  BY DEF Next, SetupStep

-----------------------------------------------------------------------------
(* The builder and the configuration.                                      *)

Fields == {"database", "program_ids", "accounts", "poll", "batch", "source", "strategy",
           "mode", "registry", "workers", "retries"}

\* What is known of a builder, of the configuration it builds, and of the part
\* of it that the rest of the model keeps.
SoundBuilder(b) ==
  /\ b = [f \in Fields |-> b[f]]
  /\ b.source # Unset => b.source = Source(b.source.kind, b.source.poll, b.source.batch)
  /\ HasRpc(b) =>
       b.source.poll = Or(b.poll, 5) /\ b.source.batch = Or(b.batch, 100)
  /\ Or(b.retries, DefaultRetries) \in Nat
  /\ Or(b.registry, Unlimited) \in [Kinds -> Nat]

SoundConfig(c) ==
  /\ c.source.kind = "rpc" => c.source.poll = c.poll /\ c.source.batch = c.batch
  /\ c.retries \in Nat /\ c.registry \in [Kinds -> Nat]

SoundSettings(c) ==
  /\ c = [mode |-> c.mode, retries |-> c.retries, registry |-> c.registry]
  /\ c.retries \in Nat /\ c.registry \in [Kinds -> Nat]

ISetup ==
  /\ phase \in {"build", "built", "register", "run", "refused"}
  /\ phase = "build" => SoundBuilder(setup)
  /\ phase = "built" => SoundConfig(setup)
  /\ phase \in {"register", "run"} => SoundSettings(setup)

LEMMA UnlimitedType == Unlimited \in [Kinds -> Nat]
  BY DEF Unlimited, Kinds

LEMMA NewBuilderSound == SoundBuilder(NewBuilder)
  BY UnlimitedType DEF SoundBuilder, NewBuilder, Fields, Or, HasRpc, DefaultRetries

\* A setter of one field that no property reads.
LEMMA SetterSound ==
  ASSUME NEW b, SoundBuilder(b), NEW value,
         NEW f \in Fields \ {"source", "poll", "batch", "retries", "registry"}
  PROVE  SoundBuilder([b EXCEPT ![f] = value])
  BY DEF SoundBuilder, HasRpc, Fields

LEMMA SourceSound ==
  ASSUME NEW b, SoundBuilder(b), NEW kind \in StreamKinds, NEW secs
  PROVE  SoundBuilder([b EXCEPT !.source = Source(kind, secs, Unset)])
  BY DEF SoundBuilder, HasRpc, Fields, Source, StreamKinds

LEMMA RpcSound ==
  ASSUME NEW b, SoundBuilder(b)
  PROVE  SoundBuilder(WithRpc(b))
  BY DEF SoundBuilder, HasRpc, Fields, WithRpc, Source

LEMMA PollSound ==
  ASSUME NEW b, SoundBuilder(b), NEW n \in Nat
  PROVE  SoundBuilder(WithPollInterval(b, n)) /\ SoundBuilder(WithBatchSize(b, n))
<1>1. Or(n, 5) = n /\ Or(n, 100) = n
  BY ConfigAssumption DEF Or
<1>2. CASE HasRpc(b)
  <2>1. b.source = Source("rpc", b.source.poll, b.source.batch)
    BY <1>2 DEF SoundBuilder, HasRpc
  <2>2. [b.source EXCEPT !.poll = n] = Source("rpc", n, b.source.batch)
        /\ [b.source EXCEPT !.batch = n] = Source("rpc", b.source.poll, n)
    BY <2>1 DEF Source
  <2>3. SoundBuilder([b EXCEPT !.poll = n, !.source = Source("rpc", n, b.source.batch)])
    BY <1>1, <1>2 DEF SoundBuilder, HasRpc, Fields, Source
  <2>4. SoundBuilder([b EXCEPT !.batch = n, !.source = Source("rpc", b.source.poll, n)])
    BY <1>1, <1>2 DEF SoundBuilder, HasRpc, Fields, Source
  <2> QED
    BY <1>2, <2>2, <2>3, <2>4 DEF WithPollInterval, WithBatchSize
<1>3. CASE ~HasRpc(b)
  <2>1. WithPollInterval(b, n) = [b EXCEPT !.poll = n, !.source = b.source]
        /\ WithBatchSize(b, n) = [b EXCEPT !.batch = n, !.source = b.source]
    BY <1>3 DEF WithPollInterval, WithBatchSize
  <2>2. SoundBuilder([b EXCEPT !.poll = n, !.source = b.source])
    BY <1>3 DEF SoundBuilder, HasRpc, Fields
  <2>3. SoundBuilder([b EXCEPT !.batch = n, !.source = b.source])
    BY <1>3 DEF SoundBuilder, HasRpc, Fields
  <2> QED
    BY <2>1, <2>2, <2>3
<1> QED
  BY <1>2, <1>3

LEMMA SettingSound ==
  ASSUME NEW b, SoundBuilder(b), NEW s \in Settings
  PROVE  SoundBuilder(With(b, s.field, s.value))
<1>1. SUFFICES SoundBuilder([b EXCEPT ![s.field] = s.value])
  BY DEF With
<1>2. /\ s.field \in {"mode", "registry", "retries", "strategy", "workers"}
      /\ s.field = "registry" => s.value \in [Kinds -> Nat]
      /\ s.field = "retries" => s.value \in Nat
  BY PipelineAssumption
<1>3. CASE s.field \in {"mode", "strategy", "workers"}
  BY <1>3, SetterSound DEF Fields
<1>4. CASE s.field = "registry"
  <2>1. SoundBuilder([b EXCEPT !["registry"] = s.value])
    BY <1>2, <1>4, UnlimitedType DEF SoundBuilder, HasRpc, Fields, Or
  <2> QED
    BY <1>4, <2>1
<1>5. CASE s.field = "retries"
  <2>1. SoundBuilder([b EXCEPT !["retries"] = s.value])
    BY <1>2, <1>5 DEF SoundBuilder, HasRpc, Fields, Or, DefaultRetries
  <2> QED
    BY <1>5, <2>1
<1> QED
  BY <1>2, <1>3, <1>4, <1>5

LEMMA BuiltSound ==
  ASSUME NEW b, SoundBuilder(b), Buildable(b)
  PROVE  SoundConfig(Built(b))
  BY DEF SoundBuilder, SoundConfig, Buildable, HasRpc, Built

LEMMA InitSetup == Init => ISetup
  BY NewBuilderSound DEF Init, ISetup

LEMMA SetupSound ==
  ASSUME ISetup, SetupStep
  PROVE  ISetup'
<1>1. phase = "build" /\ phase' = "build" /\ SoundBuilder(setup)
  BY SetupKeeps DEF ISetup
<1>2. SUFFICES SoundBuilder(setup')
  BY <1>1 DEF ISetup
<1>3. CASE ChooseSource
  <2>1. \A kind \in StreamKinds : \A secs : SoundBuilder([setup EXCEPT !.source = Source(kind, secs, Unset)])
    BY <1>1, SourceSound
  <2>2. \A kind \in StreamKinds \ {"hybrid"} : SoundBuilder(WithStream(setup, kind))
    BY <2>1 DEF WithStream
  <2>3. SoundBuilder(WithHybrid(setup, 2))
    BY <2>1 DEF WithHybrid, StreamKinds
  <2> QED
    BY <1>1, <1>3, <2>2, <2>3, RpcSound DEF ChooseSource, Call
<1>4. CASE ChoosePolling
  BY <1>1, <1>4, PollSound DEF ChoosePolling, Call
<1>5. CASE ChoosePrograms
  <2>1. ASSUME NEW f \in {"program_ids", "accounts"}, NEW value
        PROVE  SoundBuilder([setup EXCEPT ![f] = value])
    BY <1>1, <2>1, SetterSound DEF Fields
  <2>2. \A id : /\ SoundBuilder(AddProgram(setup, id))
                /\ SoundBuilder(SetPrograms(setup, <<id>>))
                /\ SoundBuilder(AccountsToDecode(setup, <<id>>))
    BY <2>1 DEF AddProgram, SetPrograms, AccountsToDecode
  <2> QED
    BY <1>5, <2>2 DEF ChoosePrograms, Call
<1>6. CASE ChooseSetting
  <2>1. SoundBuilder(WithDatabase(setup))
    BY <1>1, SetterSound DEF WithDatabase, Fields
  <2>2. \A parses \in BOOLEAN : SoundBuilder(WithStartSignature(setup, parses))
    <3> TAKE parses \in BOOLEAN
    <3> DEFINE value == IF parses THEN "signature" ELSE setup.strategy
    <3>1. SoundBuilder([setup EXCEPT !["strategy"] = value])
      BY <1>1, SetterSound DEF Fields
    <3> QED
      BY <3>1 DEF WithStartSignature
  <2>3. \A s \in Settings : SoundBuilder(With(setup, s.field, s.value))
    BY <1>1, SettingSound
  <2> QED
    BY <1>6, <2>1, <2>2, <2>3 DEF ChooseSetting, Call
<1> QED
  BY <1>3, <1>4, <1>5, <1>6 DEF SetupStep

LEMMA NextSetup == ISetup /\ [Next]_vars => ISetup'
<1> SUFFICES ASSUME ISetup, [Next]_vars PROVE ISetup'
  OBVIOUS
<1>1. CASE Build
  BY <1>1, BuiltSound DEF Build, ISetup
<1>2. CASE New
  BY <1>2 DEF New, ISetup, SoundConfig, SoundSettings
<1>3. ASSUME NEW r \in Registrations, Register(r)
      PROVE  ISetup'
  <2>1. phase = "register" /\ phase' = "register" /\ SoundSettings(setup)
    BY <1>3 DEF Register, ISetup
  <2>2. CASE UNCHANGED setup
    BY <2>1, <2>2 DEF ISetup
  <2>3. CASE setup' = [setup EXCEPT !.mode[ModeOf[r.kind]] = TRUE]
    BY <2>1, <2>3 DEF ISetup, SoundSettings
  <2> QED
    BY <1>3, <2>2, <2>3 DEF Register
<1>4. CASE Start
  BY <1>4 DEF Start, ISetup
<1>5. CASE CoreStep \/ \E t \in Transactions : Begin(t)
  BY <1>5, CoreKeeps DEF ISetup
<1>6. CASE UNCHANGED vars
  BY <1>6 DEF vars, ISetup
<1> QED
  BY <1>1, <1>2, <1>3, <1>4, <1>5, <1>6, Steps, SetupSound

\* Whatever the order in which an application calls the builder, the interval
\* and the batch size that an RPC source keeps are those the indexer reads.
THEOREM PipelineRpcSettings == Spec => []RpcSettingsAgree
<1>1. ISetup => RpcSettingsAgree
  BY DEF ISetup, SoundConfig, RpcSettingsAgree
<1> QED
  BY <1>1, InitSetup, NextSetup, PTL DEF Spec

-----------------------------------------------------------------------------
(* The registries.                                                         *)

Entries == Decoder \union Events

ILimits ==
  /\ RegistryTypeOK
  /\ \A kind \in Kinds : IsFiniteSet(Known(kind)) /\ Size(kind) <= registry.count[kind]
  /\ WithinLimits

\* What holds of a registry without entries.
IsEmpty ==
  /\ RegistryTypeOK
  /\ \A kind \in Kinds : /\ IsFiniteSet(Known(kind)) /\ Size(kind) = 0
                         /\ registry.count[kind] = 0

LEMMA EmptyRegistry == registry = NewRegistry => IsEmpty
<1> SUFFICES ASSUME registry = NewRegistry PROVE IsEmpty
  OBVIOUS
<1>1. <<>> \in Seq(Entries)
  OBVIOUS
<1>2. RegistryTypeOK
  BY <1>1 DEF RegistryTypeOK, NewRegistry, Entries
<1>3. \A kind \in Kinds : Known(kind) = {} /\ registry.count[kind] = 0
  BY DEF Known, NewRegistry
<1>4. Len(registry.items["account"][AnyAccount]) = 0
  BY RegistryAssumption DEF NewRegistry, Kinds
<1> QED
  BY <1>2, <1>3, <1>4, FS_EmptySet DEF IsEmpty, Size

LEMMA SizeType ==
  ASSUME RegistryTypeOK, NEW kind \in Kinds, IsFiniteSet(Known(kind))
  PROVE  Size(kind) \in Nat
<1>1. CASE kind = "account"
  <2>1. registry.items["account"][AnyAccount] \in Seq(Entries)
    BY RegistryAssumption DEF RegistryTypeOK, Entries, Kinds
  <2> QED
    BY <1>1, <2>1 DEF Size
<1>2. CASE kind # "account"
  BY <1>2, FS_CardinalityType DEF Size
<1> QED
  BY <1>1, <1>2

\* What a registration does to the size and the count of its registry.
LEMMA EnterGrows ==
  ASSUME RegistryTypeOK, NEW r \in Registrations, Enter(r),
         IsFiniteSet(Known(r.kind))
  PROVE  /\ RegistryTypeOK'
         /\ IsFiniteSet(Known(r.kind))'
         /\ Size(r.kind)' \in Nat /\ Size(r.kind)' <= Size(r.kind) + 1
         /\ r.kind # "account" /\ r.key \in Known(r.kind) => Size(r.kind)' = Size(r.kind)
         /\ registry.count'[r.kind] = registry.count[r.kind] + 1
<1> DEFINE old == registry.items[r.kind][r.key]
           new == IF r.kind \in Handlers THEN <<r.item>> ELSE Append(old, r.item)
<1>1. r.kind \in Kinds /\ r.key \in Keys /\ r.item \in Entries
  BY PipelineAssumption DEF Entries
<1>2. old \in Seq(Entries)
  BY <1>1 DEF RegistryTypeOK, Entries
<1>3. new \in Seq(Entries) /\ new # <<>> /\ Len(new) <= Len(old) + 1
  BY <1>1, <1>2
<1>4. /\ registry'.items = [registry.items EXCEPT ![r.kind][r.key] = new]
      /\ registry'.count = [registry.count EXCEPT ![r.kind] = @ + 1]
      /\ DOMAIN registry' = {"items", "count"}
  BY DEF Enter
<1> HIDE DEF old, new
<1>5. registry'.items \in [Kinds -> [Keys -> Seq(Entries)]]
  BY <1>1, <1>3, <1>4 DEF RegistryTypeOK, Entries
<1>6. registry'.count \in [Kinds -> Nat] /\ registry'.count[r.kind] = registry.count[r.kind] + 1
  BY <1>1, <1>4 DEF RegistryTypeOK
<1>7. RegistryTypeOK'
  BY <1>4, <1>5, <1>6 DEF RegistryTypeOK, Entries
<1>8. Known(r.kind)' = Known(r.kind) \union {r.key}
  BY <1>1, <1>3, <1>4 DEF Known, RegistryTypeOK
<1>9. /\ IsFiniteSet(Known(r.kind))'
      /\ Cardinality(Known(r.kind)') = IF r.key \in Known(r.kind) THEN Cardinality(Known(r.kind))
                                        ELSE Cardinality(Known(r.kind)) + 1
  BY <1>8, FS_AddElement
<1>10. Cardinality(Known(r.kind)) \in Nat
  BY FS_CardinalityType
<1>11. CASE r.kind # "account"
  BY <1>6, <1>7, <1>9, <1>10, <1>11 DEF Size
<1>12. CASE r.kind = "account"
  <2>1. AnyAccount \in Keys
    BY RegistryAssumption
  <2>2. CASE r.key = AnyAccount
    <3>1. Len(new) \in Nat /\ registry'.items[r.kind][AnyAccount] = new
      BY <1>1, <1>3, <1>4, <2>1, <2>2 DEF RegistryTypeOK
    <3> QED
      BY <1>3, <1>6, <1>7, <1>9, <1>12, <2>2, <3>1 DEF Size, old
  <2>3. CASE r.key # AnyAccount
    <3>1. registry'.items[r.kind][AnyAccount] = registry.items[r.kind][AnyAccount]
      BY <1>1, <1>4, <2>1, <2>3 DEF RegistryTypeOK
    <3>2. Size(r.kind)' = Size(r.kind)
      BY <1>12, <3>1 DEF Size
    <3> QED
      BY <1>6, <1>7, <1>9, <1>12, <3>2, SizeType, <1>1
  <2> QED
    BY <2>2, <2>3
<1> QED
  BY <1>11, <1>12

LEMMA EnterFrame ==
  ASSUME RegistryTypeOK, NEW r \in Registrations, Enter(r), NEW kind \in Kinds, kind # r.kind
  PROVE  /\ Known(kind)' = Known(kind) /\ Size(kind)' = Size(kind)
         /\ registry'.count[kind] = registry.count[kind]
<1>1. r.kind \in Kinds
  BY PipelineAssumption
<1>2. registry'.items[kind] = registry.items[kind] /\ registry'.count[kind] = registry.count[kind]
  BY <1>1 DEF Enter, RegistryTypeOK
<1> QED
  BY <1>2 DEF Known, Size

LEMMA RegisterLimits ==
  ASSUME ISetup, ISetup', ILimits, NEW r \in Registrations, Register(r)
  PROVE  ILimits'
<1>1. /\ phase = "register" /\ phase' = "register" /\ SoundSettings(setup)
      /\ r.kind \in Kinds
  BY PipelineAssumption DEF Register, ISetup
<1>2. CASE UNCHANGED <<registry, setup>>
  BY <1>1, <1>2 DEF ILimits, RegistryTypeOK, Known, Size, WithinLimits
<1>3. CASE Accepts(r, setup.registry) /\ Enter(r) /\ setup'.registry = setup.registry
  <2> DEFINE limit == setup.registry
  <2>1. limit \in [Kinds -> Nat]
    BY <1>1 DEF SoundSettings
  <2>2. ASSUME NEW kind \in Kinds
        PROVE  /\ IsFiniteSet(Known(kind))' /\ Size(kind)' <= registry'.count[kind]
               /\ limit[kind] # 0 => Size(kind)' <= limit[kind]
    <3>1. /\ IsFiniteSet(Known(kind)) /\ Size(kind) <= registry.count[kind]
          /\ limit[kind] # 0 => Size(kind) <= limit[kind]
          /\ Size(kind) \in Nat /\ registry.count[kind] \in Nat
      BY <1>1, SizeType DEF ILimits, WithinLimits, RegistryTypeOK
    <3>2. CASE kind # r.kind
      BY <1>3, <3>1, <3>2, EnterFrame DEF ILimits
    <3>3. CASE kind = r.kind
      <4>1. /\ IsFiniteSet(Known(kind))'
            /\ Size(kind)' \in Nat /\ Size(kind)' <= Size(kind) + 1
            /\ kind # "account" /\ r.key \in Known(kind) => Size(kind)' = Size(kind)
            /\ registry'.count[kind] = registry.count[kind] + 1
        BY <1>3, <3>1, <3>3, EnterGrows DEF ILimits
      <4>2. limit[kind] # 0 =>
              (kind # "account" /\ r.key \in Known(kind)) \/ registry.count[kind] < limit[kind]
        BY <1>3, <2>1, <3>1, <3>3 DEF Accepts, IsFull
      <4> QED
        BY <2>1, <3>1, <4>1, <4>2
    <3> QED
      BY <3>2, <3>3
  <2>3. RegistryTypeOK'
    BY <1>1, <1>3, EnterGrows DEF ILimits
  <2> QED
    BY <1>3, <2>2, <2>3 DEF ILimits, WithinLimits
<1>4. ASSUME setup' = [setup EXCEPT !.mode[ModeOf[r.kind]] = TRUE]
      PROVE  setup'.registry = setup.registry
  BY <1>1, <1>4 DEF SoundSettings
<1> QED
  BY <1>2, <1>3, <1>4 DEF Register

LEMMA NextLimits == ISetup /\ ILimits /\ [Next]_vars => ILimits'
<1> SUFFICES ASSUME ISetup, ILimits, [Next]_vars PROVE ILimits'
  OBVIOUS
<1>1. CASE New
  <2>1. registry' = NewRegistry /\ phase' = "register" /\ SoundSettings(setup')
    BY <1>1, NextSetup DEF New, ISetup
  <2>2. IsEmpty'
    <3>1. (registry = NewRegistry)'
      BY <2>1
    <3> QED
      BY <3>1, EmptyRegistry, PTL
  <2>3. setup'.registry \in [Kinds -> Nat]
    BY <2>1 DEF SoundSettings
  <2> QED
    BY <2>2, <2>3 DEF IsEmpty, ILimits, WithinLimits
<1>2. CASE UNCHANGED registry /\ (phase' # "register" \/ UNCHANGED <<phase, setup>>)
  <2>1. \A kind \in Kinds : /\ Known(kind)' = Known(kind) /\ Size(kind)' = Size(kind)
                            /\ registry'.count[kind] = registry.count[kind]
    BY <1>2 DEF Known, Size
  <2> QED
    BY <1>2, <2>1 DEF ILimits, RegistryTypeOK, WithinLimits
<1>3. CASE SetupStep
  BY <1>2, <1>3, SetupKeeps
<1>4. CASE Build \/ Start
  BY <1>2, <1>4 DEF Build, Start, OnlySetup
<1>5. CASE CoreStep \/ \E t \in Transactions : Begin(t)
  BY <1>2, <1>5, CoreKeeps
<1>6. CASE UNCHANGED vars
  BY <1>2, <1>6 DEF vars
<1> QED
  BY <1>1, <1>3, <1>4, <1>5, <1>6, Steps, NextSetup, RegisterLimits

\* No registry ever holds more than its limit, for any mix of new and known
\* keys, though the code compares the limit with registrations.
THEOREM PipelineWithinLimits == Spec => []WithinLimits
<1>1. Init => ILimits
  BY EmptyRegistry DEF IsEmpty, Init, ILimits, WithinLimits
<1>2. ILimits => WithinLimits
  BY DEF ILimits
<1> QED
  BY <1>1, <1>2, InitSetup, NextSetup, NextLimits, PTL DEF Spec

-----------------------------------------------------------------------------
(* The task: its record, its transaction and its attempts.                 *)

ICore ==
  /\ core = [pc |-> core.pc, tx |-> core.tx, attempt |-> core.attempt, todo |-> core.todo,
             done |-> core.done, unread |-> core.unread, error |-> core.error]
  /\ core.pc # "idle" => phase = "run" /\ core.tx \in Transactions
  /\ Busy => core.attempt \in Nat /\ core.attempt <= setup.retries
  /\ core.error.kind \in {"RetryExhausted", "Handler"} =>
       core.pc = "failed" /\ core.error.attempts = setup.retries + 1

LEMMA InitCore == Init => ICore
  BY DEF Init, ICore, NoTransaction, NoError, Busy

\* A step of the task that leaves it in a given state of its record.
LEMMA CoreReplaced ==
  ASSUME ISetup, ICore, Busy, UNCHANGED <<phase, setup>>,
         NEW pc, NEW attempt \in Nat, NEW todo, NEW done, NEW unread, NEW error,
         core' = [pc |-> pc, tx |-> core.tx, attempt |-> attempt, todo |-> todo,
                  done |-> done, unread |-> unread, error |-> error],
         attempt <= setup.retries,
         \/ error = core.error
         \/ pc = "failed" /\ error.kind \notin {"RetryExhausted", "Handler"}
         \/ pc = "failed" /\ error.attempts = setup.retries + 1
  PROVE  ICore'
  BY DEF ICore, Busy

LEMMA BusyFacts ==
  ASSUME ISetup, ICore, Busy
  PROVE  /\ phase = "run" /\ core.tx \in Transactions /\ core.pc # "failed"
         /\ core.attempt \in Nat /\ setup.retries \in Nat /\ core.attempt <= setup.retries
         /\ core = [pc |-> core.pc, tx |-> core.tx, attempt |-> core.attempt,
                    todo |-> core.todo, done |-> core.done, unread |-> core.unread,
                    error |-> core.error]
  BY DEF ISetup, SoundSettings, ICore, Busy

LEMMA GotoCore ==
  ASSUME ISetup, ICore, Busy, UNCHANGED <<phase, setup>>,
         NEW pc, Goto(pc) \/ \E todo : Stage(pc, todo)
  PROVE  ICore'
<1>1. PICK todo : core' = [pc |-> pc, tx |-> core.tx, attempt |-> 0, todo |-> todo,
                          done |-> core.done, unread |-> core.unread, error |-> core.error]
  <2>1. CASE Goto(pc)
    BY <2>1, BusyFacts DEF Goto
  <2>2. ASSUME NEW todo, Stage(pc, todo)
        PROVE  core' = [pc |-> pc, tx |-> core.tx, attempt |-> 0, todo |-> todo,
                        done |-> core.done, unread |-> core.unread, error |-> core.error]
    BY <2>2, BusyFacts DEF Stage
  <2> QED
    BY <2>1, <2>2
<1> QED
  BY <1>1, BusyFacts, CoreReplaced

LEMMA FailCore ==
  ASSUME ISetup, ICore, Busy, UNCHANGED <<phase, setup>>,
         NEW error, Fail(error),
         \/ error.kind \notin {"RetryExhausted", "Handler"}
         \/ error.attempts = setup.retries + 1
  PROVE  ICore'
<1>1. core' = [pc |-> "failed", tx |-> core.tx, attempt |-> core.attempt, todo |-> <<>>,
               done |-> core.done, unread |-> core.unread, error |-> error]
  BY BusyFacts DEF Fail
<1> QED
  BY <1>1, BusyFacts, CoreReplaced

LEMMA AgainCore ==
  ASSUME ISetup, ICore, Busy, UNCHANGED <<phase, setup>>, core.attempt + 1 <= setup.retries,
         core' = [core EXCEPT !.attempt = core.attempt + 1]
  PROVE  ICore'
<1>1. core' = [pc |-> core.pc, tx |-> core.tx, attempt |-> core.attempt + 1,
               todo |-> core.todo, done |-> core.done, unread |-> core.unread,
               error |-> core.error]
  BY BusyFacts
<1> QED
  BY <1>1, BusyFacts, CoreReplaced

LEMMA RequestFailsCore ==
  ASSUME ISetup, ICore, RequestFails
  PROVE  ICore'
<1>1. Busy /\ UNCHANGED <<phase, setup>> /\ core.pc \in {"fetch", "block", "accounts"}
  BY DEF RequestFails, Busy, OnlyCore
<1>2. phase = "run" /\ core.tx \in Transactions /\ setup.retries \in Nat
      /\ core.attempt \in Nat /\ core.attempt <= setup.retries
  BY <1>1, BusyFacts
<1> DEFINE n == core.attempt + 1
<1>3. PICK error \in ProviderErrors :
        IF AsksAgain(error, n, setup.retries) THEN core' = [core EXCEPT !.attempt = n]
        ELSE CASE core.pc = "fetch" -> Fail(ErrorOf(error, n))
               [] core.pc = "block" -> EnterInput
               [] core.pc = "accounts" -> core' = [core EXCEPT !.pc = "mark", !.unread = TRUE]
  BY DEF RequestFails
<1>4. CASE AsksAgain(error, n, setup.retries)
  BY <1>1, <1>3, <1>4, AgainCore DEF AsksAgain
<1>5. CASE ~AsksAgain(error, n, setup.retries) /\ core.pc = "fetch"
  <2>1. Fail(ErrorOf(error, n))
    BY <1>3, <1>5
  <2>2. IsTransient(error) => n = setup.retries + 1
    BY <1>2, <1>5 DEF AsksAgain
  <2>3. ~IsTransient(error) => error \notin {"RetryExhausted", "Handler"}
    BY RetryAssumption DEF IsTransient, TransientErrors, PermanentErrors
  <2> QED
    BY <1>1, <2>1, <2>2, <2>3, FailCore DEF ErrorOf
<1>6. CASE ~AsksAgain(error, n, setup.retries) /\ core.pc = "block"
  <2>1. EnterInput
    BY <1>3, <1>6
  <2> QED
    BY <1>1, <2>1, GotoCore DEF EnterInput
<1>7. CASE ~AsksAgain(error, n, setup.retries) /\ core.pc = "accounts"
  <2>1. core' = [core EXCEPT !.pc = "mark", !.unread = TRUE]
    BY <1>3, <1>7
  <2>2. core' = [pc |-> "mark", tx |-> core.tx, attempt |-> core.attempt, todo |-> core.todo,
                 done |-> core.done, unread |-> TRUE, error |-> core.error]
    BY <1>1, <2>1, BusyFacts
  <2> QED
    BY <1>1, <2>2, BusyFacts, CoreReplaced
<1> QED
  BY <1>1, <1>4, <1>5, <1>6, <1>7

LEMMA HandlerCore ==
  ASSUME ISetup, ICore, HandleEvent \/ HandlerFails
  PROVE  ICore'
<1>1. Busy /\ UNCHANGED <<phase, setup>> /\ core.pc # "failed"
  BY DEF HandleEvent, HandlerFails, Handling, Busy, OnlyCore
<1>2. phase = "run" /\ core.tx \in Transactions /\ setup.retries \in Nat
      /\ core.attempt \in Nat /\ core.attempt <= setup.retries
  BY <1>1, BusyFacts
<1>3. CASE HandleEvent
  <2>1. core' = [pc |-> core.pc, tx |-> core.tx, attempt |-> 0, todo |-> Tail(core.todo),
                 done |-> Append(core.done, Head(core.todo)), unread |-> core.unread,
                 error |-> core.error]
    BY <1>1, <1>3, BusyFacts DEF HandleEvent
  <2> QED
    BY <1>1, <1>2, <2>1, CoreReplaced
<1>4. CASE HandlerFails
  <2>1. CASE core.attempt + 1 <= setup.retries /\ core' = [core EXCEPT !.attempt = core.attempt + 1]
    BY <1>1, <2>1, AgainCore
  <2>2. CASE ~(core.attempt + 1 <= setup.retries)
             /\ Fail([kind |-> "Handler", attempts |-> core.attempt + 1])
    BY <1>1, <1>2, <2>2, FailCore
  <2> QED
    BY <1>4, <2>1, <2>2 DEF HandlerFails, CallsAgain
<1> QED
  BY <1>3, <1>4

LEMMA OtherCore ==
  ASSUME ISetup, ICore, Decode \/ RequestAnswered \/ NextStage \/ Record
  PROVE  ICore'
<1>1. Busy /\ UNCHANGED <<phase, setup>>
  BY DEF Decode, RequestAnswered, NextStage, Record, Busy, OnlyCore
<1>2. CASE Decode
  <2>1. CASE UNCHANGED core
    BY <1>1, <2>1 DEF ICore, Busy
  <2>2. CASE Goto("block")
    BY <1>1, <2>2, GotoCore
  <2>3. CASE Fail(ErrorOf("DecodingError", 1))
    <3>1. ErrorOf("DecodingError", 1).kind = "DecodingError"
      BY DEF ErrorOf, IsTransient, TransientErrors
    <3> QED
      BY <1>1, <2>3, <3>1, FailCore
  <2> QED
    BY <1>2, <2>1, <2>2, <2>3 DEF Decode
<1>3. CASE RequestAnswered
  <2>1. \E pc : Goto(pc) \/ \E todo : Stage(pc, todo)
    BY <1>3 DEF RequestAnswered, EnterInput
  <2> QED
    BY <1>1, <2>1, GotoCore
<1>4. CASE NextStage
  <2>1. CASE core.pc = "input" /\ setup.mode.logs
    BY <1>1, <1>4, <2>1, GotoCore DEF NextStage
  <2>2. CASE core.pc = "log" /\ setup.mode.accounts /\ AccountsOf(core.tx) # {}
    BY <1>1, <1>4, <2>2, GotoCore DEF NextStage
  <2>3. CASE ~(core.pc = "input" /\ setup.mode.logs)
             /\ ~(core.pc = "log" /\ setup.mode.accounts /\ AccountsOf(core.tx) # {})
    BY <1>1, <1>4, <2>3, GotoCore DEF NextStage
  <2> QED
    BY <2>1, <2>2, <2>3
<1>5. CASE Record
  <2>1. CASE Goto("recorded")
    BY <1>1, <2>1, GotoCore
  <2>2. CASE Fail([kind |-> "Database", attempts |-> 1])
    BY <1>1, <2>2, FailCore
  <2> QED
    BY <1>5, <2>1, <2>2 DEF Record
<1> QED
  BY <1>2, <1>3, <1>4, <1>5

LEMMA NextCore == ISetup /\ ICore /\ [Next]_vars => ICore'
<1> SUFFICES ASSUME ISetup, ICore, [Next]_vars PROVE ICore'
  OBVIOUS
<1>1. CASE UNCHANGED core /\ (UNCHANGED <<phase, setup>> \/ phase # "run")
  BY <1>1 DEF ICore, Busy
<1>2. CASE SetupStep \/ Build \/ New \/ \E r \in Registrations : Register(r)
  BY <1>1, <1>2, SetupKeeps DEF Build, New, Register, OnlySetup
<1>3. CASE Start
  BY <1>3 DEF Start, OnlySetup, ICore, Busy
<1>4. ASSUME NEW t \in Transactions, Begin(t)
      PROVE  ICore'
  <2>1. phase = "run" /\ UNCHANGED <<phase, setup>> /\ setup.retries \in Nat
    BY <1>4 DEF Begin, OnlyCore, ISetup, SoundSettings
  <2>2. PICK pc \in {"fetch", "decode"} : core' = [NoTransaction EXCEPT !.pc = pc, !.tx = t]
    BY <1>4 DEF Begin
  <2>3. core' = [pc |-> pc, tx |-> t, attempt |-> 0, todo |-> <<>>, done |-> <<>>,
                 unread |-> FALSE, error |-> NoError]
    BY <2>2 DEF NoTransaction
  <2>4. /\ core'.pc = pc /\ core'.tx = t /\ core'.attempt = 0 /\ core'.error.kind = "none"
        /\ core' = [pc |-> core'.pc, tx |-> core'.tx, attempt |-> core'.attempt,
                    todo |-> core'.todo, done |-> core'.done, unread |-> core'.unread,
                    error |-> core'.error]
    BY <2>3 DEF NoError
  <2>5. phase' = "run" /\ core'.attempt <= setup'.retries
    BY <2>1, <2>4
  <2> QED
    BY <2>4, <2>5 DEF ICore, Busy
<1>5. CASE CoreStep
  BY <1>5, RequestFailsCore, HandlerCore, OtherCore DEF CoreStep
<1>6. CASE UNCHANGED vars
  BY <1>1, <1>6 DEF vars
<1> QED
  BY <1>2, <1>3, <1>4, <1>5, <1>6, Steps

\* A task gives up on a request or a handler after exactly max_retries + 1
\* attempts, for every max_retries and every sequence of errors.
THEOREM PipelineRetries == Spec => []RetriesAsConfigured
<1>1. ICore => RetriesAsConfigured
  BY DEF ICore, RetriesAsConfigured
<1> QED
  BY <1>1, InitSetup, NextSetup, InitCore, NextCore, PTL DEF Spec

-----------------------------------------------------------------------------
(* The parser of the log.                                                  *)

Attributed(t) ==
  \A i \in DOMAIN parser.events :
    parser.events[i].key = Current(Running(t, parser.events[i].at))

\* Its stack is that of the runtime before the line it is at.
InStep(t) ==
  /\ parser.line <= Len(Content[t].lines) + 1
  /\ parser.stack = Running(t, parser.line - 1)

IParse ==
  /\ ParserTypeOK
  /\ core.pc \in {"fetch", "decode"} => InStep(core.tx)
  /\ Attributed(core.tx)

LEMMA LinesType ==
  ASSUME NEW t \in Transactions
  PROVE  /\ Content[t].lines \in Seq(Line)
         /\ \A i \in 1..Len(Content[t].lines) : Content[t].lines[i] \in Line
  BY DecodingAssumption DEF ContentOf

\* What the runtime's discipline says of one line.
LEMMA LineFacts ==
  ASSUME NEW t \in Transactions, NEW i \in 1..Len(Content[t].lines)
  PROVE  LET l == Content[t].lines[i]
         IN  /\ Running(t, i) = l.running
             /\ l.kind = "invoke" =>
                  /\ l.program # NoProgram /\ l.mentions = "nothing"
                  /\ l.running = Append(Running(t, i - 1), l.program)
             /\ l.kind \in {"success", "failed"} =>
                  /\ l.program # NoProgram /\ l.mentions = "nothing"
                  /\ Running(t, i - 1) # <<>> /\ l.running = Front(Running(t, i - 1))
             /\ l.kind \notin {"invoke", "success", "failed"} =>
                  l.program = NoProgram /\ l.running = Running(t, i - 1)
<1> DEFINE l == Content[t].lines[i]
<1>1. LoggedByRuntime(t) /\ i \in DOMAIN Content[t].lines
  BY DecodingAssumption, LinesType
<1>2. l.kind = "invoke" =>
        /\ l.program # NoProgram /\ l.mentions = "nothing"
        /\ l.running = Append(Running(t, i - 1), l.program)
  BY <1>1 DEF LoggedByRuntime
<1>3. l.kind \in {"success", "failed"} =>
        /\ l.program # NoProgram /\ l.mentions = "nothing"
        /\ Running(t, i - 1) # <<>> /\ l.running = Front(Running(t, i - 1))
  BY <1>1 DEF LoggedByRuntime
<1>4. l.kind \notin {"invoke", "success", "failed"} =>
        l.program = NoProgram /\ l.running = Running(t, i - 1)
  BY <1>1 DEF LoggedByRuntime
<1>5. Running(t, i) = l.running
  BY DEF Running
<1> QED
  BY <1>2, <1>3, <1>4, <1>5

LEMMA EventType ==
  ASSUME NEW type \in {"invoke", "data", "log"}, NEW key \in Programs \union {NoProgram},
         NEW form \in Forms, NEW at \in Nat \ {0}
  PROVE  [type |-> type, key |-> key, form |-> form, at |-> at] \in ParsedEvent
  BY DEF ParsedEvent

\* A step of the parser that leaves it with the stack of the runtime, and with
\* at most one event more, attributed to its top.
LEMMA ParsedStep ==
  ASSUME NEW t \in Transactions, ParserTypeOK, InStep(t), Attributed(t), MoreLines(t),
         NEW events \in Seq(ParsedEvent),
         parser' = [line |-> parser.line + 1, stack |-> Running(t, parser.line),
                    events |-> events],
         \/ events = parser.events
         \/ \E e \in ParsedEvent :
              /\ events = Append(parser.events, e)
              /\ e.at = parser.line /\ e.key = Current(Running(t, parser.line))
  PROVE  ParserTypeOK' /\ InStep(t)' /\ Attributed(t)'
<1>1. /\ parser.line \in 1..Len(Content[t].lines) /\ Len(Content[t].lines) \in Nat
      /\ parser.events \in Seq(ParsedEvent)
  BY LinesType DEF MoreLines, ParserTypeOK
<1>2. Running(t, parser.line) \in Seq(Programs)
  <2>1. Content[t].lines[parser.line] \in Line
    BY <1>1, LinesType
  <2>2. Running(t, parser.line) = Content[t].lines[parser.line].running
    BY <1>1 DEF Running
  <2> QED
    BY <2>1, <2>2 DEF Line
<1>3. ParserTypeOK'
  BY <1>1, <1>2 DEF ParserTypeOK
<1>4. InStep(t)'
  <2>1. parser'.line = parser.line + 1 /\ parser'.stack = Running(t, parser.line)
    OBVIOUS
  <2>2. parser'.line <= Len(Content[t].lines) + 1 /\ parser'.line - 1 = parser.line
    BY <1>1, <2>1
  <2> QED
    BY <2>1, <2>2 DEF InStep
<1>5. Attributed(t)'
  <2>1. CASE events = parser.events
    BY <2>1 DEF Attributed
  <2>2. ASSUME NEW e \in ParsedEvent, events = Append(parser.events, e), e.at = parser.line,
               e.key = Current(Running(t, parser.line))
        PROVE  Attributed(t)'
    <3>1. SUFFICES ASSUME NEW k \in DOMAIN events
                   PROVE  events[k].key = Current(Running(t, events[k].at))
      BY DEF Attributed
    <3>2. CASE k \in DOMAIN parser.events
      BY <1>1, <2>2, <3>2 DEF Attributed
    <3>3. CASE k = Len(parser.events) + 1
      BY <1>1, <2>2, <3>3
    <3> QED
      BY <1>1, <2>2, <3>1, <3>2, <3>3
  <2> QED
    BY <2>1, <2>2
<1> QED
  BY <1>3, <1>4, <1>5

LEMMA ParseStep ==
  ASSUME NEW t \in Transactions, ParserTypeOK, InStep(t), Attributed(t), ParseLine(t)
  PROVE  ParserTypeOK' /\ InStep(t)' /\ Attributed(t)'
<1> DEFINE i == parser.line
           l == Content[t].lines[i]
           event(type, key) == [type |-> type, key |-> key, form |-> l.form, at |-> i]
<1>1. i \in 1..Len(Content[t].lines) /\ parser.stack \in Seq(Programs)
      /\ parser.events \in Seq(ParsedEvent) /\ Len(Content[t].lines) \in Nat
  BY LinesType DEF ParseLine, MoreLines, ParserTypeOK
<1>2. l \in Line /\ parser.stack = Running(t, i - 1)
  BY <1>1, LinesType DEF InStep
<1>3. Running(t, i) = l.running
  BY <1>1, LineFacts
<1> DEFINE NextParser(stack, events) ==
             parser' = [line |-> i + 1, stack |-> stack, events |-> events]
           Emitted(type, key) == Append(parser.events, event(type, key))
<1>8. \/ LooksLikeInvoke(l) /\ NextParser(IF l.program # NoProgram THEN Append(parser.stack, l.program)
                                           ELSE parser.stack,
                                           IF l.program # NoProgram THEN Emitted("invoke", l.program)
                                           ELSE parser.events)
      \/ LooksLikeResult(l) /\ NextParser(IF l.program # NoProgram /\ parser.stack # <<>>
                                           THEN Front(parser.stack) ELSE parser.stack,
                                           parser.events)
      \/ /\ ~LooksLikeInvoke(l) /\ ~LooksLikeResult(l)
         /\ NextParser(parser.stack, IF l.kind \in {"data", "log"}
                                     THEN Emitted(l.kind, Current(parser.stack)) ELSE parser.events)
  BY DEF ParseLine, ReadInvoke, ReadResult, ReadMessage, Parsed, Emit
<1>4. MoreLines(t) /\ parser.line = i /\ i \in Nat \ {0}
  BY <1>1 DEF ParseLine, ParserTypeOK
<1>5. CASE l.kind = "invoke"
  <2>1. /\ l.program # NoProgram /\ l.program \in Programs
        /\ l.running = Append(parser.stack, l.program)
    BY <1>1, <1>2, <1>5, LineFacts DEF Line
  <2> DEFINE e == event("invoke", l.program)
  <2>2. NextParser(l.running, Append(parser.events, e))
    BY <1>8, <1>5, <2>1 DEF LooksLikeInvoke, LooksLikeResult
  <2>3. l.form \in Forms
    BY <1>2 DEF Line
  <2>4. e \in ParsedEvent /\ e.at = i /\ e.key = l.program
    BY <1>4, <2>1, <2>3, EventType
  <2>5. Current(l.running) = l.program
    BY <1>1, <2>1 DEF Current, Last
  <2>6. Append(parser.events, e) \in Seq(ParsedEvent)
    BY <1>1, <2>4
  <2> HIDE DEF e, l, i
  <2> QED
    BY <1>3, <1>4, <2>2, <2>4, <2>5, <2>6, ParsedStep
<1>6. CASE l.kind \in {"success", "failed"}
  <2>1. /\ l.program # NoProgram /\ l.mentions = "nothing"
        /\ parser.stack # <<>> /\ l.running = Front(parser.stack)
    BY <1>1, <1>2, <1>6, LineFacts
  <2>2. NextParser(l.running, parser.events)
    BY <1>8, <1>6, <2>1 DEF LooksLikeInvoke, LooksLikeResult
  <2> HIDE DEF l, i
  <2> QED
    BY <1>1, <1>3, <1>4, <2>2, ParsedStep
<1>7. CASE l.kind \notin {"invoke", "success", "failed"}
  <2>1. l.program = NoProgram /\ l.running = parser.stack
    BY <1>1, <1>2, <1>7, LineFacts
  <2> DEFINE e == event(l.kind, Current(parser.stack))
  <2>2. \/ NextParser(l.running, parser.events)
        \/ l.kind \in {"data", "log"} /\ NextParser(l.running, Append(parser.events, e))
    BY <1>8, <1>7, <2>1
  <2>3. Current(parser.stack) \in Programs \union {NoProgram} /\ l.form \in Forms
    <3>1. Current(parser.stack) \in Programs \union {NoProgram}
      BY <1>1 DEF Current, Last
    <3>2. l.form \in Forms
      BY <1>2 DEF Line
    <3> QED
      BY <3>1, <3>2
  <2>4. l.kind \in {"data", "log"} =>
          e \in ParsedEvent /\ e.at = i /\ e.key = Current(l.running)
    BY <1>4, <2>1, <2>3, EventType
  <2>5. e \in ParsedEvent => Append(parser.events, e) \in Seq(ParsedEvent)
    BY <1>1
  <2> HIDE DEF e, l, i
  <2>6. CASE NextParser(l.running, parser.events)
    BY <1>1, <1>3, <1>4, <2>6, ParsedStep
  <2>7. CASE l.kind \in {"data", "log"} /\ NextParser(l.running, Append(parser.events, e))
    BY <1>3, <1>4, <2>4, <2>5, <2>7, ParsedStep
  <2> QED
    BY <2>2, <2>6, <2>7
<1> QED
  BY <1>5, <1>6, <1>7

\* Nothing but Begin moves the task to another transaction, or back to its log.
SameLog ==
  /\ UNCHANGED parser /\ core'.tx = core.tx
  /\ core'.pc \in {"fetch", "decode"} => core.pc \in {"fetch", "decode"}

LEMMA MovesOn ==
  ASSUME ICore, UNCHANGED parser,
         \/ \E pc \in {"block", "accounts", "mark", "recorded"} : Goto(pc)
         \/ core.pc = "fetch" /\ Goto("decode")
         \/ \E pc \in {"input", "log", "account"} : \E todo : Stage(pc, todo)
         \/ \E error : Fail(error)
         \/ \E n : core' = [core EXCEPT !.attempt = n]
         \/ core' = [core EXCEPT !.pc = "mark", !.unread = TRUE]
  PROVE  SameLog
  BY DEF ICore, SameLog, Goto, Stage, Fail

LEMMA CoreSameLog ==
  ASSUME ICore, CoreStep, ~Decode \/ UNCHANGED parser
  PROVE  SameLog
<1>1. CASE RequestFails
  <2>1. PICK error \in ProviderErrors :
          LET n == core.attempt + 1
          IN  IF AsksAgain(error, n, setup.retries) THEN core' = [core EXCEPT !.attempt = n]
              ELSE CASE core.pc = "fetch" -> Fail(ErrorOf(error, n))
                     [] core.pc = "block" -> EnterInput
                     [] core.pc = "accounts" -> core' = [core EXCEPT !.pc = "mark", !.unread = TRUE]
    BY <1>1 DEF RequestFails
  <2>2. UNCHANGED parser /\ core.pc \in {"fetch", "block", "accounts"}
    BY <1>1 DEF RequestFails
  <2> QED
    BY <2>1, <2>2, MovesOn DEF EnterInput
<1>2. CASE HandleEvent
  BY <1>2 DEF HandleEvent, Handling, ICore, SameLog
<1>3. CASE HandlerFails
  BY <1>3, MovesOn DEF HandlerFails
<1>4. CASE NextStage
  <2>1. \/ Goto("mark") \/ Goto("accounts")
        \/ Stage("log", DecodeEach("log", parser.events))
    BY <1>4 DEF NextStage
  <2> QED
    BY <1>4, <2>1, MovesOn DEF NextStage
<1>5. CASE Record
  BY <1>5, MovesOn DEF Record
<1>6. CASE RequestAnswered
  BY <1>6, MovesOn DEF RequestAnswered, EnterInput
<1>7. CASE Decode /\ UNCHANGED parser
  BY <1>7, MovesOn DEF Decode, ParseLine, SameLog
<1> QED
  BY <1>1, <1>2, <1>3, <1>4, <1>5, <1>6, <1>7 DEF CoreStep

LEMMA NextParse == ICore /\ IParse /\ [Next]_vars => IParse'
<1> SUFFICES ASSUME ICore, IParse, [Next]_vars PROVE IParse'
  OBVIOUS
<1>1. CASE SameLog
  BY <1>1 DEF SameLog, IParse, ParserTypeOK, InStep, Attributed
<1>2. CASE SetupStep \/ Build \/ New \/ Start \/ \E r \in Registrations : Register(r)
  BY <1>1, <1>2, SetupKeeps DEF Build, New, Register, Start, OnlySetup, SameLog
<1>3. ASSUME NEW t \in Transactions, Begin(t)
      PROVE  IParse'
  <2>1. parser' = NewParser /\ core'.tx = t
    BY <1>3 DEF Begin, NoTransaction
  <2>2. ParserTypeOK' /\ Attributed(t)'
    BY <2>1 DEF NewParser, ParserTypeOK, Attributed
  <2>3. InStep(t)'
    BY <2>1, LinesType DEF NewParser, InStep, Running
  <2> QED
    BY <2>1, <2>2, <2>3 DEF IParse, InStep, Attributed
<1>4. CASE Decode /\ ParseLine(core.tx) /\ UNCHANGED core
  <2>1. core.tx \in Transactions /\ core.pc = "decode"
    BY <1>4 DEF Decode, ICore
  <2>2. ParserTypeOK' /\ InStep(core.tx)' /\ Attributed(core.tx)'
    BY <1>4, <2>1, ParseStep DEF IParse, InStep, Attributed
  <2> QED
    BY <1>4, <2>2 DEF IParse
<1>5. CASE CoreStep
  BY <1>1, <1>4, <1>5, CoreSameLog DEF Decode
<1>6. CASE UNCHANGED vars
  BY <1>1, <1>6 DEF vars, SameLog
<1> QED
  BY <1>2, <1>3, <1>5, <1>6, Steps

\* Every event of a log is attributed to the program that was running when its
\* line was written, for every log the runtime can write, however its programs
\* call each other and whatever they write into their own messages.
THEOREM PipelineAttribution == Spec => []Attribution
<1>1. Init => IParse
  BY DEF Init, NoTransaction, NewParser, IParse, ParserTypeOK, Attributed
<1>2. IParse => Attribution
  BY DEF IParse, Attributed, Attribution
<1> QED
  BY <1>1, <1>2, InitSetup, NextSetup, InitCore, NextCore, NextParse, PTL DEF Spec

-----------------------------------------------------------------------------
(* Induction over the length of data.  The theorems of the library take    *)
(* what is to be proved as an operator; a set of numbers does as well.     *)

LEMMA Smallest ==
  ASSUME NEW T, T \subseteq Nat, T # {}
  PROVE  \E x \in T : \A y \in T : x <= y
<1>1. \E x \in T : \A y \in T : ~(<<y, x>> \in OpToRel(<, Nat))
  BY NatLessThanWellFounded, WFMin
<1>2. PICK x \in T : \A y \in T : ~(y < x)
  BY <1>1 DEF OpToRel
<1>3. x \in Nat /\ \A y \in T : y \in Nat /\ ~(y < x)
  BY <1>2
<1>4. \A y \in T : x <= y
  BY <1>3
<1> QED
  BY <1>4

LEMMA AllNumbers ==
  ASSUME NEW T, 0 \in T, \A n \in Nat : n \in T => n + 1 \in T
  PROVE  Nat \subseteq T
<1> SUFFICES ASSUME Nat \ T # {} PROVE FALSE
  OBVIOUS
<1>1. PICK n \in Nat \ T : \A m \in Nat \ T : n <= m
  BY Smallest
<1>2. n # 0 /\ n \in Nat
  BY <1>1
<1>3. n - 1 \in Nat /\ ~(n <= n - 1) /\ (n - 1) + 1 = n
  BY <1>2
<1>4. n - 1 \in T
  BY <1>1, <1>3
<1> QED
  BY <1>1, <1>3, <1>4

-----------------------------------------------------------------------------
(* Positions in their order, and what the decoders make of them.           *)

Ascending(f) == \A i, k \in DOMAIN f : i < k => f[i] < f[k]

LEMMA OrderExists ==
  ASSUME NEW N \in Nat, NEW S, S \subseteq 1..N
  PROVE  \E f \in [1..Cardinality(S) -> S] : Ascending(f)
<1> DEFINE T == {n \in Nat : \A P \in SUBSET (1..n) :
                   \E f \in [1..Cardinality(P) -> P] : Ascending(f)}
<1>1. 0 \in T
  <2>1. SUBSET (1..0) = {{}} /\ Cardinality({}) = 0
    BY FS_EmptySet
  <2>2. <<>> \in [1..0 -> {}] /\ Ascending(<<>>)
    BY DEF Ascending
  <2> QED
    BY <2>1, <2>2
<1>2. ASSUME NEW n \in Nat, n \in T, NEW P \in SUBSET (1..(n + 1))
      PROVE  \E f \in [1..Cardinality(P) -> P] : Ascending(f)
  <2> DEFINE Q == P \ {n + 1}
             c == Cardinality(Q)
  <2>1. Q \in SUBSET (1..n)
    OBVIOUS
  <2>2. PICK g \in [1..c -> Q] : Ascending(g)
    BY <1>2, <2>1
  <2>3. CASE n + 1 \notin P
    <3>1. Q = P
      BY <2>3
    <3> QED
      BY <2>2, <3>1
  <2>4. CASE n + 1 \in P
    <3>1. IsFiniteSet(Q)
      <4>1. IsFiniteSet(1..n)
        BY FS_Interval
      <4> QED
        BY <2>1, <4>1, FS_Subset
    <3>2. c \in Nat /\ P = Q \union {n + 1} /\ n + 1 \notin Q
      BY <2>4, <3>1, FS_CardinalityType
    <3>3. Cardinality(P) = c + 1
      BY <3>1, <3>2, FS_AddElement
    <3> DEFINE f == [i \in 1..(c + 1) |-> IF i = c + 1 THEN n + 1 ELSE g[i]]
    <3> HIDE DEF Q, c
    <3>4. \A i \in 1..c : g[i] \in Q /\ g[i] < n + 1
      <4>1. \A i \in 1..c : g[i] \in Q
        BY <2>2
      <4>2. \A x \in Q : x \in Int /\ x < n + 1
        BY <2>1
      <4> QED
        BY <4>1, <4>2
    <3>5. f \in [1..(c + 1) -> P]
      BY <3>2, <3>4
    <3>6. Ascending(f)
      <4> SUFFICES ASSUME NEW i \in 1..(c + 1), NEW k \in 1..(c + 1), i < k
                   PROVE  f[i] < f[k]
        BY DEF Ascending
      <4>1. i \in 1..c /\ f[i] = g[i]
        BY <3>2
      <4>2. CASE k = c + 1
        BY <3>4, <4>1, <4>2
      <4>3. CASE k # c + 1
        <5>1. k \in 1..c /\ f[k] = g[k]
          BY <3>2, <4>3
        <5> QED
          BY <2>2, <4>1, <5>1 DEF Ascending
      <4> QED
        BY <4>2, <4>3
    <3> QED
      BY <3>3, <3>5, <3>6
  <2> QED
    BY <2>3, <2>4
<1>3. \A n \in Nat : n \in T => n + 1 \in T
  <2> SUFFICES ASSUME NEW n \in Nat, n \in T PROVE n + 1 \in T
    OBVIOUS
  <2>1. n + 1 \in Nat
    OBVIOUS
  <2>2. \A P \in SUBSET (1..(n + 1)) : \E f \in [1..Cardinality(P) -> P] : Ascending(f)
    BY <1>2, Zenon
  <2> QED
    BY <2>1, <2>2, Zenon
<1> HIDE DEF T
<1>4. N \in T
  BY <1>1, <1>3, AllNumbers
<1> QED
  BY <1>4 DEF T

\* InOrder lists its positions, each once and in ascending order.
LEMMA InOrderLists ==
  ASSUME NEW N \in Nat, NEW S, S \subseteq 1..N
  PROVE  /\ Cardinality(S) \in Nat
         /\ InOrder(S) \in [1..Cardinality(S) -> S]
         /\ Ascending(InOrder(S))
         /\ \A x \in S : \E i \in 1..Cardinality(S) : InOrder(S)[i] = x
<1> DEFINE f == InOrder(S)
           n == Cardinality(S)
<1>1. IsFiniteSet(S) /\ n \in Nat
  <2>1. IsFiniteSet(1..N)
    BY FS_Interval
  <2>2. IsFiniteSet(S)
    BY <2>1, FS_Subset
  <2> QED
    BY <2>2, FS_CardinalityType
<1>2. f \in [1..n -> S] /\ Ascending(f)
  <2>1. \E g \in [1..n -> S] : \A i, k \in DOMAIN g : i < k => g[i] < g[k]
    BY OrderExists DEF Ascending
  <2> HIDE DEF n
  <2> QED
    BY <2>1 DEF InOrder, Ascending, n
<1> HIDE DEF f
<1>3. \A i \in 1..n : f[i] \in Nat
  <2>1. \A x \in S : x \in Nat
    OBVIOUS
  <2>2. \A i \in 1..n : f[i] \in S
    BY <1>2
  <2> QED
    BY <2>1, <2>2
<1>4. f \in Injection(1..n, S)
  <2>1. ASSUME NEW i \in 1..n, NEW k \in 1..n, f[i] = f[k] PROVE i = k
    <3>1. i \in Int /\ k \in Int /\ ~(i < k) /\ ~(k < i)
      BY <1>1, <1>2, <1>3, <2>1 DEF Ascending
    <3> QED
      BY <3>1
  <2> QED
    BY <1>2, <2>1 DEF Injection, IsInjective
<1>5. f \in Surjection(1..n, S)
  <2>1. Cardinality(1..n) = n
    <3> HIDE DEF n
    <3> QED
      BY <1>1, FS_Interval
  <2> QED
    BY <1>1, <1>4, <2>1, FS_Injection
<1> QED
  BY <1>1, <1>2, <1>5 DEF Surjection, f

LEMMA DecodedFirst ==
  ASSUME NEW ds \in Seq(Decoder), NEW form
  PROVE  /\ Decoded(ds, form) \in Events \union {NoEvent}
         /\ \A e \in Events :
              Decoded(ds, form) = e <=>
                \E i \in DOMAIN ds : /\ form \in ds[i].reads /\ ds[i].event = e
                                     /\ \A k \in 1..(i - 1) : form \notin ds[k].reads
<1> DEFINE hits == {i \in DOMAIN ds : form \in ds[i].reads}
<1>1. Len(ds) \in Nat /\ DOMAIN ds = 1..Len(ds) /\ \A i \in DOMAIN ds : ds[i].event \in Events
  <2>1. Len(ds) \in Nat /\ DOMAIN ds = 1..Len(ds) /\ \A i \in DOMAIN ds : ds[i] \in Decoder
    OBVIOUS
  <2>2. \A d \in Decoder : d.event \in Events
    BY DEF Decoder
  <2> QED
    BY <2>1, <2>2
<1>2. CASE hits = {}
  BY <1>2, RegistryAssumption DEF Decoded
<1>3. CASE hits # {}
  <2> DEFINE first == CHOOSE i \in hits : \A k \in hits : i <= k
  <2>1. hits \subseteq Nat
    BY <1>1
  <2> HIDE DEF hits
  <2>2. first \in hits /\ \A k \in hits : first <= k
    BY <1>3, <2>1, Smallest
  <2>3. Decoded(ds, form) = ds[first].event
    BY <1>3 DEF Decoded, hits
  <2> HIDE DEF first
  <2>4. first \in DOMAIN ds /\ form \in ds[first].reads
    BY <2>2 DEF hits
  <2>5. \A k \in 1..(first - 1) : form \notin ds[k].reads
    <3> SUFFICES ASSUME NEW k \in 1..(first - 1), form \in ds[k].reads PROVE FALSE
      OBVIOUS
    <3>1. first \in Nat /\ k \in DOMAIN ds /\ ~(first <= k)
      BY <1>1, <2>4
    <3> QED
      BY <2>2, <3>1 DEF hits
  <2>6. ASSUME NEW i \in DOMAIN ds, form \in ds[i].reads, \A k \in 1..(i - 1) : form \notin ds[k].reads
        PROVE  i = first
    <3>1. first <= i
      BY <2>2, <2>6 DEF hits
    <3>2. first \notin 1..(i - 1)
      BY <2>4, <2>6
    <3> QED
      BY <1>1, <2>4, <3>1, <3>2
  <2> QED
    BY <1>1, <2>3, <2>4, <2>5, <2>6
<1> QED
  BY <1>2, <1>3

\* Only decoders are registered as decoders.
IDecoders ==
  /\ RegistryTypeOK
  /\ \A kind \in Kinds \ Handlers : \A key \in Keys : registry.items[kind][key] \in Seq(Decoder)

LEMMA EventYielded ==
  ASSUME IDecoders, NEW kind \in Kinds \ Handlers, NEW item
  PROVE  /\ EventOf(kind, item) \in Events \union {NoEvent}
         /\ \A e \in Events :
              EventOf(kind, item) = e <=> Yields(kind, item.key, item.form, e)
<1>1. CASE item.key \in Keys
  <2>1. registry.items[kind][item.key] \in Seq(Decoder)
    BY <1>1 DEF IDecoders
  <2> QED
    BY <1>1, <2>1, DecodedFirst DEF EventOf, Yields
<1>2. CASE item.key \notin Keys
  BY <1>2, RegistryAssumption DEF EventOf, Yields
<1> QED
  BY <1>1, <1>2

EventFrom(kind, item) == [kind |-> kind, at |-> item.at, event |-> EventOf(kind, item)]

\* Items of a transaction, in its order.
Rising(items) ==
  /\ Len(items) \in Nat /\ DOMAIN items = 1..Len(items)
  /\ \A i \in DOMAIN items : items[i].at \in Nat \ {0}
  /\ \A i, k \in DOMAIN items : i < k => items[i].at < items[k].at

\* A queue of the events of some items.
Gives(items, kind, q) ==
  /\ q \in Seq(EventRecord)
  /\ \A i, k \in DOMAIN q : i < k => q[i].at < q[k].at
  /\ \A i \in DOMAIN q : \E m \in DOMAIN items :
       q[i] = EventFrom(kind, items[m]) /\ EventOf(kind, items[m]) \in Events
  /\ \A m \in DOMAIN items :
       EventOf(kind, items[m]) \in Events => \E i \in DOMAIN q : q[i] = EventFrom(kind, items[m])

LEMMA EachDecoded ==
  ASSUME IDecoders, NEW kind \in {"input", "log"}, NEW items, Rising(items)
  PROVE  Gives(items, kind, DecodeEach(kind, items))
<1> DEFINE n == Len(items)
           q == DecodeEach(kind, items)
           record(m) == EventFrom(kind, items[m])
           events == [i \in DOMAIN items |-> EventOf(kind, items[i])]
           S == {i \in DOMAIN items : events[i] # NoEvent}
           f == InOrder(S)
           c == Cardinality(S)
<1>0. /\ n \in Nat /\ DOMAIN items = 1..n
      /\ \A i \in 1..n : items[i].at \in Nat \ {0}
      /\ \A i, k \in 1..n : i < k => items[i].at < items[k].at
  BY DEF Rising
<1>1. kind \in Kinds \ Handlers
  BY DEF Kinds, Handlers
<1> HIDE DEF n
<1>2. \A m \in 1..n : EventOf(kind, items[m]) \in Events \union {NoEvent}
  BY <1>1, EventYielded
<1>3. \A m \in S : m \in 1..n /\ EventOf(kind, items[m]) \in Events
  BY <1>2, <1>0
<1>4. \A m \in 1..n : EventOf(kind, items[m]) \in Events => m \in S
  BY <1>0, RegistryAssumption
<1>5. q = [i \in DOMAIN f |-> [kind |-> kind, at |-> items[f[i]].at, event |-> events[f[i]]]]
  BY DEF DecodeEach
<1>6. S \subseteq 1..n
  BY <1>3
<1>7. \A m \in S : events[m] = EventOf(kind, items[m])
  BY <1>3
<1> HIDE DEF S, events
<1>8. /\ c \in Nat /\ f \in [1..c -> S] /\ Ascending(f)
      /\ \A x \in S : \E i \in 1..c : f[i] = x
  BY <1>6, <1>0, InOrderLists
<1> HIDE DEF f, c, q
<1>9. \A i \in 1..c : f[i] \in S
  BY <1>8
<1>10. DOMAIN q = 1..c /\ \A i \in 1..c : q[i] = record(f[i])
  BY <1>5, <1>7, <1>8, <1>9 DEF EventFrom
<1>11. \A i \in 1..c : /\ f[i] \in 1..n /\ q[i].event \in Events
                       /\ q[i] \in EventRecord
  BY <1>3, <1>9, <1>10, <1>0 DEF EventRecord, EventFrom
<1>12. q \in Seq(EventRecord)
  <2>1. q = [i \in 1..c |-> q[i]]
    BY <1>5, <1>8
  <2> QED
    BY <1>8, <1>11, <2>1, IsASeq
<1>13. \A i, k \in DOMAIN q : i < k => q[i].at < q[k].at
  <2> SUFFICES ASSUME NEW i \in 1..c, NEW k \in 1..c, i < k PROVE q[i].at < q[k].at
    BY <1>10
  <2>1. f[i] < f[k] /\ f[i] \in 1..n /\ f[k] \in 1..n
    BY <1>8, <1>11 DEF Ascending
  <2>2. q[i].at = items[f[i]].at /\ q[k].at = items[f[k]].at
    BY <1>10 DEF EventFrom
  <2> QED
    BY <1>0, <2>1, <2>2
<1>14. \A i \in DOMAIN q : \E m \in 1..n :
         q[i] = record(m) /\ EventOf(kind, items[m]) \in Events
  BY <1>3, <1>9, <1>10, <1>11
<1>15. \A m \in 1..n : EventOf(kind, items[m]) \in Events => \E i \in DOMAIN q : q[i] = record(m)
  <2> SUFFICES ASSUME NEW m \in 1..n, EventOf(kind, items[m]) \in Events
               PROVE  \E i \in 1..c : q[i] = record(m)
    BY <1>10
  <2>1. PICK i \in 1..c : f[i] = m
    BY <1>4, <1>8
  <2> QED
    BY <1>10, <2>1
<1> QED
  BY <1>12, <1>13, <1>14, <1>15, <1>0 DEF q, Gives

-----------------------------------------------------------------------------
(* The accounts: a sequence of sequences, and an order of a set.           *)

LEMMA FlattenDefined ==
  ASSUME NEW s, NEW n \in Nat
  PROVE  \E f : f = [i \in 1..n |-> IF i = 1 THEN s[i] ELSE f[i - 1] \o s[i]]
<1> DEFINE T == {k \in Nat : \E f : f = [i \in 1..k |-> IF i = 1 THEN s[i] ELSE f[i - 1] \o s[i]]}
<1>1. 0 \in T
  <2>1. <<>> = [i \in 1..0 |-> IF i = 1 THEN s[i] ELSE <<>>[i - 1] \o s[i]]
    OBVIOUS
  <2> QED
    BY <2>1
<1>2. ASSUME NEW k \in Nat, k \in T PROVE k + 1 \in T
  <2>1. PICK f : f = [i \in 1..k |-> IF i = 1 THEN s[i] ELSE f[i - 1] \o s[i]]
    BY <1>2
  <2> DEFINE next(h, i) == IF i = 1 THEN s[i] ELSE h[i - 1] \o s[i]
             g == [i \in 1..(k + 1) |-> next(f, i)]
  <2>2. \A i \in 1..k : f[i] = next(f, i)
    BY <2>1, Zenon
  <2>3. \A i \in 1..(k + 1) : g[i] = next(f, i)
    BY Zenon
  <2> HIDE DEF g
  <2>4. \A i \in 1..k : g[i] = f[i]
    <3>1. \A i \in 1..k : i \in 1..(k + 1)
      OBVIOUS
    <3> HIDE DEF next
    <3> QED
      BY <2>2, <2>3, <3>1
  <2>5. \A i \in 1..(k + 1) : next(g, i) = next(f, i)
    <3> SUFFICES ASSUME NEW i \in 1..(k + 1), i # 1 PROVE g[i - 1] = f[i - 1]
      BY Zenon
    <3>1. i - 1 \in 1..k
      OBVIOUS
    <3> QED
      BY <2>4, <3>1
  <2>6. g = [i \in 1..(k + 1) |-> next(g, i)]
    BY <2>5 DEF g
  <2>7. \E h : h = [i \in 1..(k + 1) |-> IF i = 1 THEN s[i] ELSE h[i - 1] \o s[i]]
    BY <2>6, Zenon
  <2> HIDE DEF next
  <2>8. k + 1 \in Nat
    OBVIOUS
  <2> QED
    BY <2>7, <2>8, Zenon
<1> HIDE DEF T
<1>3. n \in T
  BY <1>1, <1>2, AllNumbers
<1> QED
  BY <1>3 DEF T

LEMMA ConcatRange ==
  ASSUME NEW S, NEW s \in Seq(S), NEW t \in Seq(S)
  PROVE  /\ s \o t \in Seq(S)
         /\ \A e : e \in Range(s \o t) <=> e \in Range(s) \/ e \in Range(t)
<1>1. /\ s \o t \in Seq(S) /\ Len(s \o t) = Len(s) + Len(t)
      /\ \A i \in 1..(Len(s) + Len(t)) : (s \o t)[i] = IF i <= Len(s) THEN s[i] ELSE t[i - Len(s)]
  BY ConcatProperties
<1>2. /\ Len(s) \in Nat /\ DOMAIN s = 1..Len(s) /\ Len(t) \in Nat /\ DOMAIN t = 1..Len(t)
      /\ DOMAIN (s \o t) = 1..(Len(s) + Len(t))
  BY <1>1, LenProperties
<1>3. ASSUME NEW e, e \in Range(s \o t) PROVE e \in Range(s) \/ e \in Range(t)
  <2>1. PICK i \in 1..(Len(s) + Len(t)) : (s \o t)[i] = e
    BY <1>2, <1>3 DEF Range
  <2>2. CASE i <= Len(s)
    BY <1>1, <1>2, <2>1, <2>2 DEF Range
  <2>3. CASE ~(i <= Len(s))
    <3>1. i - Len(s) \in 1..Len(t) /\ t[i - Len(s)] = e
      BY <1>1, <1>2, <2>1, <2>3
    <3> QED
      BY <1>2, <3>1 DEF Range
  <2> QED
    BY <2>2, <2>3
<1>4. ASSUME NEW e, e \in Range(s) PROVE e \in Range(s \o t)
  <2>1. PICK i \in 1..Len(s) : s[i] = e
    BY <1>2, <1>4 DEF Range
  <2>2. i \in 1..(Len(s) + Len(t)) /\ (s \o t)[i] = e
    BY <1>1, <1>2, <2>1
  <2> QED
    BY <1>2, <2>2 DEF Range
<1>5. ASSUME NEW e, e \in Range(t) PROVE e \in Range(s \o t)
  <2>1. PICK i \in 1..Len(t) : t[i] = e
    BY <1>2, <1>5 DEF Range
  <2>2. /\ Len(s) + i \in 1..(Len(s) + Len(t)) /\ ~(Len(s) + i <= Len(s))
        /\ (Len(s) + i) - Len(s) = i
    BY <1>2, <2>1
  <2>3. (s \o t)[Len(s) + i] = e
    BY <1>1, <2>1, <2>2
  <2> QED
    BY <1>2, <2>2, <2>3 DEF Range
<1> QED
  BY <1>1, <1>3, <1>4, <1>5

\* FlattenSeq holds what its sequences hold.
LEMMA Flattened ==
  ASSUME NEW S, NEW s \in Seq(Seq(S))
  PROVE  /\ FlattenSeq(s) \in Seq(S)
         /\ \A e : e \in Range(FlattenSeq(s)) <=> \E i \in DOMAIN s : e \in Range(s[i])
<1>1. Len(s) \in Nat /\ DOMAIN s = 1..Len(s) /\ \A i \in 1..Len(s) : s[i] \in Seq(S)
  OBVIOUS
<1>2. CASE Len(s) = 0
  <2>1. s = <<>> /\ FlattenSeq(s) = <<>> /\ DOMAIN s = {}
    BY <1>1, <1>2 DEF FlattenSeq
  <2>2. Range(<<>>) = {} /\ <<>> \in Seq(S)
    BY DEF Range
  <2> QED
    BY <2>1, <2>2
<1>3. CASE Len(s) # 0
  <2> DEFINE n == Len(s)
             flatten == CHOOSE f : f = [i \in 1..n |-> IF i = 1 THEN s[i] ELSE f[i - 1] \o s[i]]
  <2>1. FlattenSeq(s) = flatten[n]
    BY <1>3 DEF FlattenSeq
  <2>2. flatten = [i \in 1..n |-> IF i = 1 THEN s[i] ELSE flatten[i - 1] \o s[i]]
    BY <1>1, FlattenDefined
  <2> HIDE DEF flatten
  <2>3. \A i \in 1..n : flatten[i] = IF i = 1 THEN s[i] ELSE flatten[i - 1] \o s[i]
    BY <2>2
  <2> DEFINE Held(k) == /\ flatten[k] \in Seq(S)
                        /\ \A e : e \in Range(flatten[k]) <=> \E i \in 1..k : e \in Range(s[i])
             T == {k \in Nat : k \in 1..n => Held(k)}
  <2>4. 0 \in T
    BY <1>1
  <2>5. ASSUME NEW k \in Nat, k \in T PROVE k + 1 \in T
    <3> SUFFICES ASSUME k + 1 \in 1..n PROVE Held(k + 1)
      OBVIOUS
    <3>1. CASE k = 0
      <4>1. flatten[1] = s[1] /\ k + 1 = 1
        BY <2>3, <3>1
      <4>2. \A i \in 1..1 : i = 1
        OBVIOUS
      <4> QED
        BY <1>1, <4>1, <4>2
    <3>2. CASE k # 0
      <4>1. k \in 1..n /\ flatten[k + 1] = flatten[k] \o s[k + 1]
        <5>1. k \in 1..n /\ k + 1 # 1 /\ (k + 1) - 1 = k
          BY <1>1, <3>2
        <5> QED
          BY <2>3, <5>1
      <4>2. Held(k)
        BY <2>5, <4>1
      <4>3. s[k + 1] \in Seq(S)
        BY <1>1
      <4>4. /\ flatten[k + 1] \in Seq(S)
            /\ \A e : e \in Range(flatten[k + 1]) <=>
                        e \in Range(flatten[k]) \/ e \in Range(s[k + 1])
        BY <4>1, <4>2, <4>3, ConcatRange
      <4>5. \A i : i \in 1..(k + 1) <=> i \in 1..k \/ i = k + 1
        OBVIOUS
      <4> QED
        BY <4>2, <4>4, <4>5
    <3> QED
      BY <3>1, <3>2
  <2> HIDE DEF T
  <2>6. n \in T
    BY <1>1, <2>4, <2>5, AllNumbers
  <2>7. Held(n)
    BY <1>1, <1>3, <2>6 DEF T
  <2> QED
    BY <1>1, <2>1, <2>7
<1> QED
  BY <1>2, <1>3

AccountEvent(a, d) == [kind |-> "account", at |-> a, event |-> d.event]

AccountDecoders == Range(registry.items["account"][AnyAccount])

LEMMA AccountDecoded ==
  ASSUME IDecoders, NEW a \in Nat \ {0}, NEW form
  PROVE  /\ DecodeAccount(a, form) \in Seq(EventRecord)
         /\ \A e : e \in Range(DecodeAccount(a, form)) <=>
                     \E d \in AccountDecoders : form \in d.reads /\ e = AccountEvent(a, d)
<1> DEFINE ds == registry.items["account"][AnyAccount]
           S == {i \in DOMAIN ds : form \in ds[i].reads}
           f == InOrder(S)
           c == Cardinality(S)
           q == DecodeAccount(a, form)
<1>1. ds \in Seq(Decoder)
  BY RegistryAssumption DEF IDecoders, Kinds, Handlers
<1>2. /\ Len(ds) \in Nat /\ DOMAIN ds = 1..Len(ds)
      /\ \A i \in 1..Len(ds) : ds[i].event \in Events
  <2>1. Len(ds) \in Nat /\ DOMAIN ds = 1..Len(ds) /\ \A i \in 1..Len(ds) : ds[i] \in Decoder
    BY <1>1, LenProperties, ElementOfSeq
  <2>2. \A d \in Decoder : d.event \in Events
    BY DEF Decoder
  <2> QED
    BY <2>1, <2>2
<1>3. AccountDecoders = {ds[i] : i \in DOMAIN ds}
  BY DEF AccountDecoders, Range
<1>4. q = [n \in DOMAIN f |-> AccountEvent(a, ds[f[n]])]
  BY DEF DecodeAccount, AccountEvent
<1> HIDE DEF ds
<1>5. \A i : i \in S <=> i \in 1..Len(ds) /\ form \in ds[i].reads
  BY <1>2
<1>6. S \subseteq 1..Len(ds)
  BY <1>5
<1> HIDE DEF S
<1>7. /\ c \in Nat /\ f \in [1..c -> S] /\ \A x \in S : \E i \in 1..c : f[i] = x
  BY <1>2, <1>6, InOrderLists
<1> HIDE DEF f, c, q
<1>8. DOMAIN q = 1..c /\ \A n \in 1..c : f[n] \in S /\ q[n] = AccountEvent(a, ds[f[n]])
  BY <1>4, <1>7
<1>9. q \in Seq(EventRecord)
  <2>1. q = [n \in 1..c |-> q[n]]
    BY <1>4, <1>7
  <2>2. \A n \in 1..c : f[n] \in 1..Len(ds)
    BY <1>6, <1>8
  <2>3. \A n \in 1..c : ds[f[n]].event \in Events
    BY <1>2, <2>2
  <2>4. \A n \in 1..c : q[n] \in EventRecord
    BY <1>8, <2>3 DEF AccountEvent, EventRecord
  <2> QED
    BY <1>7, <2>1, <2>4, IsASeq
<1>10. ASSUME NEW e, e \in Range(q)
       PROVE  \E d \in AccountDecoders : form \in d.reads /\ e = AccountEvent(a, d)
  <2>1. PICK n \in 1..c : q[n] = e
    BY <1>8, <1>10 DEF Range
  <2> QED
    BY <1>2, <1>3, <1>5, <1>8, <2>1
<1>11. ASSUME NEW d \in AccountDecoders, form \in d.reads
       PROVE  AccountEvent(a, d) \in Range(q)
  <2>1. PICK i \in 1..Len(ds) : ds[i] = d
    BY <1>2, <1>3
  <2>2. PICK n \in 1..c : f[n] = i
    BY <1>5, <1>7, <1>11, <2>1
  <2> QED
    BY <1>8, <2>1, <2>2 DEF Range
<1> QED
  BY <1>9, <1>10, <1>11 DEF q

LEMMA AccountsType ==
  ASSUME NEW t \in Transactions
  PROVE  /\ Content[t].accounts \in Seq(Account) /\ Len(Content[t].accounts) \in Nat
         /\ AccountsOf(t) \subseteq 1..Len(Content[t].accounts)
<1>1. Content[t].accounts \in Seq(Account)
  BY DecodingAssumption DEF ContentOf
<1>2. Len(Content[t].accounts) \in Nat /\ DOMAIN Content[t].accounts = 1..Len(Content[t].accounts)
  BY <1>1, LenProperties
<1> QED
  BY <1>1, <1>2 DEF AccountsOf

\* Whatever order a set is taken in, all of it is.
LEMMA OrderOnto ==
  ASSUME NEW S, IsFiniteSet(S), NEW order \in SetToSeqs(S)
  PROVE  /\ Cardinality(S) \in Nat /\ order \in [1..Cardinality(S) -> S]
         /\ \A x \in S : \E i \in 1..Cardinality(S) : order[i] = x
<1> DEFINE n == Cardinality(S)
<1>1. n \in Nat
  BY FS_CardinalityType
<1>2. order \in [1..n -> S] /\ \A i, k \in 1..n : i # k => order[i] # order[k]
  BY DEF SetToSeqs
<1>3. order \in Injection(1..n, S)
  <2> HIDE DEF n
  <2> QED
    BY <1>2 DEF Injection, IsInjective
<1>4. order \in Surjection(1..n, S)
  <2>1. Cardinality(1..n) = n
    <3> HIDE DEF n
    <3> QED
      BY <1>1, FS_Interval
  <2> QED
    BY <1>3, <2>1, FS_Injection
<1> QED
  BY <1>1, <1>2, <1>4 DEF Surjection

LEMMA AccountsDecoded ==
  ASSUME IDecoders, core.tx \in Transactions, NEW order \in SetToSeqs(AccountsOf(core.tx))
  PROVE  LET all == Content[core.tx].accounts
         IN  /\ AccountEvents(order) \in Seq(EventRecord)
             /\ \A e : e \in Range(AccountEvents(order)) <=>
                  \E a \in AccountsOf(core.tx) : \E d \in AccountDecoders :
                    all[a].exists /\ all[a].form \in d.reads /\ e = AccountEvent(a, d)
<1> DEFINE all == Content[core.tx].accounts
           S == AccountsOf(core.tx)
           n == Cardinality(S)
           part(a) == IF all[a].exists THEN DecodeAccount(a, all[a].form) ELSE <<>>
           s == [i \in DOMAIN order |-> part(order[i])]
<1>1. Len(all) \in Nat /\ S \subseteq 1..Len(all)
  BY AccountsType
<1>2. n \in Nat /\ order \in [1..n -> S] /\ \A x \in S : \E i \in 1..n : order[i] = x
  <2>1. IsFiniteSet(1..Len(all))
    BY <1>1, FS_Interval
  <2>2. IsFiniteSet(S)
    BY <1>1, <2>1, FS_Subset
  <2> QED
    BY <2>2, OrderOnto
<1>3. AccountEvents(order) = FlattenSeq(s)
  BY DEF AccountEvents
<1> HIDE DEF n, S, all
<1>4. ASSUME NEW a \in S
      PROVE  /\ part(a) \in Seq(EventRecord)
             /\ \A e : e \in Range(part(a)) <=>
                  \E d \in AccountDecoders :
                    all[a].exists /\ all[a].form \in d.reads /\ e = AccountEvent(a, d)
  <2>1. a \in Nat \ {0}
    BY <1>1
  <2>2. Range(<<>>) = {} /\ <<>> \in Seq(EventRecord)
    BY DEF Range
  <2>3. CASE all[a].exists
    BY <2>1, <2>3, AccountDecoded
  <2>4. CASE ~all[a].exists
    BY <2>2, <2>4
  <2> QED
    BY <2>3, <2>4
<1> HIDE DEF part
<1>5. \A i \in 1..n : order[i] \in S
  BY <1>2
<1>6. DOMAIN s = 1..n /\ \A i \in 1..n : s[i] = part(order[i])
  BY <1>2
<1>7. s \in Seq(Seq(EventRecord))
  <2>1. s = [i \in 1..n |-> part(order[i])]
    BY <1>2
  <2>2. \A i \in 1..n : part(order[i]) \in Seq(EventRecord)
    BY <1>4, <1>5
  <2> QED
    BY <1>2, <2>1, <2>2, IsASeq
<1> HIDE DEF s
<1>8. /\ FlattenSeq(s) \in Seq(EventRecord)
      /\ \A e : e \in Range(FlattenSeq(s)) <=> \E i \in 1..n : e \in Range(part(order[i]))
  BY <1>6, <1>7, Flattened
<1>9. \A e : e \in Range(FlattenSeq(s)) <=> \E a \in S : e \in Range(part(a))
  BY <1>2, <1>5, <1>8
<1> QED
  BY <1>3, <1>4, <1>8, <1>9 DEF S, all

\* What is registered as a decoder is one.
LEMMA RegisterDecoders ==
  ASSUME IDecoders, RegistryTypeOK', NEW r \in Registrations, Enter(r)
  PROVE  IDecoders'
<1> DEFINE old == registry.items[r.kind][r.key]
           new == IF r.kind \in Handlers THEN <<r.item>> ELSE Append(old, r.item)
<1>1. r.kind \in Kinds /\ r.key \in Keys /\ (r.kind \notin Handlers => r.item \in Decoder)
  BY PipelineAssumption
<1>2. r.kind \notin Handlers => new \in Seq(Decoder)
  <2> SUFFICES ASSUME r.kind \notin Handlers PROVE Append(old, r.item) \in Seq(Decoder)
    OBVIOUS
  <2>1. old \in Seq(Decoder) /\ r.item \in Decoder
    BY <1>1 DEF IDecoders
  <2> HIDE DEF old
  <2> QED
    BY <2>1, AppendProperties
<1>3. registry'.items = [registry.items EXCEPT ![r.kind][r.key] = new]
  BY DEF Enter
<1> HIDE DEF new
<1>4. ASSUME NEW kind \in Kinds \ Handlers, NEW key \in Keys
      PROVE  registry'.items[kind][key] \in Seq(Decoder)
  <2>1. registry.items \in [Kinds -> [Keys -> Seq(Decoder \union Events)]]
    BY DEF IDecoders, RegistryTypeOK
  <2>2. registry'.items[kind][key] =
          IF kind = r.kind /\ key = r.key THEN new ELSE registry.items[kind][key]
    BY <1>1, <1>3, <2>1
  <2> QED
    BY <1>2, <2>2 DEF IDecoders
<1> QED
  BY <1>4 DEF IDecoders

LEMMA NextDecoders == ILimits' /\ IDecoders /\ [Next]_vars => IDecoders'
<1> SUFFICES ASSUME ILimits', IDecoders, [Next]_vars PROVE IDecoders'
  OBVIOUS
<1>1. RegistryTypeOK'
  BY DEF ILimits
<1>2. CASE UNCHANGED registry
  BY <1>1, <1>2 DEF IDecoders
<1>3. CASE New
  <2>1. registry' = NewRegistry
    BY <1>3 DEF New
  <2>2. \A kind \in Kinds : \A key \in Keys : registry'.items[kind][key] = <<>>
    BY <2>1 DEF NewRegistry
  <2>3. <<>> \in Seq(Decoder)
    OBVIOUS
  <2> QED
    BY <1>1, <2>2, <2>3 DEF IDecoders
<1>4. ASSUME NEW r \in Registrations, Register(r) PROVE IDecoders'
  BY <1>1, <1>2, <1>4, RegisterDecoders DEF Register
<1>5. CASE SetupStep \/ Build \/ Start
  BY <1>2, <1>5, SetupKeeps DEF Build, Start, OnlySetup
<1>6. CASE CoreStep \/ \E t \in Transactions : Begin(t)
  BY <1>2, <1>6, CoreKeeps
<1>7. CASE UNCHANGED vars
  BY <1>2, <1>7 DEF vars
<1> QED
  BY <1>3, <1>4, <1>5, <1>6, <1>7, Steps

LEMMA InitDecoders == Init => IDecoders
<1> SUFFICES ASSUME Init PROVE IDecoders
  OBVIOUS
<1>1. registry = NewRegistry /\ RegistryTypeOK
  BY EmptyRegistry DEF Init, IsEmpty
<1>2. \A kind \in Kinds : \A key \in Keys : registry.items[kind][key] = <<>>
  BY <1>1 DEF NewRegistry
<1>3. <<>> \in Seq(Decoder)
  OBVIOUS
<1> QED
  BY <1>1, <1>2, <1>3 DEF IDecoders

-----------------------------------------------------------------------------
(* What the parser has read: every line that counts, once and in order.    *)

ReadSoFar(t) ==
  LET all == Content[t].lines
      events == parser.events
  IN  /\ parser.line <= Len(all) + 1
      /\ \A i, k \in DOMAIN events : i < k => events[i].at < events[k].at
      /\ \A i \in DOMAIN events : /\ events[i].at \in 1..(parser.line - 1)
                                  /\ Reported(all[events[i].at])
                                  /\ events[i].form = all[events[i].at].form
      /\ \A n \in 1..(parser.line - 1) :
           Reported(all[n]) => \E i \in DOMAIN events : events[i].at = n

IRead ==
  core.pc # "idle" =>
    /\ ReadSoFar(core.tx)
    /\ core.pc \notin {"fetch", "decode", "failed"} => ~MoreLines(core.tx)

\* One line gives one event if it counts as one, and none otherwise.
LEMMA LineRead ==
  ASSUME NEW t \in Transactions, ParserTypeOK, ParseLine(t)
  PROVE  LET l == Content[t].lines[parser.line]
         IN  /\ parser'.line = parser.line + 1
             /\ Reported(l) => \E e : /\ e.at = parser.line /\ e.form = l.form
                                      /\ parser'.events = Append(parser.events, e)
             /\ ~Reported(l) => parser'.events = parser.events
<1> DEFINE i == parser.line
           l == Content[t].lines[i]
<1>1. i \in 1..Len(Content[t].lines)
  BY LinesType DEF ParseLine, MoreLines, ParserTypeOK
<1>2. /\ l.kind \in {"invoke", "success", "failed"} => l.program # NoProgram /\ l.mentions = "nothing"
      /\ l.kind \notin {"invoke", "success", "failed"} => l.program = NoProgram
      /\ l \in Line
  BY <1>1, LineFacts, LinesType
<1>3. l.mentions \in {"nothing", "invoke [", " success", " failed"} /\ l.kind \in LineKinds
  BY <1>2 DEF Line
<1>4. \A type, key : LET e == [type |-> type, key |-> key, form |-> l.form, at |-> i]
                     IN  e.at = i /\ e.form = l.form
  OBVIOUS
<1>5. ReadInvoke(l) \/ ReadResult(l) \/ ReadMessage(l)
  BY DEF ParseLine
<1> HIDE DEF l
<1>6. parser'.line = i + 1
  BY <1>5 DEF ReadInvoke, ReadResult, ReadMessage, Parsed
<1>7. CASE l.kind = "invoke"
  <2>1. Reported(l) /\ parser'.events = Emit("invoke", l.program, l.form)
    BY <1>2, <1>5, <1>7 DEF Reported, ReadInvoke, ReadResult, ReadMessage, Parsed,
       LooksLikeInvoke, LooksLikeResult
  <2> QED
    BY <1>4, <1>6, <2>1 DEF Emit, l
<1>8. CASE l.kind \in {"data", "log"} /\ l.mentions = "nothing"
  <2>1. Reported(l) /\ parser'.events = Emit(l.kind, Current(parser.stack), l.form)
    BY <1>5, <1>8 DEF Reported, ReadInvoke, ReadResult, ReadMessage, Parsed,
       LooksLikeInvoke, LooksLikeResult
  <2> QED
    BY <1>4, <1>6, <2>1 DEF Emit, l
<1>9. CASE l.kind # "invoke" /\ ~(l.kind \in {"data", "log"} /\ l.mentions = "nothing")
  <2>1. ~Reported(l)
    BY <1>9 DEF Reported
  <2>2. parser'.events = parser.events
    <3>1. CASE ReadInvoke(l)
      <4>1. l.mentions = "invoke [" /\ l.program = NoProgram
        BY <1>2, <1>9, <3>1 DEF ReadInvoke, LooksLikeInvoke, l
      <4>2. Parsed(parser.stack, parser.events)
        BY <3>1, <4>1, Zenon DEF ReadInvoke
      <4> QED
        BY <4>2 DEF Parsed
    <3>2. CASE ReadResult(l)
      BY <3>2 DEF ReadResult, Parsed
    <3>3. CASE ReadMessage(l)
      <4>1. l.kind \notin {"data", "log"}
        BY <1>3, <1>9, <3>3 DEF ReadMessage, LooksLikeInvoke, LooksLikeResult
      <4> QED
        BY <3>3, <4>1 DEF ReadMessage, Parsed
    <3> QED
      BY <1>5, <3>1, <3>2, <3>3
  <2> QED
    BY <1>6, <2>1, <2>2 DEF l
<1> QED
  BY <1>7, <1>8, <1>9

LEMMA ReadStep ==
  ASSUME NEW t \in Transactions, ParserTypeOK, ReadSoFar(t), ParseLine(t)
  PROVE  ReadSoFar(t)'
<1> DEFINE all == Content[t].lines
           n == parser.line
           old == parser.events
           new == parser'.events
           c == Len(old)
<1>1. n \in 1..Len(all) /\ n \in Nat \ {0} /\ Len(all) \in Nat
  BY LinesType DEF ParseLine, MoreLines, ParserTypeOK
<1>2. old \in Seq(ParsedEvent) /\ c \in Nat /\ DOMAIN old = 1..c
  BY DEF ParserTypeOK
<1>3. parser'.line = n + 1
  BY LineRead
<1>4. CASE ~Reported(all[n])
  <2>1. new = old
    BY <1>4, LineRead
  <2>2. \A m \in 1..n : Reported(all[m]) => m \in 1..(n - 1)
    BY <1>1, <1>4
  <2>3. \A m \in 1..(n - 1) : m \in 1..n
    BY <1>1
  <2>4. n + 1 <= Len(all) + 1 /\ (n + 1) - 1 = n
    BY <1>1
  <2> QED
    BY <1>3, <2>1, <2>2, <2>3, <2>4 DEF ReadSoFar
<1>5. CASE Reported(all[n])
  <2>1. PICK e : e.at = n /\ e.form = all[n].form /\ new = Append(old, e)
    BY <1>5, LineRead
  <2>2. /\ DOMAIN new = 1..(c + 1) /\ new[c + 1] = e
        /\ \A i \in 1..c : new[i] = old[i]
    BY <1>2, <2>1
  <2> HIDE DEF all, n, old, new, c
  <2>3. \A i \in 1..c : old[i].at \in 1..(n - 1)
    BY <1>2 DEF ReadSoFar, old, n, all
  <2>4. \A i \in 1..(c + 1) : /\ new[i].at \in 1..n
                              /\ Reported(all[new[i].at])
                              /\ new[i].form = all[new[i].at].form
    <3> SUFFICES ASSUME NEW i \in 1..(c + 1)
                 PROVE  /\ new[i].at \in 1..n
                        /\ Reported(all[new[i].at])
                        /\ new[i].form = all[new[i].at].form
      OBVIOUS
    <3>1. CASE i = c + 1
      BY <1>1, <1>5, <2>1, <2>2, <3>1
    <3>2. CASE i # c + 1
      <4>1. i \in 1..c /\ new[i] = old[i]
        BY <1>2, <2>2, <3>2
      <4>2. old[i].at \in 1..n /\ Reported(all[old[i].at]) /\ old[i].form = all[old[i].at].form
        BY <1>1, <1>2, <2>3, <4>1 DEF ReadSoFar, all, old
      <4> QED
        BY <4>1, <4>2
    <3> QED
      BY <3>1, <3>2
  <2>5. \A i, k \in 1..(c + 1) : i < k => new[i].at < new[k].at
    <3> SUFFICES ASSUME NEW i \in 1..(c + 1), NEW k \in 1..(c + 1), i < k
                 PROVE  new[i].at < new[k].at
      OBVIOUS
    <3>1. i \in 1..c /\ new[i] = old[i] /\ old[i].at \in 1..(n - 1)
      BY <1>2, <2>2, <2>3
    <3>2. CASE k = c + 1
      BY <1>1, <2>1, <2>2, <3>1, <3>2
    <3>3. CASE k # c + 1
      <4>1. k \in 1..c /\ new[k] = old[k]
        BY <1>2, <2>2, <3>3
      <4> QED
        BY <1>2, <3>1, <4>1 DEF ReadSoFar, old
    <3> QED
      BY <3>2, <3>3
  <2>6. \A m \in 1..n : Reported(all[m]) => \E i \in 1..(c + 1) : new[i].at = m
    <3> SUFFICES ASSUME NEW m \in 1..n, Reported(all[m])
                 PROVE  \E i \in 1..(c + 1) : new[i].at = m
      OBVIOUS
    <3>1. CASE m = n
      BY <1>2, <2>1, <2>2, <3>1
    <3>2. CASE m # n
      <4>1. m \in 1..(n - 1)
        BY <1>1, <3>2
      <4>2. PICK i \in 1..c : old[i].at = m
        BY <1>2, <4>1 DEF ReadSoFar, all, old, n
      <4>3. i \in 1..(c + 1) /\ new[i].at = m
        BY <1>2, <2>2, <4>2
      <4> QED
        BY <4>3
    <3> QED
      BY <3>1, <3>2
  <2>7. n + 1 <= Len(all) + 1 /\ (n + 1) - 1 = n
    BY <1>1
  <2> QED
    BY <1>3, <2>2, <2>4, <2>5, <2>6, <2>7 DEF ReadSoFar, all, new
<1> QED
  BY <1>4, <1>5

Undecoded == {"idle", "fetch", "decode", "failed"}

\* The log is left once it has been read to its end.
LEMMA LeavesLog ==
  ASSUME ICore, CoreStep, core'.pc \notin Undecoded
  PROVE  (core.pc \notin Undecoded /\ UNCHANGED parser) \/ (Decode /\ ~MoreLines(core.tx) /\ UNCHANGED parser)
<1>1. CASE Decode
  <2>1. ~(core' = core)
    BY <1>1 DEF Decode, Undecoded
  <2> QED
    BY <1>1, <2>1 DEF Decode
<1>2. CASE core.pc = "fetch" /\ (RequestAnswered \/ RequestFails)
  <2>1. CASE RequestAnswered
    <3>1. Goto("decode")
      BY <1>2, <2>1 DEF RequestAnswered
    <3> QED
      BY <3>1 DEF Goto, ICore, Undecoded
  <2>2. CASE RequestFails
    <3>1. \E n : core' = [core EXCEPT !.attempt = n] \/ \E error : Fail(error)
      BY <1>2, <2>2 DEF RequestFails
    <3> QED
      BY <1>2, <3>1 DEF Fail, ICore, Undecoded
  <2> QED
    BY <1>2, <2>1, <2>2
<1>3. CASE ~Decode /\ ~(core.pc = "fetch" /\ (RequestAnswered \/ RequestFails))
  BY <1>3 DEF CoreStep, RequestAnswered, RequestFails, HandleEvent, HandlerFails, NextStage,
     Record, Handling, Undecoded
<1> QED
  BY <1>1, <1>2, <1>3

LEMMA NextRead == ICore /\ ICore' /\ IParse /\ IRead /\ [Next]_vars => IRead'
<1> SUFFICES ASSUME ICore, ICore', IParse, IRead, [Next]_vars PROVE IRead'
  OBVIOUS
<1>1. CASE UNCHANGED <<parser, core>>
  BY <1>1 DEF IRead, ReadSoFar, MoreLines
<1>2. CASE SetupStep \/ Build \/ New \/ Start \/ \E r \in Registrations : Register(r)
  BY <1>1, <1>2, SetupKeeps DEF Build, New, Register, Start, OnlySetup
<1>3. ASSUME NEW t \in Transactions, Begin(t)
      PROVE  IRead'
  <2>1. parser' = NewParser /\ core'.tx = t /\ core'.pc \in {"fetch", "decode"}
    BY <1>3 DEF Begin, NoTransaction
  <2>2. ReadSoFar(t)'
    <3>1. parser'.line = 1 /\ parser'.events = <<>>
      BY <2>1 DEF NewParser
    <3>2. Len(Content[t].lines) \in Nat /\ 1 <= Len(Content[t].lines) + 1
      BY LinesType
    <3>3. \A n : n \notin 1..(1 - 1)
      OBVIOUS
    <3> QED
      BY <3>1, <3>2, <3>3 DEF ReadSoFar
  <2> QED
    BY <2>1, <2>2 DEF IRead, ReadSoFar
<1>4. CASE Decode /\ ParseLine(core.tx) /\ UNCHANGED core
  <2>1. core.tx \in Transactions /\ core.pc = "decode"
    BY <1>4 DEF Decode, ICore
  <2>2. ReadSoFar(core.tx)'
    BY <1>4, <2>1, ReadStep DEF IParse, IRead, ReadSoFar
  <2> QED
    BY <1>4, <2>1, <2>2 DEF IRead
<1>5. CASE CoreStep /\ ~(Decode /\ ParseLine(core.tx) /\ UNCHANGED core)
  <2>1. ~Decode \/ UNCHANGED parser
    BY <1>5 DEF Decode
  <2>2. UNCHANGED parser /\ core'.tx = core.tx
    BY <1>5, <2>1, CoreSameLog DEF SameLog
  <2>3. core.pc # "idle"
    BY <1>5 DEF CoreStep, Decode, RequestAnswered, RequestFails, HandleEvent, HandlerFails,
       NextStage, Record, Handling
  <2>4. ReadSoFar(core.tx)'
    BY <2>2, <2>3 DEF IRead, ReadSoFar
  <2>5. core'.pc \notin Undecoded => ~MoreLines(core.tx)
    BY <1>5, LeavesLog DEF IRead, Undecoded
  <2> QED
    BY <2>2, <2>4, <2>5 DEF IRead, ReadSoFar, MoreLines, Undecoded
<1>6. CASE UNCHANGED vars
  BY <1>1, <1>6 DEF vars
<1> QED
  BY <1>2, <1>3, <1>4, <1>5, <1>6, Steps

-----------------------------------------------------------------------------
(* What is to be handled is what the decoders give, in its order.          *)

Before(a, b) ==
  Rank(a.kind) < Rank(b.kind) \/ (a.kind = b.kind /\ (a.kind = "account" \/ a.at < b.at))

Ordered(q) == \A i, k \in DOMAIN q : i < k => Before(q[i], q[k])

\* A queue of the events that are due, in their order.
Lists(q, due) == q \in Seq(EventRecord) /\ Ordered(q) /\ Range(q) = due

LEMMA EmptyLists == Lists(<<>>, {})
  BY DEF Lists, Ordered, Range

LEMMA DecodedLists ==
  ASSUME IDecoders, NEW kind \in {"input", "log"}, NEW items, Rising(items), NEW due,
         \A e : e \in due <=>
           \E m \in DOMAIN items :
             EventOf(kind, items[m]) \in Events /\ e = EventFrom(kind, items[m])
  PROVE  Lists(DecodeEach(kind, items), due)
<1> DEFINE q == DecodeEach(kind, items)
<1>1. /\ q \in Seq(EventRecord)
      /\ \A i, k \in DOMAIN q : i < k => q[i].at < q[k].at
      /\ \A i \in DOMAIN q : \E m \in DOMAIN items :
           q[i] = EventFrom(kind, items[m]) /\ EventOf(kind, items[m]) \in Events
      /\ \A m \in DOMAIN items : EventOf(kind, items[m]) \in Events =>
           \E i \in DOMAIN q : q[i] = EventFrom(kind, items[m])
  BY EachDecoded DEF Gives
<1>2. \A m \in DOMAIN items : EventFrom(kind, items[m]).kind = kind
  BY DEF EventFrom
<1> HIDE DEF q
<1>3. \A i \in DOMAIN q : q[i] \in due /\ q[i].kind = kind
  BY <1>1, <1>2
<1>4. \A e \in due : \E i \in DOMAIN q : q[i] = e
  BY <1>1
<1>5. Range(q) = due
  BY <1>3, <1>4 DEF Range
<1>6. Ordered(q)
  BY <1>1, <1>3 DEF Ordered, Before
<1> QED
  BY <1>1, <1>5, <1>6 DEF Lists, q

LEMMA InputsDecoded ==
  ASSUME IDecoders, core.tx \in Transactions
  PROVE  Lists(IF setup.mode.inputs THEN DecodeEach("input", InstructionsOf(core.tx)) ELSE <<>>,
               DueInputs)
<1> DEFINE all == Content[core.tx].instructions
           items == InstructionsOf(core.tx)
           n == Len(all)
<1>1. n \in Nat /\ DOMAIN all = 1..n
  <2>1. all \in Seq(Instruction)
    BY DecodingAssumption DEF ContentOf
  <2> QED
    BY <2>1, LenProperties
<1>2. CASE ~setup.mode.inputs
  <2>1. DueInputs = {}
    BY <1>2 DEF DueInputs
  <2> QED
    BY <1>2, <2>1, EmptyLists
<1>3. CASE setup.mode.inputs /\ Content[core.tx].format # "parsed"
  <2>1. DueInputs = {}
    BY <1>3 DEF DueInputs
  <2>2. items = <<>>
    BY <1>3 DEF InstructionsOf
  <2>3. Rising(<<>>) /\ DOMAIN <<>> = {}
    BY DEF Rising
  <2> HIDE DEF items
  <2>4. Lists(DecodeEach("input", items), {})
    BY <2>2, <2>3, DecodedLists
  <2> QED
    BY <1>3, <2>1, <2>4 DEF items
<1>4. CASE setup.mode.inputs /\ Content[core.tx].format = "parsed"
  <2> DEFINE record(m) == EventFrom("input", items[m])
  <2>1. /\ DOMAIN items = 1..n /\ Len(items) = n
        /\ \A m \in 1..n : /\ items[m].at = m /\ items[m].key = all[m].key
                           /\ items[m].form = all[m].form
    BY <1>1, <1>4 DEF InstructionsOf
  <2> HIDE DEF items, n, all
  <2>2. \A m \in 1..n : \A e \in Events :
          EventOf("input", items[m]) = e <=> Yields("input", all[m].key, all[m].form, e)
    <3>1. "input" \in Kinds \ Handlers
      BY DEF Kinds, Handlers
    <3> QED
      BY <2>1, <3>1, EventYielded
  <2>3. ASSUME NEW e \in DueInputs
        PROVE  \E m \in 1..n : EventOf("input", items[m]) \in Events /\ e = record(m)
    <3>1. /\ e \in [kind : {"input"}, at : 1..n, event : Events]
          /\ Yields("input", all[e.at].key, all[e.at].form, e.event)
      BY <1>1 DEF DueInputs, EventsOf, all
    <3>2. e.at \in 1..n /\ e.event \in Events /\ EventOf("input", items[e.at]) = e.event
      BY <2>2, <3>1
    <3>3. e = record(e.at)
      BY <2>1, <3>1, <3>2 DEF EventFrom
    <3> QED
      BY <3>2, <3>3
  <2>4. ASSUME NEW m \in 1..n, EventOf("input", items[m]) \in Events
        PROVE  record(m) \in DueInputs
    <3>1. Yields("input", all[m].key, all[m].form, EventOf("input", items[m]))
      BY <2>2, <2>4
    <3>2. record(m) \in EventsOf("input", 1..n) /\ record(m).at = m
      BY <2>1, <2>4 DEF EventsOf, EventFrom
    <3> QED
      BY <1>1, <1>4, <3>1, <3>2 DEF DueInputs, all, EventFrom
  <2>5. Rising(items)
    BY <1>1, <2>1 DEF Rising
  <2>6. Lists(DecodeEach("input", items), DueInputs)
    <3>1. \A e : e \in DueInputs <=>
            \E m \in DOMAIN items : EventOf("input", items[m]) \in Events /\ e = record(m)
      BY <2>1, <2>3, <2>4
    <3> HIDE DEF items
    <3> QED
      BY <2>5, <3>1, DecodedLists
  <2> QED
    BY <1>4, <2>6 DEF items
<1> QED
  BY <1>2, <1>3, <1>4

LEMMA LogsDecoded ==
  ASSUME IDecoders, IParse, core.tx \in Transactions, ReadSoFar(core.tx), ~MoreLines(core.tx),
         setup.mode.logs
  PROVE  Lists(DecodeEach("log", parser.events), DueLogs)
<1> DEFINE all == Content[core.tx].lines
           items == parser.events
           n == Len(items)
           N == Len(all)
           record(m) == EventFrom("log", items[m])
<1>1. N \in Nat /\ DOMAIN all = 1..N
  BY LinesType, LenProperties
<1>2. n \in Nat /\ DOMAIN items = 1..n
  <2>1. items \in Seq(ParsedEvent)
    BY DEF IParse, ParserTypeOK
  <2> QED
    BY <2>1, LenProperties
<1>3. parser.line - 1 = N
  <2>1. parser.line \in Nat /\ parser.line <= N + 1 /\ ~(parser.line <= N)
    BY DEF IParse, ParserTypeOK, ReadSoFar, MoreLines
  <2> QED
    BY <1>1, <2>1
<1>4. /\ \A i, k \in 1..n : i < k => items[i].at < items[k].at
      /\ \A m \in 1..n : /\ items[m].at \in 1..N /\ Reported(all[items[m].at])
                         /\ items[m].form = all[items[m].at].form
      /\ \A i \in 1..N : Reported(all[i]) => \E m \in 1..n : items[m].at = i
  BY <1>2, <1>3 DEF ReadSoFar
<1>5. \A m \in 1..n : items[m].key = Current(all[items[m].at].running)
  <2>1. \A m \in 1..n : items[m].key = Current(Running(core.tx, items[m].at)) /\ items[m].at # 0
    BY <1>2, <1>4 DEF IParse, Attributed
  <2> QED
    BY <2>1 DEF Running
<1> HIDE DEF items, all, n, N
<1>6. \A m \in 1..n : \A e \in Events :
        EventOf("log", items[m]) = e <=>
          Yields("log", Current(all[items[m].at].running), all[items[m].at].form, e)
  <2>1. "log" \in Kinds \ Handlers
    BY DEF Kinds, Handlers
  <2> QED
    BY <1>4, <1>5, <2>1, EventYielded
<1>7. ASSUME NEW e \in DueLogs
      PROVE  \E m \in 1..n : EventOf("log", items[m]) \in Events /\ e = record(m)
  <2>1. /\ e \in [kind : {"log"}, at : 1..N, event : Events] /\ Reported(all[e.at])
        /\ Yields("log", Current(all[e.at].running), all[e.at].form, e.event)
    BY <1>1 DEF DueLogs, EventsOf, all
  <2>2. e.at \in 1..N /\ e.event \in Events
    BY <2>1
  <2>3. PICK m \in 1..n : items[m].at = e.at
    BY <1>4, <2>1, <2>2
  <2>4. EventOf("log", items[m]) = e.event
    BY <1>6, <2>1, <2>2, <2>3
  <2>5. e = record(m)
    BY <2>1, <2>3, <2>4 DEF EventFrom
  <2> QED
    BY <2>2, <2>4, <2>5
<1>8. ASSUME NEW m \in 1..n, EventOf("log", items[m]) \in Events
      PROVE  record(m) \in DueLogs
  <2>1. /\ Yields("log", Current(all[items[m].at].running), all[items[m].at].form,
                  EventOf("log", items[m]))
        /\ items[m].at \in 1..N /\ Reported(all[items[m].at])
    BY <1>4, <1>6, <1>8
  <2>2. record(m) \in EventsOf("log", 1..N)
    BY <1>8, <2>1 DEF EventsOf, EventFrom
  <2> QED
    BY <1>1, <2>1, <2>2 DEF DueLogs, all, EventFrom
<1>9. Rising(items)
  <2>1. \A m \in 1..n : items[m].at \in Nat \ {0}
    BY <1>1, <1>4
  <2> QED
    BY <1>2, <1>4, <2>1 DEF Rising, n
<1>10. \A e : e \in DueLogs <=>
         \E m \in DOMAIN items : EventOf("log", items[m]) \in Events /\ e = record(m)
  BY <1>2, <1>7, <1>8
<1>11. Lists(DecodeEach("log", items), DueLogs)
  BY <1>9, <1>10, DecodedLists
<1> QED
  BY <1>11 DEF items

LEMMA AccountsRead ==
  ASSUME IDecoders, core.tx \in Transactions, NEW order \in SetToSeqs(AccountsOf(core.tx)),
         setup.mode.logs, setup.mode.accounts, ~core.unread
  PROVE  Lists(AccountEvents(order), DueAccounts)
<1> DEFINE all == Content[core.tx].accounts
           q == AccountEvents(order)
<1>1. /\ q \in Seq(EventRecord)
      /\ \A e : e \in Range(q) <=>
           \E a \in AccountsOf(core.tx) : \E d \in AccountDecoders :
             all[a].exists /\ all[a].form \in d.reads /\ e = AccountEvent(a, d)
  BY AccountsDecoded
<1>2. \A d \in AccountDecoders : d.event \in Events
  <2>1. registry.items["account"][AnyAccount] \in Seq(Decoder)
    BY RegistryAssumption DEF IDecoders, Kinds, Handlers
  <2>2. \A d \in AccountDecoders : d \in Decoder
    BY <2>1, LenProperties, ElementOfSeq DEF AccountDecoders, Range
  <2> QED
    BY <2>2 DEF Decoder
<1> HIDE DEF q, all
<1>3. ASSUME NEW e \in Range(q) PROVE e \in DueAccounts
  <2>1. PICK a \in AccountsOf(core.tx), d \in AccountDecoders :
          all[a].exists /\ all[a].form \in d.reads /\ e = AccountEvent(a, d)
    BY <1>1
  <2>2. e \in EventsOf("account", AccountsOf(core.tx)) /\ e.at = a /\ e.event = d.event
    BY <1>2, <2>1 DEF AccountEvent, EventsOf
  <2> QED
    BY <2>1, <2>2 DEF DueAccounts, AccountDecoders, all
<1>4. ASSUME NEW e \in DueAccounts PROVE e \in Range(q)
  <2>1. /\ e \in [kind : {"account"}, at : AccountsOf(core.tx), event : Events]
        /\ all[e.at].exists
        /\ \E d \in AccountDecoders : all[e.at].form \in d.reads /\ d.event = e.event
    BY DEF DueAccounts, EventsOf, AccountDecoders, all
  <2>2. PICK d \in AccountDecoders : all[e.at].form \in d.reads /\ d.event = e.event
    BY <2>1
  <2>3. e = AccountEvent(e.at, d) /\ e.at \in AccountsOf(core.tx)
    BY <2>1, <2>2 DEF AccountEvent
  <2> QED
    BY <1>1, <2>1, <2>2, <2>3
<1>5. Ordered(q)
  <2>1. \A i \in DOMAIN q : q[i] \in Range(q)
    BY DEF Range
  <2>2. \A e \in Range(q) : e.kind = "account"
    BY <1>3 DEF DueAccounts, EventsOf
  <2> QED
    BY <2>1, <2>2 DEF Ordered, Before
<1> QED
  BY <1>1, <1>3, <1>4, <1>5 DEF Lists, q

-----------------------------------------------------------------------------
(* The queue of a transaction: what has been handled and what is left are  *)
(* the events due up to the stage the task is in.                          *)

Stages == {"input", "log", "accounts", "account", "mark", "recorded"}
FromLogs == Stages \ {"input"}
FromAccounts == {"account", "mark", "recorded"}

DueBy(pc) ==
  (IF pc \in Stages THEN DueInputs ELSE {})
    \union (IF pc \in FromLogs THEN DueLogs ELSE {})
    \union (IF pc \in FromAccounts THEN DueAccounts ELSE {})

HandlingStages == {"input", "log", "account"}

InLine ==
  /\ Range(core.done) \union Range(core.todo) = DueBy(core.pc)
  /\ Ordered(core.todo)
  /\ \A a \in Range(core.done), b \in Range(core.todo) : Before(a, b)

ModesOn(pc) ==
  /\ pc \in {"log", "accounts", "account"} => setup.mode.logs
  /\ pc \in {"accounts", "account"} => setup.mode.accounts

IQueue ==
  /\ core \in CoreRecord
  /\ Ordered(core.done)
  /\ core.pc \notin HandlingStages => core.todo = <<>>
  /\ core.pc \notin {"idle", "failed"} => InLine
  /\ ModesOn(core.pc)
  /\ core.unread => core.pc \in {"mark", "recorded", "failed"}

LEMMA InitQueue == Init => IQueue
<1> SUFFICES ASSUME Init PROVE IQueue
  OBVIOUS
<1>1. core = NoTransaction
  BY DEF Init
<1>2. core \in CoreRecord
  BY <1>1 DEF NoTransaction, NoError, CoreRecord
<1>3. core.pc = "idle" /\ core.todo = <<>> /\ core.done = <<>> /\ core.unread = FALSE
  BY <1>1 DEF NoTransaction
<1> QED
  BY <1>2, <1>3 DEF IQueue, Ordered, ModesOn, HandlingStages

\* What is due depends on the transaction, its registries and modes, and on
\* whether its accounts were given up.
LEMMA DueFrame ==
  ASSUME UNCHANGED <<registry, setup>>, core'.tx = core.tx
  PROVE  /\ DueInputs' = DueInputs /\ DueLogs' = DueLogs
         /\ core'.unread = core.unread => DueAccounts' = DueAccounts
         /\ core'.unread => DueAccounts' = {}
  BY DEF DueInputs, DueLogs, DueAccounts, Yields

LEMMA DueKinds ==
  /\ \A e \in DueInputs : e.kind = "input"
  /\ \A e \in DueLogs : e.kind = "log"
  /\ \A e \in DueAccounts : e.kind = "account"
  BY DEF DueInputs, DueLogs, DueAccounts, EventsOf

LEMMA CoreFields ==
  ASSUME core \in CoreRecord
  PROVE  /\ core = [pc |-> core.pc, tx |-> core.tx, attempt |-> core.attempt,
                    todo |-> core.todo, done |-> core.done, unread |-> core.unread,
                    error |-> core.error]
         /\ core.pc \in {"idle", "failed", "fetch", "decode", "block"} \union Stages
         /\ core.tx \in Transactions \union {Unset} /\ core.attempt \in Nat
         /\ core.todo \in Seq(EventRecord) /\ core.done \in Seq(EventRecord)
         /\ core.unread \in BOOLEAN
         /\ core.error \in [kind : {"none", "RetryExhausted", "Handler", "Database"}
                                     \union PermanentErrors, attempts : Nat]
  BY DEF CoreRecord, Stages

LEMMA CoreTyped ==
  ASSUME core \in CoreRecord,
         NEW pc \in {"idle", "failed", "fetch", "decode", "block"} \union Stages,
         NEW attempt \in Nat, NEW todo \in Seq(EventRecord), NEW done \in Seq(EventRecord),
         NEW unread \in BOOLEAN,
         NEW error \in [kind : {"none", "RetryExhausted", "Handler", "Database"}
                                 \union PermanentErrors, attempts : Nat]
  PROVE  [pc |-> pc, tx |-> core.tx, attempt |-> attempt, todo |-> todo, done |-> done,
          unread |-> unread, error |-> error] \in CoreRecord
  BY DEF CoreRecord, Stages

\* The task moves on with its queue as it is.
LEMMA QueueMoves ==
  ASSUME IQueue, UNCHANGED setup, core.pc \notin {"idle", "failed"},
         NEW pc \in {"fetch", "decode", "block"} \union Stages,
         NEW attempt \in Nat, NEW unread \in BOOLEAN,
         core' = [pc |-> pc, tx |-> core.tx, attempt |-> attempt, todo |-> core.todo,
                  done |-> core.done, unread |-> unread, error |-> core.error],
         pc \in HandlingStages \/ core.todo = <<>>,
         DueBy(pc)' = DueBy(core.pc), ModesOn(pc),
         unread => pc \in {"mark", "recorded"}
  PROVE  IQueue'
<1>1. core' \in CoreRecord
  BY CoreFields, CoreTyped DEF IQueue
<1>2. /\ core'.pc = pc /\ core'.todo = core.todo /\ core'.done = core.done
      /\ core'.unread = unread
  OBVIOUS
<1>3. InLine'
  <2>1. DueBy(core.pc)' = DueBy(core.pc)
    BY <1>2
  <2> QED
    BY <1>2, <2>1 DEF IQueue, InLine, Ordered
<1>4. ModesOn(core.pc)'
  BY <1>2 DEF ModesOn
<1> QED
  BY <1>1, <1>2, <1>3, <1>4 DEF IQueue, Ordered

LEMMA QueueFails ==
  ASSUME IQueue,
         NEW error \in [kind : {"none", "RetryExhausted", "Handler", "Database"}
                                 \union PermanentErrors, attempts : Nat],
         Fail(error)
  PROVE  IQueue'
<1>1. core' = [pc |-> "failed", tx |-> core.tx, attempt |-> core.attempt, todo |-> <<>>,
               done |-> core.done, unread |-> core.unread, error |-> error]
  BY CoreFields DEF Fail, IQueue
<1>2. <<>> \in Seq(EventRecord)
  OBVIOUS
<1>3. core' \in CoreRecord
  BY <1>1, <1>2, CoreFields, CoreTyped DEF IQueue
<1>4. core'.pc = "failed" /\ core'.todo = <<>> /\ core'.done = core.done
  BY <1>1
<1> QED
  BY <1>3, <1>4 DEF IQueue, Ordered, ModesOn

\* The task enters a stage with the events that are due in it.
LEMMA QueueStage ==
  ASSUME IQueue, UNCHANGED <<registry, setup>>, core.pc \in {"block", "input", "accounts"},
         core.todo = <<>>,
         NEW pc \in HandlingStages, NEW todo, NEW due, Stage(pc, todo), Lists(todo, due),
         DueBy(pc)' = DueBy(core.pc) \union due,
         \A a \in DueBy(core.pc), b \in due : Before(a, b),
         ModesOn(pc)
  PROVE  IQueue'
<1>1. core' = [pc |-> pc, tx |-> core.tx, attempt |-> 0, todo |-> todo,
               done |-> core.done, unread |-> core.unread, error |-> core.error]
  BY CoreFields DEF Stage, IQueue
<1>2. todo \in Seq(EventRecord) /\ Ordered(todo) /\ Range(todo) = due
  BY DEF Lists
<1>3. core' \in CoreRecord
  BY <1>1, <1>2, CoreFields, CoreTyped DEF IQueue, HandlingStages, Stages
<1>4. core'.pc = pc /\ core'.todo = todo /\ core'.done = core.done /\ core'.unread = core.unread
  BY <1>1
<1>5. Range(core.done) = DueBy(core.pc)
  <2>1. Range(<<>>) = {}
    BY DEF Range
  <2> QED
    BY <2>1 DEF IQueue, InLine
<1>6. InLine'
  <2>1. DueBy(core.pc)' = DueBy(core.pc) \union due
    BY <1>4
  <2> QED
    BY <1>2, <1>4, <1>5, <2>1 DEF InLine, Ordered
<1>7. ~core.unread
  BY DEF IQueue
<1>8. ModesOn(core.pc)'
  BY <1>4 DEF ModesOn
<1> QED
  BY <1>3, <1>4, <1>6, <1>7, <1>8 DEF IQueue, Ordered

LEMMA QueueHandles ==
  ASSUME IQueue, HandleEvent
  PROVE  IQueue'
<1> DEFINE todo == core.todo
           done == core.done
           head == Head(todo)
           rest == Tail(todo)
           c == Len(done)
           n == Len(todo)
<1>1. /\ core.pc \in HandlingStages /\ todo # <<>> /\ todo \in Seq(EventRecord)
      /\ done \in Seq(EventRecord) /\ UNCHANGED <<registry, setup>>
  BY CoreFields DEF HandleEvent, Handling, HandlingStages, IQueue, OnlyCore
<1>2. core' = [pc |-> core.pc, tx |-> core.tx, attempt |-> 0, todo |-> rest,
               done |-> Append(done, head), unread |-> core.unread, error |-> core.error]
  BY CoreFields DEF HandleEvent, IQueue
<1>3. /\ n \in Nat \ {0} /\ DOMAIN todo = 1..n /\ head = todo[1] /\ head \in EventRecord
      /\ rest \in Seq(EventRecord) /\ DOMAIN rest = 1..(n - 1)
      /\ \A i \in 1..(n - 1) : rest[i] = todo[i + 1]
  BY <1>1, HeadTailProperties, LenProperties
<1>4. /\ c \in Nat /\ DOMAIN done = 1..c /\ Append(done, head) \in Seq(EventRecord)
      /\ DOMAIN Append(done, head) = 1..(c + 1)
      /\ \A i \in 1..c : Append(done, head)[i] = done[i]
      /\ Append(done, head)[c + 1] = head
  BY <1>1, <1>3, AppendProperties, LenProperties
<1>5. core' \in CoreRecord
  BY <1>1, <1>2, <1>3, <1>4, CoreFields, CoreTyped DEF IQueue, HandlingStages, Stages
<1>6. /\ core'.pc = core.pc /\ core'.tx = core.tx /\ core'.todo = rest
      /\ core'.done = Append(done, head) /\ core'.unread = core.unread
  BY <1>2
<1>7. /\ Range(done) \union Range(todo) = DueBy(core.pc)
      /\ Ordered(todo) /\ Ordered(done)
      /\ \A a \in Range(done), b \in Range(todo) : Before(a, b)
  BY <1>1 DEF IQueue, InLine, HandlingStages
<1> HIDE DEF todo, done, head, rest, c, n
<1>8. /\ Range(Append(done, head)) = Range(done) \union {head}
      /\ Range(todo) = {head} \union Range(rest)
  <2>1. ASSUME NEW e \in Range(todo) PROVE e = head \/ e \in Range(rest)
    <3>1. PICK i \in 1..n : todo[i] = e
      BY <1>3 DEF Range
    <3>2. CASE i # 1
      <4>1. i - 1 \in 1..(n - 1) /\ (i - 1) + 1 = i
        BY <1>3, <3>2
      <4>2. rest[i - 1] = e
        BY <1>3, <3>1, <4>1
      <4> QED
        BY <1>3, <4>1, <4>2 DEF Range
    <3> QED
      BY <1>3, <3>1, <3>2
  <2>2. head \in Range(todo) /\ Range(rest) \subseteq Range(todo)
    <3>1. \A i \in 1..(n - 1) : i + 1 \in 1..n
      BY <1>3
    <3>2. 1 \in 1..n
      BY <1>3
    <3> QED
      BY <1>3, <3>1, <3>2 DEF Range
  <2>3. Range(Append(done, head)) = Range(done) \union {head}
    <3>1. \A i : i \in 1..(c + 1) <=> i \in 1..c \/ i = c + 1
      BY <1>4
    <3> QED
      BY <1>4, <3>1 DEF Range
  <2> QED
    BY <2>1, <2>2, <2>3
<1>9. Ordered(Append(done, head))
  <2> SUFFICES ASSUME NEW i \in 1..(c + 1), NEW k \in 1..(c + 1), i < k
               PROVE  Before(Append(done, head)[i], Append(done, head)[k])
    BY <1>4 DEF Ordered
  <2>1. i \in 1..c /\ Append(done, head)[i] = done[i]
    BY <1>4
  <2>2. CASE k = c + 1
    <3>1. done[i] \in Range(done) /\ head \in Range(todo)
      BY <1>4, <1>8, <2>1 DEF Range
    <3> QED
      BY <1>4, <1>7, <2>1, <2>2, <3>1
  <2>3. CASE k # c + 1
    <3>1. k \in 1..c /\ Append(done, head)[k] = done[k]
      BY <1>4, <2>3
    <3> QED
      BY <1>4, <1>7, <2>1, <3>1 DEF Ordered
  <2> QED
    BY <2>2, <2>3
<1>10. Ordered(rest)
  <2> SUFFICES ASSUME NEW i \in 1..(n - 1), NEW k \in 1..(n - 1), i < k
               PROVE  Before(rest[i], rest[k])
    BY <1>3 DEF Ordered
  <2>1. i + 1 \in 1..n /\ k + 1 \in 1..n /\ i + 1 < k + 1
    BY <1>3
  <2> QED
    BY <1>3, <1>7, <2>1 DEF Ordered
<1>11. \A b \in Range(rest) : Before(head, b)
  <2> SUFFICES ASSUME NEW i \in 1..(n - 1) PROVE Before(head, rest[i])
    BY <1>3 DEF Range
  <2>1. 1 \in 1..n /\ i + 1 \in 1..n /\ 1 < i + 1
    BY <1>3
  <2> QED
    BY <1>3, <1>7, <2>1 DEF Ordered
<1>12. InLine'
  <2>1. Range(Append(done, head)) \union Range(rest) = DueBy(core.pc)
    BY <1>7, <1>8
  <2>2. \A a \in Range(Append(done, head)), b \in Range(rest) : Before(a, b)
    BY <1>7, <1>8, <1>11
  <2>3. DueBy(core.pc)' = DueBy(core.pc)
    BY <1>1, <1>6, DueFrame DEF DueBy
  <2> QED
    BY <1>6, <1>10, <2>1, <2>2, <2>3 DEF InLine, Ordered
<1>13. ModesOn(core.pc)' /\ (core'.unread => core'.pc \in {"mark", "recorded", "failed"})
  BY <1>1, <1>6 DEF IQueue, ModesOn
<1> QED
  BY <1>1, <1>5, <1>6, <1>9, <1>12, <1>13 DEF IQueue, Ordered

LEMMA QueueGoes ==
  ASSUME IQueue, UNCHANGED setup, core.pc \notin {"idle", "failed"}, core.todo = <<>>,
         NEW pc \in {"fetch", "decode", "block"} \union Stages, Goto(pc),
         DueBy(pc)' = DueBy(core.pc), ModesOn(pc), core.unread => pc \in {"mark", "recorded"}
  PROVE  IQueue'
<1>1. core.unread \in BOOLEAN /\ 0 \in Nat
  BY CoreFields DEF IQueue
<1>2. core' = [pc |-> pc, tx |-> core.tx, attempt |-> 0, todo |-> core.todo, done |-> core.done,
               unread |-> core.unread, error |-> core.error]
  BY CoreFields DEF Goto, IQueue
<1> QED
  BY <1>1, <1>2, QueueMoves

LEMMA QueueAgain ==
  ASSUME IQueue, UNCHANGED <<registry, setup>>, core.pc \notin {"idle", "failed"},
         core' = [core EXCEPT !.attempt = core.attempt + 1]
  PROVE  IQueue'
<1>1. /\ core.pc \in {"fetch", "decode", "block"} \union Stages
      /\ core.attempt + 1 \in Nat /\ core.unread \in BOOLEAN
  BY CoreFields DEF IQueue
<1>2. core' = [pc |-> core.pc, tx |-> core.tx, attempt |-> core.attempt + 1, todo |-> core.todo,
               done |-> core.done, unread |-> core.unread, error |-> core.error]
  BY CoreFields DEF IQueue
<1>3. core'.tx = core.tx /\ core'.unread = core.unread
  BY <1>2
<1>4. \A pc : DueBy(pc)' = DueBy(pc)
  BY <1>3, DueFrame DEF DueBy
<1>5. core.pc \in HandlingStages \/ core.todo = <<>>
  BY DEF IQueue
<1>6. ModesOn(core.pc) /\ (core.unread => core.pc \in {"mark", "recorded"})
  BY DEF IQueue
<1> QED
  BY <1>1, <1>2, <1>4, <1>5, <1>6, QueueMoves

LEMMA QueueInput ==
  ASSUME IDecoders, IQueue, UNCHANGED <<registry, setup>>, core.pc = "block",
         core.tx \in Transactions, EnterInput
  PROVE  IQueue'
<1> DEFINE q == IF setup.mode.inputs THEN DecodeEach("input", InstructionsOf(core.tx)) ELSE <<>>
<1>1. Stage("input", q) /\ Lists(q, DueInputs)
  BY InputsDecoded DEF EnterInput
<1> HIDE DEF q
<1>2. core'.tx = core.tx /\ core'.unread = core.unread
  BY <1>1, CoreFields DEF Stage, IQueue
<1>3. DueBy("input")' = DueInputs /\ DueBy("block") = {}
  BY <1>2, DueFrame DEF DueBy, Stages, FromLogs, FromAccounts
<1>4. core.todo = <<>> /\ "input" \in HandlingStages /\ ModesOn("input")
  BY DEF IQueue, HandlingStages, ModesOn
<1> QED
  BY <1>1, <1>3, <1>4, QueueStage

LEMMA QueueAnswered ==
  ASSUME IDecoders, ICore, IQueue, RequestAnswered
  PROVE  IQueue'
<1>1. UNCHANGED <<registry, setup>> /\ core.pc \in {"fetch", "block", "accounts"}
  BY DEF RequestAnswered, OnlyCore
<1>2. core.tx \in Transactions /\ core.todo = <<>> /\ ~core.unread
  BY <1>1 DEF ICore, IQueue, HandlingStages
<1>3. CASE core.pc = "fetch" /\ Goto("decode")
  <2>1. DueBy("decode")' = DueBy(core.pc)
    BY <1>3 DEF DueBy, Stages, FromLogs, FromAccounts
  <2>2. ModesOn("decode")
    BY DEF ModesOn
  <2> QED
    BY <1>1, <1>2, <1>3, <2>1, <2>2, QueueGoes
<1>4. CASE core.pc = "block" /\ EnterInput
  BY <1>1, <1>2, <1>4, QueueInput
<1>5. ASSUME core.pc = "accounts", NEW order \in SetToSeqs(AccountsOf(core.tx)),
             Stage("account", AccountEvents(order))
      PROVE  IQueue'
  <2>1. setup.mode.logs /\ setup.mode.accounts
    BY <1>5 DEF IQueue, ModesOn
  <2>2. Lists(AccountEvents(order), DueAccounts)
    BY <1>2, <1>5, <2>1, AccountsRead
  <2>3. core'.tx = core.tx /\ core'.unread = core.unread
    BY <1>5, CoreFields DEF Stage, IQueue
  <2>4. DueBy("account")' = DueBy(core.pc) \union DueAccounts
    BY <1>1, <1>5, <2>3, DueFrame DEF DueBy, Stages, FromLogs, FromAccounts
  <2>5. \A a \in DueBy(core.pc), b \in DueAccounts : Before(a, b)
    <3>1. \A a \in DueBy(core.pc) : a.kind \in {"input", "log"}
      BY <1>5, DueKinds DEF DueBy, Stages, FromLogs, FromAccounts
    <3>2. \A b \in DueAccounts : b.kind = "account"
      BY DueKinds
    <3> QED
      BY <3>1, <3>2 DEF Before, Rank
  <2>6. ModesOn("account") /\ "account" \in HandlingStages
    BY <2>1 DEF ModesOn, HandlingStages
  <2> QED
    BY <1>1, <1>2, <1>5, <2>2, <2>4, <2>5, <2>6, QueueStage
<1> QED
  BY <1>3, <1>4, <1>5 DEF RequestAnswered

LEMMA ErrorType ==
  ASSUME NEW error \in ProviderErrors, NEW n \in Nat
  PROVE  ErrorOf(error, n) \in [kind : {"none", "RetryExhausted", "Handler", "Database"}
                                         \union PermanentErrors, attempts : Nat]
<1>1. error \in PermanentErrors \/ IsTransient(error)
  BY RetryAssumption DEF IsTransient
<1> QED
  BY <1>1 DEF ErrorOf

LEMMA QueueRequestFails ==
  ASSUME IDecoders, ICore, IQueue, RequestFails
  PROVE  IQueue'
<1> DEFINE n == core.attempt + 1
<1>1. UNCHANGED <<registry, setup>> /\ core.pc \in {"fetch", "block", "accounts"}
  BY DEF RequestFails, OnlyCore
<1>2. core.tx \in Transactions /\ core.todo = <<>> /\ ~core.unread /\ n \in Nat
  BY <1>1, CoreFields DEF ICore, IQueue, HandlingStages
<1>3. PICK error \in ProviderErrors :
        IF AsksAgain(error, n, setup.retries) THEN core' = [core EXCEPT !.attempt = n]
        ELSE CASE core.pc = "fetch" -> Fail(ErrorOf(error, n))
               [] core.pc = "block" -> EnterInput
               [] core.pc = "accounts" -> core' = [core EXCEPT !.pc = "mark", !.unread = TRUE]
  BY DEF RequestFails
<1>4. CASE core' = [core EXCEPT !.attempt = n]
  BY <1>1, <1>4, QueueAgain
<1>5. CASE core.pc = "fetch" /\ Fail(ErrorOf(error, n))
  BY <1>2, <1>5, ErrorType, QueueFails
<1>6. CASE core.pc = "block" /\ EnterInput
  BY <1>1, <1>2, <1>6, QueueInput
<1>7. CASE core.pc = "accounts" /\ core' = [core EXCEPT !.pc = "mark", !.unread = TRUE]
  <2>1. core' = [pc |-> "mark", tx |-> core.tx, attempt |-> core.attempt, todo |-> core.todo,
                 done |-> core.done, unread |-> TRUE, error |-> core.error]
    BY <1>7, CoreFields DEF IQueue
  <2>2. core'.tx = core.tx /\ core'.unread
    BY <2>1
  <2>3. DueBy("mark")' = DueBy(core.pc)
    BY <1>1, <1>7, <2>2, DueFrame DEF DueBy, Stages, FromLogs, FromAccounts
  <2>4. core.attempt \in Nat /\ "mark" \in Stages /\ ModesOn("mark")
    BY CoreFields DEF IQueue, Stages, ModesOn
  <2> QED
    BY <1>1, <1>2, <2>1, <2>3, <2>4, QueueMoves
<1> QED
  BY <1>1, <1>3, <1>4, <1>5, <1>6, <1>7

LEMMA QueueNextStage ==
  ASSUME IDecoders, ICore, IParse, IRead, IQueue, NextStage
  PROVE  IQueue'
<1>1. /\ UNCHANGED <<registry, setup>> /\ core.pc \in {"input", "log", "account"}
      /\ core.todo = <<>>
  BY DEF NextStage, OnlyCore
<1>2. core.tx \in Transactions /\ ~core.unread
  BY <1>1 DEF ICore, IQueue
<1>3. CASE core.pc = "input" /\ setup.mode.logs
  <2>1. Stage("log", DecodeEach("log", parser.events))
    BY <1>3 DEF NextStage
  <2>2. Lists(DecodeEach("log", parser.events), DueLogs)
    <3>1. ReadSoFar(core.tx) /\ ~MoreLines(core.tx)
      BY <1>3 DEF IRead
    <3> QED
      BY <1>2, <1>3, <3>1, LogsDecoded
  <2>3. core'.tx = core.tx /\ core'.unread = core.unread
    BY <2>1, CoreFields DEF Stage, IQueue
  <2>4. DueBy("log")' = DueBy(core.pc) \union DueLogs
    BY <1>1, <1>3, <2>3, DueFrame DEF DueBy, Stages, FromLogs, FromAccounts
  <2>5. \A a \in DueBy(core.pc), b \in DueLogs : Before(a, b)
    <3>1. \A a \in DueBy(core.pc) : a.kind = "input"
      BY <1>3, DueKinds DEF DueBy, Stages, FromLogs, FromAccounts
    <3>2. \A b \in DueLogs : b.kind = "log"
      BY DueKinds
    <3> QED
      BY <3>1, <3>2 DEF Before, Rank
  <2>6. ModesOn("log") /\ "log" \in HandlingStages
    BY <1>3 DEF ModesOn, HandlingStages
  <2> QED
    BY <1>1, <1>3, <2>1, <2>2, <2>4, <2>5, <2>6, QueueStage
<1>4. CASE core.pc = "log" /\ setup.mode.accounts /\ AccountsOf(core.tx) # {}
  <2>1. Goto("accounts")
    BY <1>4 DEF NextStage
  <2>2. core'.tx = core.tx /\ core'.unread = core.unread
    BY <2>1, CoreFields DEF Goto, IQueue
  <2>3. DueBy("accounts")' = DueBy(core.pc)
    BY <1>1, <1>4, <2>2, DueFrame DEF DueBy, Stages, FromLogs, FromAccounts
  <2>4. ModesOn("accounts") /\ "accounts" \in Stages
    BY <1>4 DEF IQueue, ModesOn, Stages
  <2> QED
    BY <1>1, <1>2, <2>1, <2>3, <2>4, QueueGoes
<1>5. CASE /\ ~(core.pc = "input" /\ setup.mode.logs)
           /\ ~(core.pc = "log" /\ setup.mode.accounts /\ AccountsOf(core.tx) # {})
  <2>1. Goto("mark")
    BY <1>5 DEF NextStage
  <2>2. core'.tx = core.tx /\ core'.unread = core.unread
    BY <2>1, CoreFields DEF Goto, IQueue
  <2>3. core.pc = "input" => DueLogs = {} /\ DueAccounts = {}
    BY <1>5 DEF DueLogs, DueAccounts
  <2>4. core.pc = "log" => DueAccounts = {}
    BY <1>5 DEF DueAccounts, EventsOf
  <2>5. DueBy("mark")' = DueBy(core.pc)
    BY <1>1, <2>2, <2>3, <2>4, DueFrame DEF DueBy, Stages, FromLogs, FromAccounts
  <2>6. ModesOn("mark") /\ "mark" \in Stages
    BY DEF ModesOn, Stages
  <2> QED
    BY <1>1, <1>2, <2>1, <2>5, <2>6, QueueGoes
<1> QED
  BY <1>3, <1>4, <1>5

LEMMA QueueOther ==
  ASSUME IDecoders, ICore, IQueue, Decode \/ HandlerFails \/ Record
  PROVE  IQueue'
<1>1. UNCHANGED <<registry, setup>>
  BY DEF Decode, HandlerFails, Record, OnlyCore
<1>2. CASE Decode
  <2>1. CASE UNCHANGED core
    <3>1. \A pc : DueBy(pc)' = DueBy(pc)
      BY <1>1, <2>1, DueFrame DEF DueBy
    <3> QED
      BY <1>1, <2>1, <3>1 DEF IQueue, InLine, Ordered, ModesOn
  <2>2. CASE Goto("block")
    <3>1. core.pc = "decode" /\ core.todo = <<>> /\ ~core.unread
      BY <1>2 DEF Decode, IQueue, HandlingStages
    <3>2. DueBy("block")' = DueBy(core.pc) /\ ModesOn("block")
      BY <3>1 DEF DueBy, Stages, FromLogs, FromAccounts, ModesOn
    <3> QED
      BY <1>1, <2>2, <3>1, <3>2, QueueGoes
  <2>3. CASE Fail(ErrorOf("DecodingError", 1))
    <3>1. ErrorOf("DecodingError", 1) = [kind |-> "DecodingError", attempts |-> 1]
      BY DEF ErrorOf, IsTransient, TransientErrors
    <3>2. ErrorOf("DecodingError", 1) \in
            [kind : {"none", "RetryExhausted", "Handler", "Database"} \union PermanentErrors,
             attempts : Nat]
      BY <3>1 DEF PermanentErrors
    <3> QED
      BY <2>3, <3>2, QueueFails
  <2> QED
    BY <1>2, <2>1, <2>2, <2>3 DEF Decode
<1>3. CASE HandlerFails
  <2>1. core.pc \notin {"idle", "failed"} /\ core.attempt + 1 \in Nat
    BY <1>3, CoreFields DEF HandlerFails, Handling, IQueue
  <2>2. CASE core' = [core EXCEPT !.attempt = core.attempt + 1]
    BY <1>1, <2>1, <2>2, QueueAgain
  <2>3. CASE Fail([kind |-> "Handler", attempts |-> core.attempt + 1])
    BY <2>1, <2>3, QueueFails
  <2> QED
    BY <1>3, <2>2, <2>3 DEF HandlerFails
<1>4. CASE Record
  <2>1. core.pc = "mark" /\ core.todo = <<>>
    BY <1>4 DEF Record, IQueue, HandlingStages
  <2>2. CASE Goto("recorded")
    <3>1. core'.tx = core.tx /\ core'.unread = core.unread
      BY <2>2, CoreFields DEF Goto, IQueue
    <3>2. DueBy("recorded")' = DueBy(core.pc) /\ ModesOn("recorded") /\ "recorded" \in Stages
      BY <1>1, <2>1, <3>1, DueFrame DEF DueBy, Stages, FromLogs, FromAccounts, ModesOn
    <3> QED
      BY <1>1, <2>1, <2>2, <3>2, QueueGoes
  <2>3. CASE Fail([kind |-> "Database", attempts |-> 1])
    BY <2>3, QueueFails
  <2> QED
    BY <1>4, <2>2, <2>3 DEF Record
<1> QED
  BY <1>2, <1>3, <1>4

LEMMA NextQueue ==
  ICore /\ IParse /\ IRead /\ IDecoders /\ IQueue /\ [Next]_vars => IQueue'
<1> SUFFICES ASSUME ICore, IParse, IRead, IDecoders, IQueue, [Next]_vars PROVE IQueue'
  OBVIOUS
<1>1. CASE UNCHANGED core /\ (core.pc = "idle" \/ UNCHANGED <<registry, setup>>)
  <2>1. CASE core.pc = "idle"
    BY <1>1, <2>1 DEF IQueue, Ordered, ModesOn
  <2>2. CASE UNCHANGED <<registry, setup>>
    <3>1. \A pc : DueBy(pc)' = DueBy(pc)
      BY <1>1, <2>2, DueFrame DEF DueBy
    <3> QED
      BY <1>1, <2>2, <3>1 DEF IQueue, InLine, Ordered, ModesOn
  <2> QED
    BY <1>1, <2>1, <2>2
<1>2. CASE SetupStep \/ Build \/ New \/ Start \/ \E r \in Registrations : Register(r)
  <2>1. phase # "run" /\ UNCHANGED core
    BY <1>2, SetupKeeps DEF Build, New, Start, Register, OnlySetup
  <2> QED
    BY <1>1, <2>1 DEF ICore
<1>3. ASSUME NEW t \in Transactions, Begin(t)
      PROVE  IQueue'
  <2>1. PICK pc \in {"fetch", "decode"} : core' = [NoTransaction EXCEPT !.pc = pc, !.tx = t]
    BY <1>3 DEF Begin
  <2>2. core' = [pc |-> pc, tx |-> t, attempt |-> 0, todo |-> <<>>, done |-> <<>>,
                 unread |-> FALSE, error |-> NoError]
    BY <2>1 DEF NoTransaction
  <2>3. core' \in CoreRecord
    BY <2>2 DEF CoreRecord, NoError
  <2>4. /\ core'.pc \in {"fetch", "decode"} /\ core'.todo = <<>> /\ core'.done = <<>>
        /\ core'.unread = FALSE
    BY <2>2
  <2>5. InLine'
    <3>1. DueBy(core.pc)' = {}
      BY <2>4 DEF DueBy, Stages, FromLogs, FromAccounts
    <3>2. Range(<<>>) = {} /\ Ordered(<<>>)
      BY DEF Range, Ordered
    <3> QED
      BY <2>4, <3>1, <3>2 DEF InLine, Ordered
  <2> QED
    BY <2>3, <2>4, <2>5 DEF IQueue, Ordered, ModesOn, HandlingStages
<1>4. CASE CoreStep
  BY <1>4, QueueOther, QueueAnswered, QueueRequestFails, QueueHandles, QueueNextStage
  DEF CoreStep
<1>5. CASE UNCHANGED vars
  BY <1>1, <1>5 DEF vars
<1> QED
  BY <1>2, <1>3, <1>4, <1>5, Steps

-----------------------------------------------------------------------------
(* All of it together.                                                     *)

Inv ==
  /\ ISetup /\ ILimits /\ ICore /\ IParse
  /\ IDecoders /\ IRead /\ IQueue
  /\ calls \in 0..MaxSettings

LEMMA NextCalls == calls \in 0..MaxSettings /\ [Next]_vars => calls' \in 0..MaxSettings
<1> SUFFICES ASSUME calls \in 0..MaxSettings, [Next]_vars PROVE calls' \in 0..MaxSettings
  OBVIOUS
<1>1. CASE SetupStep
  <2>1. calls < MaxSettings /\ calls' = calls + 1
    BY <1>1 DEF SetupStep, ChooseSource, ChoosePolling, ChoosePrograms, ChooseSetting, Call
  <2> QED
    BY <2>1, PipelineAssumption
<1>2. CASE Build
  BY <1>2, PipelineAssumption DEF Build
<1>3. CASE New \/ Start \/ \E r \in Registrations : Register(r)
  BY <1>3 DEF New, Start, Register
<1>4. CASE CoreStep \/ \E t \in Transactions : Begin(t)
  BY <1>4, CoreKeeps
<1>5. CASE UNCHANGED vars
  BY <1>5 DEF vars
<1> QED
  BY <1>1, <1>2, <1>3, <1>4, <1>5, Steps

LEMMA InitInv == Init => Inv
<1> SUFFICES ASSUME Init PROVE Inv
  OBVIOUS
<1>1. ILimits
  BY EmptyRegistry DEF IsEmpty, Init, ILimits, WithinLimits
<1>2. IParse /\ IRead
  BY DEF Init, NoTransaction, NewParser, IParse, ParserTypeOK, Attributed, IRead
<1>3. calls \in 0..MaxSettings
  BY PipelineAssumption DEF Init
<1> QED
  BY <1>1, <1>2, <1>3, InitSetup, InitCore, InitDecoders, InitQueue DEF Inv

LEMMA NextInv == Inv /\ [Next]_vars => Inv'
  BY NextSetup, NextLimits, NextCore, NextParse, NextDecoders, NextRead, NextQueue, NextCalls
  DEF Inv

LEMMA PipelineInvariant == Spec => []Inv
  BY InitInv, NextInv, PTL DEF Spec

\* The state of the set-up, the registries, the parser and the task is always
\* of its type: whatever is registered and decoded, only records of events
\* reach the queue.
THEOREM PipelineTypeCorrect == Spec => []TypeOK
<1>1. Inv => TypeOK
  BY DEF Inv, TypeOK, ISetup, ILimits, IParse, IQueue
<1> QED
  BY <1>1, PipelineInvariant, PTL

\* A recorded transaction has had handled exactly the events that the
\* registered decoders make of its instructions, its log and the accounts that
\* could be read, in the modes that are on: for all registries, modes and
\* transactions, and however often requests and handlers failed before.
THEOREM PipelineRecordedIsComplete == Spec => []RecordedIsComplete
<1>1. ASSUME Inv, core.pc = "recorded"
      PROVE  Range(core.done) = DueInputs \union DueLogs \union DueAccounts
  <2>1. core.todo = <<>> /\ InLine
    BY <1>1 DEF Inv, IQueue, HandlingStages
  <2>2. Range(<<>>) = {}
    BY DEF Range
  <2> QED
    BY <1>1, <2>1, <2>2 DEF InLine, DueBy, Stages, FromLogs, FromAccounts
<1>2. Inv => RecordedIsComplete
  BY <1>1 DEF RecordedIsComplete
<1> QED
  BY <1>2, PipelineInvariant, PTL

\* At every moment of a run, also of one that fails, the handlers have seen the
\* events of instructions, then those of logs, then those of accounts, and the
\* first two each once and in the order of the chain.
THEOREM PipelineHandledInOrder == Spec => []HandledInOrder
<1>1. Inv => HandledInOrder
  BY DEF Inv, IQueue, Ordered, Before, HandledInOrder
<1> QED
  BY <1>1, PipelineInvariant, PTL

=============================================================================
