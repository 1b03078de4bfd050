------------------------------ MODULE Registry ------------------------------
(***************************************************************************)
(* The registries of the indexer: instruction decoders and log decoders by *)
(* program, account decoders, and the handlers of live and of backfilled   *)
(* events by discriminator.  They differ in what a second registration     *)
(* under one key does, and share RegistryMetrics, which counts             *)
(* registrations and holds the limit.                                      *)
(***************************************************************************)
EXTENDS Integers, Sequences, FiniteSets

CONSTANTS
  Keys,       \* what entries are registered under: program ids and names,
              \* discriminators
  Forms,      \* shapes of instructions, log payloads and accounts
  Events,     \* discriminators of the typed events
  NoEvent,    \* a decoder's None
  AnyAccount  \* the one key of the account decoders, which are a list

ASSUME RegistryAssumption ==
  Events \subseteq Keys /\ AnyAccount \in Keys /\ NoEvent \notin Events

Kinds == {"input", "log", "account", "handler", "backfill"}
Handlers == {"handler", "backfill"}

\* A decoder of one event type, and the forms it recognises; a handler is the
\* event type it deserializes.
Decoder == [reads : SUBSET Forms, event : Events]

VARIABLE registry   \* entries by kind and key, registrations by kind

NewRegistry ==
  [items |-> [kind \in Kinds |-> [key \in Keys |-> <<>>]], count |-> [kind \in Kinds |-> 0]]

RegistryTypeOK ==
  /\ DOMAIN registry = {"items", "count"}
  /\ registry.items \in [Kinds -> [Keys -> Seq(Decoder \union Events)]]
  /\ registry.count \in [Kinds -> Nat]

Known(kind) == {key \in Keys : registry.items[kind][key] # <<>>}

\* A mutant: one more than the limit.
IsFull_Off(kind, limits) == limits[kind] # 0 /\ registry.count[kind] > limits[kind]

IsFull(kind, limits) == limits[kind] # 0 /\ registry.count[kind] >= limits[kind]

\* A full registry still takes entries under a key it has; that of accounts,
\* a list, takes none.
Accepts(r, limits) ==
  (r.kind # "account" /\ r.key \in Known(r.kind)) \/ ~IsFull(r.kind, limits)

\* Decoders are added after those of the same key, a handler replaces.
Enter(r) ==
  registry' =
    [items |-> [registry.items EXCEPT ![r.kind][r.key] =
                  IF r.kind \in Handlers THEN <<r.item>> ELSE Append(@, r.item)],
     count |-> [registry.count EXCEPT ![r.kind] = @ + 1]]

-----------------------------------------------------------------------------
(* Decoding and dispatch.                                                  *)

\* The event of the first decoder that recognises the form.
Decoded(decoders, form) ==
  LET hits == {i \in DOMAIN decoders : form \in decoders[i].reads}
  IN  IF hits = {} THEN NoEvent
      ELSE decoders[CHOOSE i \in hits : \A k \in hits : i <= k].event

\* Some positions, in their order.
InOrder(positions) ==
  CHOOSE f \in [1..Cardinality(positions) -> positions] :
    \A i, k \in DOMAIN f : i < k => f[i] < f[k]

\* decode_transaction and decode_logs: each item's event, where it has one.
EventOf(kind, item) ==
  IF item.key \in Keys THEN Decoded(registry.items[kind][item.key], item.form) ELSE NoEvent

DecodeEach(kind, items) ==
  LET events == [i \in DOMAIN items |-> EventOf(kind, items[i])]
      hits == InOrder({i \in DOMAIN items : events[i] # NoEvent})
  IN  [n \in DOMAIN hits |-> [kind |-> kind, at |-> items[hits[n]].at,
                              event |-> events[hits[n]]]]

\* decode_account: an event of every decoder that recognises the account.
DecodeAccount(at, form) ==
  LET decoders == registry.items["account"][AnyAccount]
      hits == InOrder({i \in DOMAIN decoders : form \in decoders[i].reads})
  IN  [n \in DOMAIN hits |-> [kind |-> "account", at |-> at,
                              event |-> decoders[hits[n]].event]]

\* handle and handle_dynamic: there is a handler and it reads that event type.
HasHandler(event) == registry.items["handler"][event] = <<event>>

-----------------------------------------------------------------------------
(* What a limit counts.                                                    *)

Size(kind) ==
  IF kind = "account" THEN Len(registry.items[kind][AnyAccount])
  ELSE Cardinality(Known(kind))
=============================================================================
