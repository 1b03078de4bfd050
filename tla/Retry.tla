------------------------------- MODULE Retry -------------------------------
(***************************************************************************)
(* RetryingRpcProvider, which wraps every request of the Fetcher, and the  *)
(* loop around a handler call, which counts differently: the first adds to *)
(* `attempt` after a failed request, the second to `attempts` before each  *)
(* call.  The delays between attempts are not modelled.                    *)
(***************************************************************************)
EXTENDS Integers

CONSTANT ProviderErrors   \* the errors an RPC provider may return

TransientErrors == {"RpcError", "RpcClientError", "ConnectionError", "InternalError"}
PermanentErrors == {"DatabaseError", "DecodingError", "ConfigError", "DataError"}

ASSUME RetryAssumption == ProviderErrors \subseteq TransientErrors \union PermanentErrors

IsTransient(error) == error \in TransientErrors

\* with_retry, after `attempt` failed requests: ask again, or give up.
AsksAgain(error, attempt, max) == IsTransient(error) /\ attempt <= max

ErrorOf(error, attempt) ==
  [kind |-> IF IsTransient(error) THEN "RetryExhausted" ELSE error, attempts |-> attempt]

NoError == [kind |-> "none", attempts |-> 0]

\* The handler loop, when the call numbered `attempts` has failed.
CallsAgain(attempts, max) == attempts <= max
=============================================================================
