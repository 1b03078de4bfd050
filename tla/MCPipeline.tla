---------------------------- MODULE MCPipeline ----------------------------
(***************************************************************************)
(* Pipeline with two programs, p and q, and four transactions: one whose   *)
(* programs call each other and write misleading messages, one that a      *)
(* stream delivers raw, one whose raw message is malformed, and one        *)
(* without metadata.                                                       *)
(***************************************************************************)
EXTENDS Pipeline

CONSTANTS p, q, bad, token, e1, e2, e3, x, y, plain, t1, t2, t3, t4, any

MCPrograms == {p, q}
MCKeys == {p, q, token, e1, e2, e3, any}
MCForms == {x, y, plain}
MCEvents == {e1, e2, e3}
MCTransactions == {t1, t2, t3, t4}

L(kind, program, mentions, form, running) ==
  [kind |-> kind, program |-> program, mentions |-> mentions, form |-> form,
   running |-> running]

\* p calls q, which fails; q's messages look like those of the runtime.
Nested ==
  << L("invoke", p, "nothing", plain, <<p>>),
     L("data", NoProgram, "nothing", x, <<p>>),
     L("invoke", q, "nothing", plain, <<p, q>>),
     L("log", NoProgram, " success", x, <<p, q>>),
     L("log", NoProgram, "invoke [", y, <<p, q>>),
     L("data", NoProgram, "nothing", y, <<p, q>>),
     L("failed", q, "nothing", plain, <<p>>),
     L("log", NoProgram, "nothing", x, <<p>>),
     L("other", NoProgram, " failed", plain, <<p>>),
     L("success", p, "nothing", plain, <<>>) >>

\* A log the runtime has truncated.
Truncated ==
  << L("invoke", q, "nothing", plain, <<q>>),
     L("data", NoProgram, "nothing", x, <<q>>),
     L("other", NoProgram, "nothing", plain, <<q>>) >>

Tx(format, valid, meta, instructions, accounts, lines) ==
  [format |-> format, valid |-> valid, meta |-> meta, instructions |-> instructions,
   accounts |-> accounts, lines |-> lines]

Two == << [key |-> p, form |-> x], [key |-> token, form |-> x], [key |-> NoProgram, form |-> x],
          [key |-> p, form |-> y] >>

Three == << [form |-> x, writable |-> TRUE, exists |-> TRUE],
            [form |-> x, writable |-> FALSE, exists |-> TRUE],
            [form |-> x, writable |-> TRUE, exists |-> FALSE],
            [form |-> y, writable |-> TRUE, exists |-> TRUE] >>

MCContent ==
  [t \in MCTransactions |->
     CASE t = t1 -> Tx("parsed", TRUE, TRUE, Two, Three, Nested)
       [] t = t2 -> Tx("raw", TRUE, TRUE, Two, Three, Truncated)
       [] t = t3 -> Tx("raw", FALSE, TRUE, Two, <<>>, <<>>)
       [] t = t4 -> Tx("binary", TRUE, FALSE, <<>>, <<>>, <<>>)]

D(reads, event) == [reads |-> reads, event |-> event]
R(kind, key, item) == [kind |-> kind, key |-> key, item |-> item]

MCRegistrations ==
  { R("input", p, D({x}, e1)), R("log", p, D({x}, e2)), R("log", p, D({x, y}, e1)),
    R("log", q, D({y}, e1)), R("account", any, D({x}, e1)),
    R("handler", e1, e1), R("handler", e2, e2), R("handler", e1, e3),
    R("backfill", e1, e1) }

One == [input |-> 1, log |-> 1, account |-> 1, handler |-> 1, backfill |-> 1]

MCSettings ==
  { [field |-> "mode", value |-> IndexingModes.logs],
    [field |-> "mode", value |-> IndexingModes.accounts],
    [field |-> "registry", value |-> One],
    [field |-> "retries", value |-> 1],
    [field |-> "strategy", value |-> "resume"],
    [field |-> "workers", value |-> 1] }

MCErrors == {"RpcClientError", "DecodingError"}
=============================================================================
