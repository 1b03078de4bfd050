------------------------------ MODULE Decoding ------------------------------
(***************************************************************************)
(* Decoder: parse_event_logs and extract_instructions.  What a transaction *)
(* holds is given by the constant Content: the Solana runtime (external)   *)
(* wrote its log, and every line carries, for the properties only, the     *)
(* programs that were being executed once it was written.                  *)
(***************************************************************************)
EXTENDS Registry, SequencesExt

CONSTANTS
  Programs,      \* program ids that occur in logs
  NoProgram,     \* no program id: None, or a word that does not parse as one
  Transactions,  \* transactions
  Content        \* [Transactions -> what they hold]

LineKinds == {"invoke", "success", "failed", "data", "log", "other"}

\* program: the second word of the line, if it parses.  mentions: what a
\* message of the program's own happens to contain.
Line ==
  [kind : LineKinds, program : Programs \union {NoProgram},
   mentions : {"nothing", "invoke [", " success", " failed"}, form : Forms,
   running : Seq(Programs)]

\* key: the program of a decoded instruction, under its name if the node
\* parsed it and under its id if not; none if it is only compiled.
Instruction == [key : Keys \union {NoProgram}, form : Forms]

Account == [form : Forms, writable : BOOLEAN, exists : BOOLEAN]

\* format: how the message is encoded; valid: its program indexes are.
ContentOf ==
  [format : {"parsed", "raw", "binary"}, valid : BOOLEAN, meta : BOOLEAN,
   instructions : Seq(Instruction), accounts : Seq(Account), lines : Seq(Line)]

Running(t, i) == IF i = 0 THEN <<>> ELSE Content[t].lines[i].running

\* The runtime names the program it enters and the one it leaves; whatever a
\* program writes itself begins with "Program log: " or "Program data: ".
LoggedByRuntime(t) ==
  LET lines == Content[t].lines
  IN  \A i \in DOMAIN lines :
        LET l == lines[i]
        IN  CASE l.kind = "invoke" ->
                   /\ l.program # NoProgram /\ l.mentions = "nothing"
                   /\ l.running = Append(Running(t, i - 1), l.program)
              [] l.kind \in {"success", "failed"} ->
                   /\ l.program # NoProgram /\ l.mentions = "nothing"
                   /\ Running(t, i - 1) # <<>> /\ l.program = Last(Running(t, i - 1))
                   /\ l.running = Front(Running(t, i - 1))
              [] OTHER ->
                   /\ l.program = NoProgram
                   /\ l.running = Running(t, i - 1)

ASSUME DecodingAssumption ==
  /\ Programs \subseteq Keys /\ NoProgram \notin Keys
  /\ Content \in [Transactions -> ContentOf]
  /\ \A t \in Transactions : LoggedByRuntime(t)

VARIABLE parser   \* parse_event_logs: next line, program_stack, events so far

NewParser == [line |-> 1, stack |-> <<>>, events |-> <<>>]

\* An event remembers, for the properties only, the line it comes from (at).
ParsedEvent ==
  [type : {"invoke", "data", "log"}, key : Programs \union {NoProgram}, form : Forms,
   at : Nat \ {0}]

ParserTypeOK ==
  parser \in [line : Nat \ {0}, stack : Seq(Programs), events : Seq(ParsedEvent)]

-----------------------------------------------------------------------------
(* One step of the loop of parse_event_logs per line.                      *)

LooksLikeInvoke(l) == l.kind = "invoke" \/ l.mentions = "invoke ["
LooksLikeResult(l) ==
  /\ ~LooksLikeInvoke(l)
  /\ l.kind \in {"success", "failed"} \/ l.mentions \in {" success", " failed"}

Current(stack) == IF stack = <<>> THEN NoProgram ELSE Last(stack)

Parsed(stack, events) ==
  parser' = [line |-> parser.line + 1, stack |-> stack, events |-> events]

Emit(type, key, form) ==
  Append(parser.events, [type |-> type, key |-> key, form |-> form, at |-> parser.line])

\* A mutant: a word that does not parse is pushed all the same.
ReadInvoke_Unparsed(l) ==
  /\ LooksLikeInvoke(l)
  /\ Parsed(Append(parser.stack, l.program), Emit("invoke", l.program, l.form))

ReadInvoke(l) ==
  /\ LooksLikeInvoke(l)
  /\ IF l.program # NoProgram
     THEN Parsed(Append(parser.stack, l.program), Emit("invoke", l.program, l.form))
     ELSE Parsed(parser.stack, parser.events)

\* A mutant: the second word is not looked at.
ReadResult_Any(l) ==
  /\ LooksLikeResult(l)
  /\ Parsed(IF parser.stack = <<>> THEN <<>> ELSE Front(parser.stack), parser.events)

\* Popping an empty stack does nothing.
ReadResult(l) ==
  /\ LooksLikeResult(l)
  /\ Parsed(IF l.program # NoProgram /\ parser.stack # <<>> THEN Front(parser.stack)
            ELSE parser.stack, parser.events)

\* Program data and Program log, attributed to the program on top.
ReadMessage(l) ==
  /\ ~LooksLikeInvoke(l) /\ ~LooksLikeResult(l)
  /\ Parsed(parser.stack,
            IF l.kind \in {"data", "log"}
            THEN Emit(l.kind, Current(parser.stack), l.form) ELSE parser.events)

MoreLines(t) == parser.line <= Len(Content[t].lines)

ParseLine(t) ==
  /\ MoreLines(t)
  /\ LET l == Content[t].lines[parser.line]
     IN  ReadInvoke(l) \/ ReadResult(l) \/ ReadMessage(l)

-----------------------------------------------------------------------------
(* The rest of decode_transaction, and what the pipeline takes from the    *)
(* transaction itself.                                                     *)

\* extract_instructions looks the programs of a raw message up.
Decodable(t) == Content[t].format = "raw" => Content[t].valid

\* Only a parsed message gives instructions to the decoders.
InstructionsOf(t) ==
  IF Content[t].format # "parsed" THEN <<>>
  ELSE [i \in DOMAIN Content[t].instructions |->
          [key |-> Content[t].instructions[i].key,
           form |-> Content[t].instructions[i].form, at |-> i]]

\* The accounts that may have changed; a raw message does not say which did.
AccountsOf(t) ==
  CASE Content[t].format = "parsed" ->
         {i \in DOMAIN Content[t].accounts : Content[t].accounts[i].writable}
    [] Content[t].format = "raw" -> DOMAIN Content[t].accounts
    [] OTHER -> {}
=============================================================================
