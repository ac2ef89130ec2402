----------------------------- MODULE UpsertParser -----------------------------
(***************************************************************************)
(* Parser::parse_upsert_stmt (src/crates/core/src/syn/parser/stmt/         *)
(* upsert.rs).  After UPSERT, the parser takes, in this order: an optional *)
(* ONLY, the what-list (required), then the optional WITH, data (SET,      *)
(* CONTENT, MERGE, ...), WHERE, RETURN, TIMEOUT, PARALLEL and EXPLAIN      *)
(* clauses.  Each eat / try_parse_* looks at the next token and consumes   *)
(* its clause only when the token starts it; otherwise it yields None and  *)
(* consumes nothing.  What follows the last clause is left to the caller.  *)
(*                                                                         *)
(* A clause is abstracted to one token, named after its keyword ("WHAT"   *)
(* for a value of the what-list).                                         *)
(***************************************************************************)
EXTENDS Naturals, Sequences

CONSTANTS
  MaxTokens   \* the longest token stream parsed

VARIABLES
  input,   \* the tokens after UPSERT
  result,  \* [ok, stmt (the clauses parsed), rest], or [ok |-> FALSE]
  upc      \* "parse", "done"

parserVars == <<input, result, upc>>

(* The calls of parse_upsert_stmt, in order.                              *)
UpsertSteps ==
  <<"ONLY", "WHAT", "WITH", "DATA", "WHERE", "RETURN", "TIMEOUT", "PARALLEL", "EXPLAIN">>

Tokens == {UpsertSteps[i] : i \in 1..Len(UpsertSteps)}

(* One call per step: the clause is taken when the next token starts it; *)
(* parse_what_list fails when there is no value.                           *)
RECURSIVE ParseSteps(_, _, _)
ParseSteps(steps, toks, stmt) ==
  IF steps = << >> THEN [ok |-> TRUE, stmt |-> stmt, rest |-> toks]
  ELSE LET s    == Head(steps)
           here == toks # << >> /\ Head(toks) = s
       IN IF s = "WHAT" /\ ~here THEN [ok |-> FALSE]
          ELSE ParseSteps(Tail(steps), IF here THEN Tail(toks) ELSE toks,
                          IF here THEN stmt \cup {s} ELSE stmt)

ParseUpsertStmt(toks) == ParseSteps(UpsertSteps, toks, {})

-----------------------------------------------------------------------------
Inputs == UNION {[1..n -> Tokens] : n \in 0..MaxTokens}

ParserInit ==
  /\ input \in Inputs
  /\ result = [ok |-> FALSE]
  /\ upc = "parse"

Parse ==
  /\ upc = "parse"
  /\ result' = ParseUpsertStmt(input)
  /\ upc' = "done"
  /\ UNCHANGED input

================================================================================
