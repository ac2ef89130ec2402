----------------------------- MODULE MCStandalone -----------------------------
(***************************************************************************)
(* The components that do not share state with one another, checked in    *)
(* one run as a sum: a behaviour decodes one token payload (TokenClaims), *)
(* parses one UPSERT token stream (UpsertParser), runs LIVE statements    *)
(* against live-query readers (LiveQueryRegistration) or runs one export  *)
(* through its pipeline (ExportPipeline).  The components it does not run *)
(* stay in an idle state in which none of their actions is enabled.       *)
(***************************************************************************)
EXTENDS TokenClaims, UpsertParser, ExportPipeline

CONSTANTS Writers, Readers, Absent, NoEntry

VARIABLES kv, ktx, version, cache, wpc, rpc, rver, rlives

liveVars == <<kv, ktx, version, cache, wpc, rpc, rver, rlives>>

Live == INSTANCE LiveQueryRegistration

VARIABLE mode   \* "token", "upsert", "live" or "export"

vars == <<mode, tokenVars, parserVars, liveVars, exportVars>>

MCPayloadKeys ==
  {"NS", "https://surrealdb.com/namespace", "aud", "rl", "roles", "jti", "x"}
MCJsonValues == {"int", "str", "strs", "raw"}
MCRoundTripFails == {"raw"}

TokenIdle  == payload = None /\ claims = None /\ out = None /\ tpc = "idle"
ParserIdle == input = << >> /\ result = [ok |-> FALSE] /\ upc = "idle"

(* An export that has finished without running: nothing is enabled.       *)
ExportIdle ==
  /\ sink = (CHOOSE k \in Sinks : TRUE) /\ source = (CHOOSE k \in Sources : TRUE)
  /\ n = 0 /\ phase = "done" /\ answer = "none" /\ produced = 0 /\ epc = "ended"
  /\ ch = << >> /\ txOpen = FALSE /\ held = NoChunk /\ bpc = "ended"
  /\ pipe = << >> /\ wOpen = FALSE /\ cpc = "ended" /\ file = << >>
  /\ bytesOut = << >> /\ clientOpen = FALSE /\ recv = << >>

Init ==
  \/ mode = "token"  /\ TokenInit  /\ ParserIdle /\ Live!Init /\ ExportIdle
  \/ mode = "upsert" /\ ParserInit /\ TokenIdle  /\ Live!Init /\ ExportIdle
  \/ mode = "live"   /\ Live!Init  /\ TokenIdle  /\ ParserIdle /\ ExportIdle
  \/ mode = "export" /\ ExportInit /\ TokenIdle  /\ ParserIdle /\ Live!Init

(* A finished conversion stays finished.                                   *)
Converted ==
  /\ (mode = "token" /\ tpc = "done") \/ (mode = "upsert" /\ upc = "done")
  /\ UNCHANGED vars

Next ==
  \/ mode = "token"  /\ TokenNext  /\ UNCHANGED <<mode, parserVars, liveVars, exportVars>>
  \/ mode = "upsert" /\ Parse      /\ UNCHANGED <<mode, tokenVars, liveVars, exportVars>>
  \/ mode = "live"   /\ Live!Next  /\ UNCHANGED <<mode, tokenVars, parserVars, exportVars>>
  \/ mode = "export" /\ ExportNext /\ UNCHANGED <<mode, tokenVars, parserVars, liveVars>>
  \/ Converted

Spec == Init /\ [][Next]_vars /\ ExportFairness

-----------------------------------------------------------------------------
(* The LIVE type invariant, which also checks the value compute writes   *)
(* under each live-query key.                                              *)
TypeOK == Live!TypeOK

(* A live query's node key and table key are committed together or not   *)
(* at all, even when compute fails between its two replace calls.         *)
LiveKeysPaired == Live!LiveKeysPaired
==============================================================================
