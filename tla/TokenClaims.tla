----------------------------- MODULE TokenClaims -----------------------------
(***************************************************************************)
(* Token claims (src/crates/core/src/iam/token.rs).  A JWT payload, a map *)
(* from JSON keys to values, is decoded into Claims by the serde derive    *)
(* the struct's attributes configure: each standard claim has a name (or  *)
(* a rename) and aliases, and every other key lands in the flattened       *)
(* custom_claims.  From<Claims> (and, line for line the same, From<&Claims>)*)
(* then builds the $token object: the standard claims under their         *)
(* canonical keys, then each custom claim that survives a round trip       *)
(* through serde_json and the SurrealQL JSON parser.                       *)
(*                                                                         *)
(* Values are abstracted to their JSON kind; a value the SurrealQL parser  *)
(* rejects is one of RoundTripFails.                                       *)
(***************************************************************************)
EXTENDS Naturals, FiniteSets, Sequences

CONSTANTS
  PayloadKeys,     \* the JSON keys a payload may carry
  JsonValues,      \* JSON values, by kind: "int", "str", "strs", ...
  RoundTripFails,  \* values json() fails to parse back (the claim is skipped)
  None             \* an absent Option

VARIABLES
  payload,  \* the token payload: a function from some PayloadKeys to JsonValues
  claims,   \* the decoded Claims ([ok |-> FALSE] for an error), or None
  out,      \* the $token object, once converted
  tpc       \* "decode", "convert", "done"

tokenVars == <<payload, claims, out, tpc>>

-----------------------------------------------------------------------------
(* struct Claims: the fields, and the keys serde accepts for each.         *)
Fields == {"iat", "nbf", "exp", "iss", "sub", "aud", "jti", "ns", "db", "ac", "id", "roles"}

Surreal(k) == {"https://surrealdb.com/" \o k}

AcceptedKeys(f) ==
  CASE f = "ns"    -> {"NS", "ns"} \cup Surreal("ns") \cup Surreal("namespace")
    [] f = "db"    -> {"DB", "db"} \cup Surreal("db") \cup Surreal("database")
    [] f = "ac"    -> {"AC", "ac"} \cup Surreal("ac") \cup Surreal("access")
    [] f = "id"    -> {"ID", "id"} \cup Surreal("id") \cup Surreal("record")
    [] f = "roles" -> {"RL", "rl"} \cup Surreal("rl") \cup Surreal("roles")
    [] OTHER       -> {f}

(* The JSON kinds each field deserializes from: i64, String, Audience    *)
(* (untagged: a string or an array of strings), Vec<String>.               *)
Accepts(f, v) ==
  CASE f \in {"iat", "nbf", "exp"} -> v = "int"
    [] f = "aud"                   -> v \in {"str", "strs"}
    [] f = "roles"                 -> v = "strs"
    [] OTHER                       -> v = "str"

Standard(k) == \E f \in Fields : k \in AcceptedKeys(f)

(* Deserialize for Claims: a field given under two of its keys is a       *)
(* duplicate field, a value of the wrong kind an invalid type; the keys   *)
(* no field accepts are the flattened custom claims.                       *)
Decode(p) ==
  LET given(f) == AcceptedKeys(f) \cap DOMAIN p
      valueOf(f) == p[CHOOSE k \in given(f) : TRUE]
  IN IF \E f \in Fields : Cardinality(given(f)) > 1
                          \/ (given(f) # {} /\ ~Accepts(f, valueOf(f)))
     THEN [ok |-> FALSE]
     ELSE [ok     |-> TRUE,
           std    |-> [f \in Fields |-> IF given(f) = {} THEN None ELSE valueOf(f)],
           custom |-> [k \in {k \in DOMAIN p : ~Standard(k)} |-> p[k]]]

-----------------------------------------------------------------------------
(* Mutant: the roles are inserted under the field's name.                 *)
OutKeyRolesByName(f) ==
  CASE f = "ns" -> "NS" [] f = "db" -> "DB" [] f = "ac" -> "AC" [] f = "id" -> "ID"
    [] OTHER -> f

(* The key From<Claims> inserts each standard claim under.                *)
OutKey(f) ==
  CASE f = "ns" -> "NS" [] f = "db" -> "DB" [] f = "ac" -> "AC" [] f = "id" -> "ID"
    [] f = "roles" -> "RL"
    [] OTHER -> f

(* From<Claims> for Value: the standard claims that are set, then the     *)
(* custom claims, each inserted over whatever the key held; a custom      *)
(* claim whose JSON does not parse back is skipped (continue).            *)
FromClaims(c) ==
  LET set     == {f \in Fields : c.std[f] # None}
      stdKeys == {OutKey(f) : f \in set}
      custom  == {k \in DOMAIN c.custom : c.custom[k] \notin RoundTripFails}
  IN [k \in stdKeys \cup custom |->
        IF k \in custom THEN c.custom[k]
        ELSE c.std[CHOOSE f \in set : OutKey(f) = k]]

-----------------------------------------------------------------------------
Payloads == UNION {[ks -> JsonValues] : ks \in SUBSET PayloadKeys}

TokenInit ==
  /\ payload \in Payloads
  /\ claims = None /\ out = None
  /\ tpc = "decode"

DecodeToken ==
  /\ tpc = "decode"
  /\ claims' = Decode(payload)
  /\ tpc' = IF claims'.ok THEN "convert" ELSE "done"
  /\ UNCHANGED <<payload, out>>

ConvertClaims ==
  /\ tpc = "convert"
  /\ out' = FromClaims(claims)
  /\ tpc' = "done"
  /\ UNCHANGED <<payload, claims>>

TokenNext == DecodeToken \/ ConvertClaims

-----------------------------------------------------------------------------
(* The $token object of a decoded payload holds every standard claim the *)
(* payload set, under its canonical key and with the payload's value (no  *)
(* custom claim, inserted after them, shadows one), and every custom     *)
(* claim exactly when its value survives the JSON round trip.              *)
TokenObjectReflectsPayload ==
  tpc = "done" /\ claims.ok =>
    /\ \A f \in Fields : claims.std[f] # None =>
         OutKey(f) \in DOMAIN out /\ out[OutKey(f)] = claims.std[f]
    /\ \A k \in DOMAIN payload : ~Standard(k) =>
         IF payload[k] \in RoundTripFails THEN k \notin DOMAIN out
         ELSE k \in DOMAIN out /\ out[k] = payload[k]
    /\ \A k \in DOMAIN out :
         k \in DOMAIN payload \/ \E f \in Fields : k = OutKey(f)

================================================================================
