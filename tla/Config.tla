-------------------------------- MODULE Config --------------------------------
(***************************************************************************)
(* config.Load: what the text of the environment becomes.  The variables   *)
(* that matter here are those another module branches on; addresses,       *)
(* credentials and names are left out, a wrong one shows when it is used.  *)
(***************************************************************************)
EXTENDS Integers

CONSTANTS
    Unset,         \* a variable that is not set, or set to ""
    Malformed,     \* text that does not parse; also the result of a failed Load
    Blank,         \* a list entry, a key or a token of white space only
    Defaults       \* the values Load falls back to, by variable

getenv(raw, def) == IF raw = Unset THEN def ELSE raw

(* getenvInt64 and getenvBool: what does not parse counts as unset. *)
getenvParsed(raw, def) == IF raw \in {Unset, Malformed} THEN def ELSE raw

(* No list has a default. *)
getenvList(raw) == IF raw = Unset THEN {} ELSE raw \ {Blank}

(* A duration that does not parse is the one thing Load refuses. *)
Load(env) ==
    LET duration(v) == getenv(env[v], Defaults[v])
        durations   == {"DEFAULT_TTL", "SWEEP_INTERVAL", "DOWNLOAD_URL_TTL"} IN
    IF \E v \in durations : duration(v) = Malformed THEN Malformed
    ELSE [maxUpload     |-> getenvParsed(env["MAX_UPLOAD_BYTES"], Defaults["MAX_UPLOAD_BYTES"]),
          apiKeys       |-> getenvList(env["API_KEYS"]),
          brokers       |-> getenvList(env["KAFKA_BROKERS"]),
          defaultTTL    |-> duration("DEFAULT_TTL"),
          sweepInterval |-> duration("SWEEP_INTERVAL"),
          signingKey    |-> getenv(env["DOWNLOAD_SIGNING_KEY"], Unset),
          urlTTL        |-> duration("DOWNLOAD_URL_TTL")]
===============================================================================
