------------------------------ MODULE MCLifecycle ------------------------------
(* Lifecycle with the environments that send a start down different paths. *)
EXTENDS Lifecycle

ConstDefaults ==
    [DEFAULT_TTL |-> 3, SWEEP_INTERVAL |-> 1, DOWNLOAD_URL_TTL |-> 2,
     MAX_UPLOAD_BYTES |-> 2]

Bare ==
    [v \in DOMAIN ConstDefaults \cup {"API_KEYS", "KAFKA_BROKERS",
        "DOWNLOAD_SIGNING_KEY", "OTEL_EXPORTER_OTLP_ENDPOINT"} |-> Unset]

(* A start with nothing set; with everything; with Kafka but no sweeper;    *)
(* and with a duration that does not parse.                                 *)
ConstEnvs ==
    {Bare,
     [Bare EXCEPT !["KAFKA_BROKERS"] = {"k1", Blank},
                  !["OTEL_EXPORTER_OTLP_ENDPOINT"] = "collector"],
     [Bare EXCEPT !["KAFKA_BROKERS"] = {"k1"}, !["SWEEP_INTERVAL"] = 0],
     [Bare EXCEPT !["DEFAULT_TTL"] = Malformed]}
===============================================================================
