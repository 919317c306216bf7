------------------------------- MODULE MCGateway -------------------------------
(* Gateway with the configurations that change what a client is told. *)
EXTENDS Gateway

ConstDefaults ==
    [DEFAULT_TTL |-> 3, SWEEP_INTERVAL |-> 1, DOWNLOAD_URL_TTL |-> 1,
     MAX_UPLOAD_BYTES |-> 2]

Bare ==
    [v \in DOMAIN ConstDefaults \cup {"API_KEYS", "KAFKA_BROKERS",
        "DOWNLOAD_SIGNING_KEY"} |-> Unset]

(* Open to everybody, with a limit that does not parse; locked and signing; *)
(* the same after the keys were changed; and one that does not start.       *)
ConstEnvs ==
    {[Bare EXCEPT !["MAX_UPLOAD_BYTES"] = Malformed, !["API_KEYS"] = {Blank},
                  !["DEFAULT_TTL"] = 0],
     [Bare EXCEPT !["API_KEYS"] = {"k1", Blank}, !["DOWNLOAD_SIGNING_KEY"] = "s1"],
     [Bare EXCEPT !["API_KEYS"] = {"k2"}, !["DOWNLOAD_SIGNING_KEY"] = "s2",
                  !["DOWNLOAD_URL_TTL"] = 2],
     [Bare EXCEPT !["DOWNLOAD_URL_TTL"] = Malformed]}

ConstDurations == {-1, 0, 1}

(* The last one does not fit in Width bits. *)
ConstSeconds == {-1, 0, 1, 4}

(* No limit. *)
ZeroEnvs == {[Bare EXCEPT !["MAX_UPLOAD_BYTES"] = 0]}
===============================================================================
