------------------------------ MODULE FileRecord ------------------------------
(***************************************************************************)
(* The file record and the two clocks it is compared with.                 *)
(*                                                                         *)
(* Time is counted in ticks, TicksPerSecond of them to the second.  The    *)
(* server works with full-precision times (time.Now().UTC()); MySQL keeps  *)
(* expires_at in a TIMESTAMP column without a fraction, so a stored expiry *)
(* comes back rounded to the nearest second, and NOW() is a whole second.  *)
(***************************************************************************)
EXTENDS Integers

CONSTANTS
    None,              \* no row, no blob, no cache entry, no reply yet
    TicksPerSecond     \* resolution of the server's clock

ASSUME TicksAssumption == TicksPerSecond \in Nat \ {0}

(* ExpiresAt = nil: the file is permanent. *)
Never == -1

Expiries == Nat \cup {Never}

(* What the layers pass to each other about one file; the names, types and  *)
(* keys the code also carries are functions of the id and never compared.   *)
Meta == [exp : Expiries, size : Nat]

(* files.File{}: the zero record a lookup starts from. *)
NoMeta == [exp |-> Never, size |-> 0]

(* File.Expired: strictly after, so a file still lives at its expiry. *)
Expired(exp, t) == exp # Never /\ t > exp

(* The expiry an upload at time t is given: a negative TTL asks for none,   *)
(* zero asks for the server's default, and a default of zero is none.       *)
ExpiryFor(ttl, base, t) ==
    IF ttl < 0 THEN Never
    ELSE IF ttl > 0 THEN t + ttl
    ELSE IF base > 0 THEN t + base
    ELSE Never

FloorSec(t) == t - (t % TicksPerSecond)

RoundSec(t) == FloorSec(t + (TicksPerSecond \div 2))

(* An expiry after a round trip through the expires_at column. *)
AsTimestamp(exp) == IF exp = Never THEN Never ELSE RoundSec(exp)

(* Mutant: expires_at <= NOW(), one second early. *)
SqlExpiredAtOnce(exp, t) == exp # Never /\ exp <= FloorSec(t)

(* expires_at IS NOT NULL AND expires_at < NOW() *)
SqlExpired(exp, t) == exp # Never /\ exp < FloorSec(t)
===============================================================================
