------------------------------ MODULE FileCatalog -----------------------------
(***************************************************************************)
(* What the service promises about one file, in the words of the docs: an  *)
(* upload is given an id and an expiry; the file then appears at most once *)
(* in the catalogue, stays there until a client asks to delete it or it    *)
(* expires, and once gone never comes back ("a file id has no live record" *)
(* because "it never existed, was deleted, or has expired").               *)
(*                                                                         *)
(* How rows, blobs, cache entries and sweeps bring this about, and what    *)
(* fails on the way, is FileService's business.                            *)
(***************************************************************************)
EXTENDS FileRecord

CONSTANT Ids

VARIABLES
    clock,
    promise,    \* promise[id]: the expiry the uploader was given, or None
    life,       \* life[id]: "absent", "live" or "gone"
    wanted      \* the ids a client has asked to delete

catalogVars == <<clock, promise, life, wanted>>

Init ==
    /\ clock = 0
    /\ promise = [id \in Ids |-> None]
    /\ life = [id \in Ids |-> "absent"]
    /\ wanted = {}

(* An upload is accepted: a promised expiry never lies in the past. *)
Promise(id) ==
    /\ promise[id] = None
    /\ \/ promise'[id] = Never
       \/ promise'[id] \in Nat /\ promise'[id] > clock
    /\ promise' = [promise EXCEPT ![id] = promise'[id]]
    /\ UNCHANGED <<clock, life, wanted>>

Appear(id) ==
    /\ promise[id] # None
    /\ life[id] = "absent"
    /\ life' = [life EXCEPT ![id] = "live"]
    /\ UNCHANGED <<clock, promise, wanted>>

Want(id) ==
    /\ life[id] # "absent"
    /\ wanted' = wanted \cup {id}
    /\ UNCHANGED <<clock, promise, life>>

(* Expiry is judged to the second, so it may come up to half of one early. *)
Vanish(id) ==
    /\ life[id] = "live"
    /\ \/ id \in wanted
       \/ Expired(promise[id], clock)
       \/ Expired(AsTimestamp(promise[id]), clock)
    /\ life' = [life EXCEPT ![id] = "gone"]
    /\ UNCHANGED <<clock, promise, wanted>>

Pass ==
    /\ clock' = clock + 1
    /\ UNCHANGED <<promise, life, wanted>>

Next ==
    \/ Pass
    \/ \E id \in Ids : Promise(id) \/ Appear(id) \/ Want(id) \/ Vanish(id)

Spec == Init /\ [][Next]_catalogVars
===============================================================================
