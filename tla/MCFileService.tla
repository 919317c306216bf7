---------------------------- MODULE MCFileService -----------------------------
(* FileService on small sets, with the interchangeable ones symmetric. *)
EXTENDS FileService, TLC

(* Uploads that ask for "never" and uploads that ask for nothing. *)
NeverOrDefault == {Never, 0}

(* Bounds of the run for liveness, in which ids are numbers and symmetry     *)
(* would not be sound.  Ids are alike, so the one minted first may as well   *)
(* be the lowest; and one file that clients read and delete is enough beside *)
(* others that are only there to be swept.                                   *)
MintedInOrder == \A i, j \in Ids : i < j /\ promised[j] # None => promised[i] # None

OnlyOneIsUsed ==
    \A p \in Reqs : op[p] \in {"metadata", "download", "delete"} => file[p] = 1

BoundedFairSpec == Init /\ [][Next /\ (MintedInOrder /\ OnlyOneIsUsed)']_vars /\ Fairness

Symmetry == Permutations(Ids) \cup Permutations(Reqs) \cup Permutations(Sweepers)
===============================================================================
