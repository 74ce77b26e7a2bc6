------------------------- MODULE MCManifestService -------------------------
(***************************************************************************)
(* Instances of ManifestService for TLC: two tables of the same physical   *)
(* name in different schemas, which only their qualified selectors tell    *)
(* apart, and only an override of a name renders side by side.             *)
(***************************************************************************)
EXTENDS ManifestService, TLC

CONSTANTS t1, t2, vehicle, car

MCNameOf == [t \in {t1, t2} |-> vehicle]

(* No filter, one object by identity, by name, and one object named twice. *)
MCSelections == {{}, {t1}, {vehicle}, {t1, vehicle}}

(* Facts are only compared with each other.                                *)
FactSymmetry == Permutations(Facts)
=============================================================================
