--------------------------- MODULE MCObjectStore ---------------------------
EXTENDS ObjectStore, TLC

(* two names of components, which nothing tells apart *)
CONSTANTS u, w
Alike == Permutations({u, w})

(* every kind of Placed; two variables share their values if they name a   *)
(* component alike                                                         *)
Pairs == {[m |-> "quadmesh", v |-> "quadvar"], [m |-> "ucdmesh", v |-> "ucdvar"],
          [m |-> "pointmesh", v |-> "pointvar"], [m |-> "csgmesh", v |-> "csgvar"],
          [m |-> "quadmesh", v |-> "material"], [m |-> "ucdmesh", v |-> "matspecies"],
          [m |-> "zonelist", v |-> "facelist"], [m |-> "csgzonelist", v |-> "phzonelist"],
          [m |-> "multimesh", v |-> "multivar"], [m |-> "multimat", v |-> "multimatspecies"],
          [m |-> "mrgtree", v |-> "mrgvar"], [m |-> "groupelmap", v |-> "defvars"],
          [m |-> "curve", v |-> "array"],
          [m |-> "material", v |-> "material"], [m |-> "ucdvar", v |-> "csgvar"],
          [m |-> "ucdvar", v |-> "ucdvar"]}

(* a full object, one without time and names, one that has no elements; a  *)
(* multi-object may come with a time that no header of it names            *)
Full(kind) == ({"count"} \cup Counted[kind] \cup Described[kind])
                \ IF kind = "curve" THEN {"reference"} ELSE {}
Plain(kind) == Full(kind) \ (Times \cup {"guihide", "allowmat0"} \cup
                 IF kind \in {"material", "matspecies"} THEN NameLists ELSE {})
Empty(kind) == Described[kind] \ UNION {Measured[length] : length \in DOMAIN Measured \ Described[kind]}
Calls(kind) ==
  {Full(kind), Plain(kind)}
    \cup (IF kind \in QuadKinds \cup UcdKinds \cup {"pointmesh", "pointvar", "csgmesh"}
          THEN {Empty(kind)} ELSE {})
    \cup IF kind \in {"multimesh", "multivar", "multimat", "multimatspecies"}
         THEN {Full(kind) \cup Times} ELSE {}
=============================================================================
