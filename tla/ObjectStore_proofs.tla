------------------------- MODULE ObjectStore_proofs ------------------------
(* What a first DBPut call leaves to be read by the DBGet call of its kind, *)
(* for every object, every combination of pieces and both drivers, and what *)
(* any sequence of calls leaves, put again, refused or of a mesh and of its *)
(* variable, for every instance of ObjectStore.                             *)
EXTENDS ObjectStore, SequenceTheorems, TLAPS

(* What Accepts says of one piece *)
SuppliedPiece(kind, in, x) ==
  /\ x \in in => x = "count" \/ x \in Counted[kind] \/ x \in Described[kind]
  /\ x \in in /\ x \in Counted[kind] => "count" \in in
  /\ \A length \in DOMAIN Measured :
        length \in Pieces(kind) /\ x \in in /\ x \in Measured[length] => length \in in
  /\ kind = "curve" /\ "reference" \in in => "arrays" \notin in
  /\ kind = "matspecies" /\ "specnames" \in in => "nmatspec" \in in

(* Every piece of an accepted call is supplied in that sense *)
LEMMA AcceptedIsSupplied ==
  ASSUME NEW kind, NEW in, NEW x, Accepts(kind, in)
  PROVE  SuppliedPiece(kind, in, x)
  BY DEF Accepts, Pieces, SuppliedPiece

(* The PDB driver, kind by kind: what is read of what was put *)
LEMMA PdbCurve ==
  ASSUME NEW in, NEW x, SuppliedPiece("curve", in, x)
  PROVE  x \in P!GetCurve(P!PutCurve(in)) <=> x \in PdbReturned("curve", in)
  BY SMTT(20) DEF SuppliedPiece, Counted, Described, P!PutCurve, P!GetCurve,
       PdbReturned, PdbLost, For, P!When, Axes, P!Axes

LEMMA PdbCsgmesh ==
  ASSUME NEW in, NEW x, SuppliedPiece("csgmesh", in, x)
  PROVE  x \in P!GetCsgmesh(P!PutCsgmesh(in)) <=> x \in PdbReturned("csgmesh", in)
  BY SMTT(20) DEF SuppliedPiece, Counted, Described, P!PutCsgmesh, P!GetCsgmesh,
       PdbReturned, PdbLost, For, P!When, Times, Axes, MeshInfo, SubsetInfo,
       P!Times, P!Axes, P!MeshInfo, P!SubsetInfo

LEMMA PdbCsgvar ==
  ASSUME NEW in, NEW x, SuppliedPiece("csgvar", in, x)
  PROVE  x \in P!GetCsgvar(P!PutCsgvar(in)) <=> x \in PdbReturned("csgvar", in)
  BY SMTT(20) DEF SuppliedPiece, Counted, Described, P!PutCsgvar, P!GetCsgvar,
       PdbReturned, PdbLost, For, P!When, Times, Physics, VarInfo, P!Times,
       P!Physics, P!VarInfo

LEMMA PdbCSGZonelist ==
  ASSUME NEW in, NEW x, SuppliedPiece("csgzonelist", in, x)
  PROVE  x \in P!GetCSGZonelist(P!PutCSGZonelist(in)) <=> x \in PdbReturned("csgzonelist", in)
  BY SMTT(20) DEF SuppliedPiece, Counted, Described, Measured, Pieces, P!PutCSGZonelist,
       P!GetCSGZonelist, PdbReturned, PdbLost, For, P!When

LEMMA PdbDefvars ==
  ASSUME NEW in, NEW x, SuppliedPiece("defvars", in, x)
  PROVE  x \in P!GetDefvars(P!PutDefvars(in)) <=> x \in PdbReturned("defvars", in)
  BY SMTT(20) DEF SuppliedPiece, Counted, Described, P!PutDefvars, P!GetDefvars,
       PdbReturned, PdbLost, For, P!When

LEMMA PdbPointmesh ==
  ASSUME NEW in, NEW x, SuppliedPiece("pointmesh", in, x)
  PROVE  x \in P!GetPointmesh(P!PutPointmesh(in)) <=> x \in PdbReturned("pointmesh", in)
  BY SMTT(20) DEF SuppliedPiece, Counted, Described, P!PutPointmesh, P!GetPointmesh,
       PdbReturned, PdbLost, For, P!When, Times, Axes, MeshInfo, P!Times,
       P!Axes, P!MeshInfo

LEMMA PdbPointvar ==
  ASSUME NEW in, NEW x, SuppliedPiece("pointvar", in, x)
  PROVE  x \in P!GetPointvar(P!PutPointvar(in)) <=> x \in PdbReturned("pointvar", in)
  BY SMTT(20) DEF SuppliedPiece, Counted, Described, P!PutPointvar, P!GetPointvar,
       PdbReturned, PdbLost, For, P!When, Times, Physics, VarInfo, P!Times,
       P!Physics, P!VarInfo

LEMMA PdbQuadmesh ==
  ASSUME NEW in, NEW x, SuppliedPiece("quadmesh", in, x)
  PROVE  x \in P!GetQuadmesh(P!PutQuadmesh(in)) <=> x \in PdbReturned("quadmesh", in)
  BY SMTT(20) DEF SuppliedPiece, Counted, Described, P!PutQuadmesh, P!GetQuadmesh,
       PdbReturned, PdbLost, For, P!When, Times, Axes, Ghosts, MeshInfo,
       P!Times, P!Axes, P!Ghosts, P!MeshInfo

LEMMA PdbQuadvar ==
  ASSUME NEW in, NEW x, SuppliedPiece("quadvar", in, x)
  PROVE  x \in P!GetQuadvar(P!PutQuadvar(in)) <=> x \in PdbReturned("quadvar", in)
  BY SMTT(20) DEF SuppliedPiece, Counted, Described, Measured, Pieces, P!PutQuadvar,
       P!GetQuadvar, PdbReturned, PdbLost, For, P!When, When, Times, Physics,
       VarInfo, P!Times, P!Physics, P!VarInfo

LEMMA PdbUcdmesh ==
  ASSUME NEW in, NEW x, SuppliedPiece("ucdmesh", in, x)
  PROVE  x \in P!GetUcdmesh(P!PutUcdmesh(in)) <=> x \in PdbReturned("ucdmesh", in)
  BY SMTT(20) DEF SuppliedPiece, Counted, Described, P!PutUcdmesh, P!GetUcdmesh,
       PdbReturned, PdbLost, For, P!When, Times, Axes, MeshInfo, SubsetInfo,
       P!Times, P!Axes, P!MeshInfo, P!SubsetInfo

LEMMA PdbUcdsubmesh ==
  ASSUME NEW in, NEW x, SuppliedPiece("ucdsubmesh", in, x)
  PROVE  x \in P!GetUcdmesh(P!PutUcdsubmesh(in)) <=> x \in PdbReturned("ucdsubmesh", in)
  BY SMTT(20) DEF SuppliedPiece, Counted, Described, P!PutUcdsubmesh, P!GetUcdmesh,
       PdbReturned, PdbLost, For, P!When, Times, Axes, MeshInfo, SubsetInfo,
       P!Times, P!Axes, P!MeshInfo, P!SubsetInfo

LEMMA PdbUcdvar ==
  ASSUME NEW in, NEW x, SuppliedPiece("ucdvar", in, x)
  PROVE  x \in P!GetUcdvar(P!PutUcdvar(in)) <=> x \in PdbReturned("ucdvar", in)
  BY SMTT(20) DEF SuppliedPiece, Counted, Described, Measured, Pieces, P!PutUcdvar,
       P!GetUcdvar, PdbReturned, PdbLost, For, P!When, Times, Physics, VarInfo,
       P!Times, P!Physics, P!VarInfo

LEMMA PdbFacelist ==
  ASSUME NEW in, NEW x, SuppliedPiece("facelist", in, x)
  PROVE  x \in P!GetFacelist(P!PutFacelist(in)) <=> x \in PdbReturned("facelist", in)
  BY SMTT(20) DEF SuppliedPiece, Counted, Described, P!PutFacelist, P!GetFacelist,
       PdbReturned, PdbLost, For

LEMMA PdbZonelist ==
  ASSUME NEW in, NEW x, SuppliedPiece("zonelist", in, x)
  PROVE  x \in P!GetZonelist(P!PutZonelist2(in)) <=> x \in PdbReturned("zonelist", in)
  BY SMTT(20) DEF SuppliedPiece, Counted, Described, P!PutZonelist2, P!GetZonelist,
       PdbReturned, PdbLost, For, P!When

LEMMA PdbPHZonelist ==
  ASSUME NEW in, NEW x, SuppliedPiece("phzonelist", in, x)
  PROVE  x \in P!GetPHZonelist(P!PutPHZonelist(in)) <=> x \in PdbReturned("phzonelist", in)
  BY SMTT(20) DEF SuppliedPiece, Counted, Described, P!PutPHZonelist,
       P!GetPHZonelist, PdbReturned, PdbLost, For, P!When

LEMMA PdbMaterial ==
  ASSUME NEW in, NEW x, SuppliedPiece("material", in, x)
  PROVE  x \in P!GetMaterial(P!PutMaterial(in)) <=> x \in PdbReturned("material", in)
  BY SMTT(20) DEF SuppliedPiece, Counted, Described, Measured, Pieces, P!PutMaterial,
       P!GetMaterial, PdbReturned, PdbLost, For, P!When

LEMMA PdbMatspecies ==
  ASSUME NEW in, NEW x, SuppliedPiece("matspecies", in, x)
  PROVE  x \in P!GetMatspecies(P!PutMatspecies(in)) <=> x \in PdbReturned("matspecies", in)
  BY SMTT(20) DEF SuppliedPiece, Counted, Described, Measured, Pieces, P!PutMatspecies,
       P!GetMatspecies, PdbReturned, PdbLost, For, P!When

LEMMA PdbCompoundarray ==
  ASSUME NEW in, NEW x, SuppliedPiece("array", in, x)
  PROVE  x \in P!GetCompoundarray(P!PutCompoundarray(in)) <=> x \in PdbReturned("array", in)
  BY SMTT(20) DEF SuppliedPiece, Counted, Described, P!PutCompoundarray,
       P!GetCompoundarray, PdbReturned, PdbLost, For

LEMMA PdbMultimesh ==
  ASSUME NEW in, NEW x, SuppliedPiece("multimesh", in, x)
  PROVE  x \in P!GetMultimesh(P!PutMultimesh(in)) <=> x \in PdbReturned("multimesh", in)
  BY SMTT(20) DEF SuppliedPiece, Counted, Described, Measured, Pieces, P!PutMultimesh,
       P!GetMultimesh, PdbReturned, PdbLost, For, P!When, SubsetInfo, Blocks,
       P!SubsetInfo, P!Blocks

LEMMA PdbMultimeshadj ==
  ASSUME NEW in, NEW x, SuppliedPiece("multimeshadj", in, x)
  PROVE  x \in P!GetMultimeshadj(P!PutMultimeshadj(in)) <=> x \in PdbReturned("multimeshadj", in)
  BY SMTT(20) DEF SuppliedPiece, Counted, Described, Measured, Pieces, P!PutMultimeshadj,
       P!GetMultimeshadj, PdbReturned, PdbLost, For, P!When

LEMMA PdbMultivar ==
  ASSUME NEW in, NEW x, SuppliedPiece("multivar", in, x)
  PROVE  x \in P!GetMultivar(P!PutMultivar(in)) <=> x \in PdbReturned("multivar", in)
  BY SMTT(20) DEF SuppliedPiece, Counted, Described, P!PutMultivar, P!GetMultivar,
       PdbReturned, PdbLost, For, Physics, Blocks, P!Physics, P!Blocks

LEMMA PdbMultimat ==
  ASSUME NEW in, NEW x, SuppliedPiece("multimat", in, x)
  PROVE  x \in P!GetMultimat(P!PutMultimat(in)) <=> x \in PdbReturned("multimat", in)
  BY SMTT(20) DEF SuppliedPiece, Counted, Described, Measured, Pieces, P!PutMultimat,
       P!GetMultimat, PdbReturned, PdbLost, For, P!When, Blocks, P!Blocks

LEMMA PdbMultimatspecies ==
  ASSUME NEW in, NEW x, SuppliedPiece("multimatspecies", in, x)
  PROVE  x \in P!GetMultimatspecies(P!PutMultimatspecies(in)) <=> x \in PdbReturned("multimatspecies", in)
  BY SMTT(20) DEF SuppliedPiece, Counted, Described, Measured, Pieces, P!PutMultimatspecies,
       P!GetMultimatspecies, PdbReturned, PdbLost, For, P!When, Blocks,
       P!Blocks

LEMMA PdbMrgtree ==
  ASSUME NEW in, NEW x, SuppliedPiece("mrgtree", in, x)
  PROVE  x \in P!GetMrgtree(P!PutMrgtree(in)) <=> x \in PdbReturned("mrgtree", in)
  BY SMTT(20) DEF SuppliedPiece, Counted, Described, Measured, Pieces, P!PutMrgtree,
       P!GetMrgtree, PdbReturned, PdbLost, For, P!When

LEMMA PdbGroupelmap ==
  ASSUME NEW in, NEW x, SuppliedPiece("groupelmap", in, x)
  PROVE  x \in P!GetGroupelmap(P!PutGroupelmap(in)) <=> x \in PdbReturned("groupelmap", in)
  BY SMTT(20) DEF SuppliedPiece, Counted, Described, Measured, Pieces, P!PutGroupelmap,
       P!GetGroupelmap, PdbReturned, PdbLost, For, P!When

LEMMA PdbMrgvar ==
  ASSUME NEW in, NEW x, SuppliedPiece("mrgvar", in, x)
  PROVE  x \in P!GetMrgvar(P!PutMrgvar(in)) <=> x \in PdbReturned("mrgvar", in)
  BY SMTT(20) DEF SuppliedPiece, Counted, Described, P!PutMrgvar, P!GetMrgvar,
       PdbReturned, PdbLost, For

(* For every kind, and whatever pieces the caller supplies, the object that *)
(* db_pdb_Put... wrote is read back by db_pdb_Get... with exactly the      *)
(* pieces that PdbReturned says: nothing is lost that PdbLost does not name, *)
(* and nothing is returned that was not put.                                *)
THEOREM PdbRoundTrip ==
  ASSUME NEW kind \in Kinds, NEW in, Accepts(kind, in)
  PROVE  P!GetObject(kind, P!PutObject(kind, in)) = PdbReturned(kind, in)
<1> SUFFICES ASSUME NEW x
             PROVE  x \in P!GetObject(kind, P!PutObject(kind, in))
                      <=> x \in PdbReturned(kind, in)
  OBVIOUS
<1>0. \A y : SuppliedPiece(kind, in, y)
  BY AcceptedIsSupplied
<1>1. CASE kind = "curve"
  <2>1. P!GetObject(kind, P!PutObject(kind, in)) = P!GetCurve(P!PutCurve(in))
    BY <1>1, ZenonT(60) DEF P!GetObject, P!PutObject
  <2> QED  BY <1>0, <1>1, <2>1, PdbCurve
<1>2. CASE kind = "csgmesh"
  <2>1. P!GetObject(kind, P!PutObject(kind, in)) = P!GetCsgmesh(P!PutCsgmesh(in))
    BY <1>2, ZenonT(60) DEF P!GetObject, P!PutObject
  <2> QED  BY <1>0, <1>2, <2>1, PdbCsgmesh
<1>3. CASE kind = "csgvar"
  <2>1. P!GetObject(kind, P!PutObject(kind, in)) = P!GetCsgvar(P!PutCsgvar(in))
    BY <1>3, ZenonT(60) DEF P!GetObject, P!PutObject
  <2> QED  BY <1>0, <1>3, <2>1, PdbCsgvar
<1>4. CASE kind = "csgzonelist"
  <2>1. P!GetObject(kind, P!PutObject(kind, in)) = P!GetCSGZonelist(P!PutCSGZonelist(in))
    BY <1>4, ZenonT(60) DEF P!GetObject, P!PutObject
  <2> QED  BY <1>0, <1>4, <2>1, PdbCSGZonelist
<1>5. CASE kind = "defvars"
  <2>1. P!GetObject(kind, P!PutObject(kind, in)) = P!GetDefvars(P!PutDefvars(in))
    BY <1>5, ZenonT(60) DEF P!GetObject, P!PutObject
  <2> QED  BY <1>0, <1>5, <2>1, PdbDefvars
<1>6. CASE kind = "pointmesh"
  <2>1. P!GetObject(kind, P!PutObject(kind, in)) = P!GetPointmesh(P!PutPointmesh(in))
    BY <1>6, ZenonT(60) DEF P!GetObject, P!PutObject
  <2> QED  BY <1>0, <1>6, <2>1, PdbPointmesh
<1>7. CASE kind = "pointvar"
  <2>1. P!GetObject(kind, P!PutObject(kind, in)) = P!GetPointvar(P!PutPointvar(in))
    BY <1>7, ZenonT(60) DEF P!GetObject, P!PutObject
  <2> QED  BY <1>0, <1>7, <2>1, PdbPointvar
<1>8. CASE kind = "quadmesh"
  <2>1. P!GetObject(kind, P!PutObject(kind, in)) = P!GetQuadmesh(P!PutQuadmesh(in))
    BY <1>8, ZenonT(60) DEF P!GetObject, P!PutObject
  <2> QED  BY <1>0, <1>8, <2>1, PdbQuadmesh
<1>9. CASE kind = "quadvar"
  <2>1. P!GetObject(kind, P!PutObject(kind, in)) = P!GetQuadvar(P!PutQuadvar(in))
    BY <1>9, ZenonT(60) DEF P!GetObject, P!PutObject
  <2> QED  BY <1>0, <1>9, <2>1, PdbQuadvar
<1>10. CASE kind = "ucdmesh"
  <2>1. P!GetObject(kind, P!PutObject(kind, in)) = P!GetUcdmesh(P!PutUcdmesh(in))
    BY <1>10, ZenonT(60) DEF P!GetObject, P!PutObject
  <2> QED  BY <1>0, <1>10, <2>1, PdbUcdmesh
<1>11. CASE kind = "ucdsubmesh"
  <2>1. P!GetObject(kind, P!PutObject(kind, in)) = P!GetUcdmesh(P!PutUcdsubmesh(in))
    BY <1>11, ZenonT(60) DEF P!GetObject, P!PutObject
  <2> QED  BY <1>0, <1>11, <2>1, PdbUcdsubmesh
<1>12. CASE kind = "ucdvar"
  <2>1. P!GetObject(kind, P!PutObject(kind, in)) = P!GetUcdvar(P!PutUcdvar(in))
    BY <1>12, ZenonT(60) DEF P!GetObject, P!PutObject
  <2> QED  BY <1>0, <1>12, <2>1, PdbUcdvar
<1>13. CASE kind = "facelist"
  <2>1. P!GetObject(kind, P!PutObject(kind, in)) = P!GetFacelist(P!PutFacelist(in))
    BY <1>13, ZenonT(60) DEF P!GetObject, P!PutObject
  <2> QED  BY <1>0, <1>13, <2>1, PdbFacelist
<1>14. CASE kind = "zonelist"
  <2>1. P!GetObject(kind, P!PutObject(kind, in)) = P!GetZonelist(P!PutZonelist2(in))
    BY <1>14, ZenonT(60) DEF P!GetObject, P!PutObject
  <2> QED  BY <1>0, <1>14, <2>1, PdbZonelist
<1>15. CASE kind = "phzonelist"
  <2>1. P!GetObject(kind, P!PutObject(kind, in)) = P!GetPHZonelist(P!PutPHZonelist(in))
    BY <1>15, ZenonT(60) DEF P!GetObject, P!PutObject
  <2> QED  BY <1>0, <1>15, <2>1, PdbPHZonelist
<1>16. CASE kind = "material"
  <2>1. P!GetObject(kind, P!PutObject(kind, in)) = P!GetMaterial(P!PutMaterial(in))
    BY <1>16, ZenonT(60) DEF P!GetObject, P!PutObject
  <2> QED  BY <1>0, <1>16, <2>1, PdbMaterial
<1>17. CASE kind = "matspecies"
  <2>1. P!GetObject(kind, P!PutObject(kind, in)) = P!GetMatspecies(P!PutMatspecies(in))
    BY <1>17, ZenonT(60) DEF P!GetObject, P!PutObject
  <2> QED  BY <1>0, <1>17, <2>1, PdbMatspecies
<1>18. CASE kind = "array"
  <2>1. P!GetObject(kind, P!PutObject(kind, in)) = P!GetCompoundarray(P!PutCompoundarray(in))
    BY <1>18, ZenonT(60) DEF P!GetObject, P!PutObject
  <2> QED  BY <1>0, <1>18, <2>1, PdbCompoundarray
<1>19. CASE kind = "multimesh"
  <2>1. P!GetObject(kind, P!PutObject(kind, in)) = P!GetMultimesh(P!PutMultimesh(in))
    BY <1>19, ZenonT(60) DEF P!GetObject, P!PutObject
  <2> QED  BY <1>0, <1>19, <2>1, PdbMultimesh
<1>20. CASE kind = "multimeshadj"
  <2>1. P!GetObject(kind, P!PutObject(kind, in)) = P!GetMultimeshadj(P!PutMultimeshadj(in))
    BY <1>20, ZenonT(60) DEF P!GetObject, P!PutObject
  <2> QED  BY <1>0, <1>20, <2>1, PdbMultimeshadj
<1>21. CASE kind = "multivar"
  <2>1. P!GetObject(kind, P!PutObject(kind, in)) = P!GetMultivar(P!PutMultivar(in))
    BY <1>21, ZenonT(60) DEF P!GetObject, P!PutObject
  <2> QED  BY <1>0, <1>21, <2>1, PdbMultivar
<1>22. CASE kind = "multimat"
  <2>1. P!GetObject(kind, P!PutObject(kind, in)) = P!GetMultimat(P!PutMultimat(in))
    BY <1>22, ZenonT(60) DEF P!GetObject, P!PutObject
  <2> QED  BY <1>0, <1>22, <2>1, PdbMultimat
<1>23. CASE kind = "multimatspecies"
  <2>1. P!GetObject(kind, P!PutObject(kind, in)) = P!GetMultimatspecies(P!PutMultimatspecies(in))
    BY <1>23, ZenonT(60) DEF P!GetObject, P!PutObject
  <2> QED  BY <1>0, <1>23, <2>1, PdbMultimatspecies
<1>24. CASE kind = "mrgtree"
  <2>1. P!GetObject(kind, P!PutObject(kind, in)) = P!GetMrgtree(P!PutMrgtree(in))
    BY <1>24, ZenonT(60) DEF P!GetObject, P!PutObject
  <2> QED  BY <1>0, <1>24, <2>1, PdbMrgtree
<1>25. CASE kind = "groupelmap"
  <2>1. P!GetObject(kind, P!PutObject(kind, in)) = P!GetGroupelmap(P!PutGroupelmap(in))
    BY <1>25, ZenonT(60) DEF P!GetObject, P!PutObject
  <2> QED  BY <1>0, <1>25, <2>1, PdbGroupelmap
<1>26. CASE kind = "mrgvar"
  <2>1. P!GetObject(kind, P!PutObject(kind, in)) = P!GetMrgvar(P!PutMrgvar(in))
    BY <1>26, ZenonT(60) DEF P!GetObject, P!PutObject
  <2> QED  BY <1>0, <1>26, <2>1, PdbMrgvar
<1> QED  BY <1>1, <1>2, <1>3, <1>4, <1>5, <1>6, <1>7, <1>8, <1>9, <1>10, <1>11,
     <1>12, <1>13, <1>14, <1>15, <1>16, <1>17, <1>18, <1>19, <1>20, <1>21,
     <1>22, <1>23, <1>24, <1>25, <1>26 DEF Kinds

(* The HDF5 driver, kind by kind: what is read of what was put *)
LEMMA Hdf5Curve ==
  ASSUME NEW in, NEW x, SuppliedPiece("curve", in, x)
  PROVE  x \in H!GetCurve(H!PutCurve(in)) <=> x \in Hdf5Returned("curve", in)
  BY SMTT(20) DEF SuppliedPiece, Counted, Described, H!PutCurve, H!GetCurve,
       Hdf5Returned, Hdf5Lost, For, H!When, Axes, H!Axes

LEMMA Hdf5Csgmesh ==
  ASSUME NEW in, NEW x, SuppliedPiece("csgmesh", in, x)
  PROVE  x \in H!GetCsgmesh(H!PutCsgmesh(in)) <=> x \in Hdf5Returned("csgmesh", in)
  BY SMTT(20) DEF SuppliedPiece, Counted, Described, H!PutCsgmesh, H!GetCsgmesh,
       Hdf5Returned, Hdf5Lost, For, H!When, Times, Axes, MeshInfo, SubsetInfo,
       H!Times, H!Axes, H!MeshInfo, H!SubsetInfo

LEMMA Hdf5Csgvar ==
  ASSUME NEW in, NEW x, SuppliedPiece("csgvar", in, x)
  PROVE  x \in H!GetCsgvar(H!PutCsgvar(in)) <=> x \in Hdf5Returned("csgvar", in)
  BY SMTT(20) DEF SuppliedPiece, Counted, Described, H!PutCsgvar, H!GetCsgvar,
       Hdf5Returned, Hdf5Lost, For, H!When, Times, Physics, VarInfo, H!Times,
       H!Physics, H!VarInfo

LEMMA Hdf5CSGZonelist ==
  ASSUME NEW in, NEW x, SuppliedPiece("csgzonelist", in, x)
  PROVE  x \in H!GetCSGZonelist(H!PutCSGZonelist(in)) <=> x \in Hdf5Returned("csgzonelist", in)
  BY SMTT(20) DEF SuppliedPiece, Counted, Described, Measured, Pieces, H!PutCSGZonelist,
       H!GetCSGZonelist, Hdf5Returned, Hdf5Lost, For, H!When

LEMMA Hdf5Defvars ==
  ASSUME NEW in, NEW x, SuppliedPiece("defvars", in, x)
  PROVE  x \in H!GetDefvars(H!PutDefvars(in)) <=> x \in Hdf5Returned("defvars", in)
  BY SMTT(20) DEF SuppliedPiece, Counted, Described, H!PutDefvars, H!GetDefvars,
       Hdf5Returned, Hdf5Lost, For

LEMMA Hdf5Pointmesh ==
  ASSUME NEW in, NEW x, SuppliedPiece("pointmesh", in, x)
  PROVE  x \in H!GetPointmesh(H!PutPointmesh(in)) <=> x \in Hdf5Returned("pointmesh", in)
  BY SMTT(20) DEF SuppliedPiece, Counted, Described, H!PutPointmesh, H!GetPointmesh,
       Hdf5Returned, Hdf5Lost, For, H!When, Times, Axes, MeshInfo, H!Times,
       H!Axes, H!MeshInfo

LEMMA Hdf5Pointvar ==
  ASSUME NEW in, NEW x, SuppliedPiece("pointvar", in, x)
  PROVE  x \in H!GetPointvar(H!PutPointvar(in)) <=> x \in Hdf5Returned("pointvar", in)
  BY SMTT(20) DEF SuppliedPiece, Counted, Described, H!PutPointvar, H!GetPointvar,
       Hdf5Returned, Hdf5Lost, For, H!When, Times, Physics, VarInfo, H!Times,
       H!Physics, H!VarInfo

LEMMA Hdf5Quadmesh ==
  ASSUME NEW in, NEW x, SuppliedPiece("quadmesh", in, x)
  PROVE  x \in H!GetQuadmesh(H!PutQuadmesh(in)) <=> x \in Hdf5Returned("quadmesh", in)
  BY SMTT(20) DEF SuppliedPiece, Counted, Described, H!PutQuadmesh, H!GetQuadmesh,
       Hdf5Returned, Hdf5Lost, For, H!When, Times, Axes, Ghosts, MeshInfo,
       H!Times, H!Axes, H!Ghosts, H!MeshInfo

LEMMA Hdf5Quadvar ==
  ASSUME NEW in, NEW x, SuppliedPiece("quadvar", in, x)
  PROVE  x \in H!GetQuadvar(H!PutQuadvar(in)) <=> x \in Hdf5Returned("quadvar", in)
  BY SMTT(20) DEF SuppliedPiece, Counted, Described, Measured, Pieces, H!PutQuadvar,
       H!GetQuadvar, Hdf5Returned, Hdf5Lost, For, H!When, Times, Physics,
       VarInfo, H!Times, H!Physics, H!VarInfo

LEMMA Hdf5Ucdmesh ==
  ASSUME NEW in, NEW x, SuppliedPiece("ucdmesh", in, x)
  PROVE  x \in H!GetUcdmesh(H!PutUcdmesh(in)) <=> x \in Hdf5Returned("ucdmesh", in)
  BY SMTT(20) DEF SuppliedPiece, Counted, Described, H!PutUcdmesh, H!GetUcdmesh,
       Hdf5Returned, Hdf5Lost, For, H!When, Times, Axes, MeshInfo, SubsetInfo,
       H!Times, H!Axes, H!MeshInfo, H!SubsetInfo

LEMMA Hdf5Ucdsubmesh ==
  ASSUME NEW in, NEW x, SuppliedPiece("ucdsubmesh", in, x)
  PROVE  x \in H!GetUcdmesh(H!PutUcdsubmesh(in)) <=> x \in Hdf5Returned("ucdsubmesh", in)
  BY SMTT(20) DEF SuppliedPiece, Counted, Described, H!PutUcdsubmesh, H!GetUcdmesh,
       Hdf5Returned, Hdf5Lost, For, H!When, Times, Axes, MeshInfo, SubsetInfo,
       H!Times, H!Axes, H!MeshInfo, H!SubsetInfo

LEMMA Hdf5Ucdvar ==
  ASSUME NEW in, NEW x, SuppliedPiece("ucdvar", in, x)
  PROVE  x \in H!GetUcdvar(H!PutUcdvar(in)) <=> x \in Hdf5Returned("ucdvar", in)
  BY SMTT(20) DEF SuppliedPiece, Counted, Described, Measured, Pieces, H!PutUcdvar,
       H!GetUcdvar, Hdf5Returned, Hdf5Lost, For, H!When, Times, Physics,
       VarInfo, H!Times, H!Physics, H!VarInfo

LEMMA Hdf5Facelist ==
  ASSUME NEW in, NEW x, SuppliedPiece("facelist", in, x)
  PROVE  x \in H!GetFacelist(H!PutFacelist(in)) <=> x \in Hdf5Returned("facelist", in)
  BY SMTT(20) DEF SuppliedPiece, Counted, Described, H!PutFacelist, H!GetFacelist,
       Hdf5Returned, Hdf5Lost, For

LEMMA Hdf5Zonelist ==
  ASSUME NEW in, NEW x, SuppliedPiece("zonelist", in, x)
  PROVE  x \in H!GetZonelist(H!PutZonelist2(in)) <=> x \in Hdf5Returned("zonelist", in)
  BY SMTT(20) DEF SuppliedPiece, Counted, Described, H!PutZonelist2, H!GetZonelist,
       Hdf5Returned, Hdf5Lost, For

LEMMA Hdf5PHZonelist ==
  ASSUME NEW in, NEW x, SuppliedPiece("phzonelist", in, x)
  PROVE  x \in H!GetPHZonelist(H!PutPHZonelist(in)) <=> x \in Hdf5Returned("phzonelist", in)
  BY SMTT(20) DEF SuppliedPiece, Counted, Described, H!PutPHZonelist,
       H!GetPHZonelist, Hdf5Returned, Hdf5Lost, For

LEMMA Hdf5Material ==
  ASSUME NEW in, NEW x, SuppliedPiece("material", in, x)
  PROVE  x \in H!GetMaterial(H!PutMaterial(in)) <=> x \in Hdf5Returned("material", in)
  BY SMTT(20) DEF SuppliedPiece, Counted, Described, Measured, Pieces, H!PutMaterial,
       H!GetMaterial, Hdf5Returned, Hdf5Lost, For, H!When

LEMMA Hdf5Matspecies ==
  ASSUME NEW in, NEW x, SuppliedPiece("matspecies", in, x)
  PROVE  x \in H!GetMatspecies(H!PutMatspecies(in)) <=> x \in Hdf5Returned("matspecies", in)
  BY SMTT(20) DEF SuppliedPiece, Counted, Described, Measured, Pieces, H!PutMatspecies,
       H!GetMatspecies, Hdf5Returned, Hdf5Lost, For, H!When

LEMMA Hdf5Compoundarray ==
  ASSUME NEW in, NEW x, SuppliedPiece("array", in, x)
  PROVE  x \in H!GetCompoundarray(H!PutCompoundarray(in)) <=> x \in Hdf5Returned("array", in)
  BY SMTT(20) DEF SuppliedPiece, Counted, Described, H!PutCompoundarray,
       H!GetCompoundarray, Hdf5Returned, Hdf5Lost, For

LEMMA Hdf5Multimesh ==
  ASSUME NEW in, NEW x, SuppliedPiece("multimesh", in, x)
  PROVE  x \in H!GetMultimesh(H!PutMultimesh(in)) <=> x \in Hdf5Returned("multimesh", in)
  BY SMTT(20) DEF SuppliedPiece, Counted, Described, Measured, Pieces, H!PutMultimesh,
       H!GetMultimesh, Hdf5Returned, Hdf5Lost, For, H!When, SubsetInfo, Blocks,
       H!SubsetInfo, H!Blocks

LEMMA Hdf5Multimeshadj ==
  ASSUME NEW in, NEW x, SuppliedPiece("multimeshadj", in, x),
         SuppliedPiece("multimeshadj", in, "lnodelists"), SuppliedPiece("multimeshadj", in, "lzonelists")
  PROVE  x \in H!GetMultimeshadj(H!PutMultimeshadj(in)) <=> x \in Hdf5Returned("multimeshadj", in)
  BY SMTT(20) DEF SuppliedPiece, Counted, Described, Measured, Pieces, H!PutMultimeshadj,
       H!GetMultimeshadj, Hdf5Returned, Hdf5Lost, For, H!When

LEMMA Hdf5Multivar ==
  ASSUME NEW in, NEW x, SuppliedPiece("multivar", in, x)
  PROVE  x \in H!GetMultivar(H!PutMultivar(in)) <=> x \in Hdf5Returned("multivar", in)
  BY SMTT(20) DEF SuppliedPiece, Counted, Described, H!PutMultivar, H!GetMultivar,
       Hdf5Returned, Hdf5Lost, For, Physics, Blocks, H!Physics, H!Blocks

LEMMA Hdf5Multimat ==
  ASSUME NEW in, NEW x, SuppliedPiece("multimat", in, x)
  PROVE  x \in H!GetMultimat(H!PutMultimat(in)) <=> x \in Hdf5Returned("multimat", in)
  BY SMTT(20) DEF SuppliedPiece, Counted, Described, Measured, Pieces, H!PutMultimat,
       H!GetMultimat, Hdf5Returned, Hdf5Lost, For, H!When, Blocks, H!Blocks

LEMMA Hdf5Multimatspecies ==
  ASSUME NEW in, NEW x, SuppliedPiece("multimatspecies", in, x)
  PROVE  x \in H!GetMultimatspecies(H!PutMultimatspecies(in)) <=> x \in Hdf5Returned("multimatspecies", in)
  BY SMTT(20) DEF SuppliedPiece, Counted, Described, Measured, Pieces, H!PutMultimatspecies,
       H!GetMultimatspecies, Hdf5Returned, Hdf5Lost, For, H!When, Blocks,
       H!Blocks

LEMMA Hdf5Mrgtree ==
  ASSUME NEW in, NEW x, SuppliedPiece("mrgtree", in, x)
  PROVE  x \in H!GetMrgtree(H!PutMrgtree(in)) <=> x \in Hdf5Returned("mrgtree", in)
  BY SMTT(20) DEF SuppliedPiece, Counted, Described, Measured, Pieces, H!PutMrgtree,
       H!GetMrgtree, Hdf5Returned, Hdf5Lost, For, H!When

LEMMA Hdf5Groupelmap ==
  ASSUME NEW in, NEW x, SuppliedPiece("groupelmap", in, x)
  PROVE  x \in H!GetGroupelmap(H!PutGroupelmap(in)) <=> x \in Hdf5Returned("groupelmap", in)
  BY SMTT(20) DEF SuppliedPiece, Counted, Described, Measured, Pieces, H!PutGroupelmap,
       H!GetGroupelmap, Hdf5Returned, Hdf5Lost, For, H!When

LEMMA Hdf5Mrgvar ==
  ASSUME NEW in, NEW x, SuppliedPiece("mrgvar", in, x)
  PROVE  x \in H!GetMrgvar(H!PutMrgvar(in)) <=> x \in Hdf5Returned("mrgvar", in)
  BY SMTT(20) DEF SuppliedPiece, Counted, Described, H!PutMrgvar, H!GetMrgvar,
       Hdf5Returned, Hdf5Lost, For

(* For every kind, and whatever pieces the caller supplies, the object that *)
(* db_hdf5_Put... wrote is read back by db_hdf5_Get... with exactly the      *)
(* pieces that Hdf5Returned says: nothing is lost that Hdf5Lost does not name, *)
(* and nothing is returned that was not put.                                *)
THEOREM Hdf5RoundTrip ==
  ASSUME NEW kind \in Kinds, NEW in, Accepts(kind, in)
  PROVE  H!GetObject(kind, H!PutObject(kind, in)) = Hdf5Returned(kind, in)
<1> SUFFICES ASSUME NEW x
             PROVE  x \in H!GetObject(kind, H!PutObject(kind, in))
                      <=> x \in Hdf5Returned(kind, in)
  OBVIOUS
<1>0. \A y : SuppliedPiece(kind, in, y)
  BY AcceptedIsSupplied
<1>1. CASE kind = "curve"
  <2>1. H!GetObject(kind, H!PutObject(kind, in)) = H!GetCurve(H!PutCurve(in))
    BY <1>1, ZenonT(60) DEF H!GetObject, H!PutObject
  <2> QED  BY <1>0, <1>1, <2>1, Hdf5Curve
<1>2. CASE kind = "csgmesh"
  <2>1. H!GetObject(kind, H!PutObject(kind, in)) = H!GetCsgmesh(H!PutCsgmesh(in))
    BY <1>2, ZenonT(60) DEF H!GetObject, H!PutObject
  <2> QED  BY <1>0, <1>2, <2>1, Hdf5Csgmesh
<1>3. CASE kind = "csgvar"
  <2>1. H!GetObject(kind, H!PutObject(kind, in)) = H!GetCsgvar(H!PutCsgvar(in))
    BY <1>3, ZenonT(60) DEF H!GetObject, H!PutObject
  <2> QED  BY <1>0, <1>3, <2>1, Hdf5Csgvar
<1>4. CASE kind = "csgzonelist"
  <2>1. H!GetObject(kind, H!PutObject(kind, in)) = H!GetCSGZonelist(H!PutCSGZonelist(in))
    BY <1>4, ZenonT(60) DEF H!GetObject, H!PutObject
  <2> QED  BY <1>0, <1>4, <2>1, Hdf5CSGZonelist
<1>5. CASE kind = "defvars"
  <2>1. H!GetObject(kind, H!PutObject(kind, in)) = H!GetDefvars(H!PutDefvars(in))
    BY <1>5, ZenonT(60) DEF H!GetObject, H!PutObject
  <2> QED  BY <1>0, <1>5, <2>1, Hdf5Defvars
<1>6. CASE kind = "pointmesh"
  <2>1. H!GetObject(kind, H!PutObject(kind, in)) = H!GetPointmesh(H!PutPointmesh(in))
    BY <1>6, ZenonT(60) DEF H!GetObject, H!PutObject
  <2> QED  BY <1>0, <1>6, <2>1, Hdf5Pointmesh
<1>7. CASE kind = "pointvar"
  <2>1. H!GetObject(kind, H!PutObject(kind, in)) = H!GetPointvar(H!PutPointvar(in))
    BY <1>7, ZenonT(60) DEF H!GetObject, H!PutObject
  <2> QED  BY <1>0, <1>7, <2>1, Hdf5Pointvar
<1>8. CASE kind = "quadmesh"
  <2>1. H!GetObject(kind, H!PutObject(kind, in)) = H!GetQuadmesh(H!PutQuadmesh(in))
    BY <1>8, ZenonT(60) DEF H!GetObject, H!PutObject
  <2> QED  BY <1>0, <1>8, <2>1, Hdf5Quadmesh
<1>9. CASE kind = "quadvar"
  <2>1. H!GetObject(kind, H!PutObject(kind, in)) = H!GetQuadvar(H!PutQuadvar(in))
    BY <1>9, ZenonT(60) DEF H!GetObject, H!PutObject
  <2> QED  BY <1>0, <1>9, <2>1, Hdf5Quadvar
<1>10. CASE kind = "ucdmesh"
  <2>1. H!GetObject(kind, H!PutObject(kind, in)) = H!GetUcdmesh(H!PutUcdmesh(in))
    BY <1>10, ZenonT(60) DEF H!GetObject, H!PutObject
  <2> QED  BY <1>0, <1>10, <2>1, Hdf5Ucdmesh
<1>11. CASE kind = "ucdsubmesh"
  <2>1. H!GetObject(kind, H!PutObject(kind, in)) = H!GetUcdmesh(H!PutUcdsubmesh(in))
    BY <1>11, ZenonT(60) DEF H!GetObject, H!PutObject
  <2> QED  BY <1>0, <1>11, <2>1, Hdf5Ucdsubmesh
<1>12. CASE kind = "ucdvar"
  <2>1. H!GetObject(kind, H!PutObject(kind, in)) = H!GetUcdvar(H!PutUcdvar(in))
    BY <1>12, ZenonT(60) DEF H!GetObject, H!PutObject
  <2> QED  BY <1>0, <1>12, <2>1, Hdf5Ucdvar
<1>13. CASE kind = "facelist"
  <2>1. H!GetObject(kind, H!PutObject(kind, in)) = H!GetFacelist(H!PutFacelist(in))
    BY <1>13, ZenonT(60) DEF H!GetObject, H!PutObject
  <2> QED  BY <1>0, <1>13, <2>1, Hdf5Facelist
<1>14. CASE kind = "zonelist"
  <2>1. H!GetObject(kind, H!PutObject(kind, in)) = H!GetZonelist(H!PutZonelist2(in))
    BY <1>14, ZenonT(60) DEF H!GetObject, H!PutObject
  <2> QED  BY <1>0, <1>14, <2>1, Hdf5Zonelist
<1>15. CASE kind = "phzonelist"
  <2>1. H!GetObject(kind, H!PutObject(kind, in)) = H!GetPHZonelist(H!PutPHZonelist(in))
    BY <1>15, ZenonT(60) DEF H!GetObject, H!PutObject
  <2> QED  BY <1>0, <1>15, <2>1, Hdf5PHZonelist
<1>16. CASE kind = "material"
  <2>1. H!GetObject(kind, H!PutObject(kind, in)) = H!GetMaterial(H!PutMaterial(in))
    BY <1>16, ZenonT(60) DEF H!GetObject, H!PutObject
  <2> QED  BY <1>0, <1>16, <2>1, Hdf5Material
<1>17. CASE kind = "matspecies"
  <2>1. H!GetObject(kind, H!PutObject(kind, in)) = H!GetMatspecies(H!PutMatspecies(in))
    BY <1>17, ZenonT(60) DEF H!GetObject, H!PutObject
  <2> QED  BY <1>0, <1>17, <2>1, Hdf5Matspecies
<1>18. CASE kind = "array"
  <2>1. H!GetObject(kind, H!PutObject(kind, in)) = H!GetCompoundarray(H!PutCompoundarray(in))
    BY <1>18, ZenonT(60) DEF H!GetObject, H!PutObject
  <2> QED  BY <1>0, <1>18, <2>1, Hdf5Compoundarray
<1>19. CASE kind = "multimesh"
  <2>1. H!GetObject(kind, H!PutObject(kind, in)) = H!GetMultimesh(H!PutMultimesh(in))
    BY <1>19, ZenonT(60) DEF H!GetObject, H!PutObject
  <2> QED  BY <1>0, <1>19, <2>1, Hdf5Multimesh
<1>20. CASE kind = "multimeshadj"
  <2>1. H!GetObject(kind, H!PutObject(kind, in)) = H!GetMultimeshadj(H!PutMultimeshadj(in))
    BY <1>20, ZenonT(60) DEF H!GetObject, H!PutObject
  <2> QED  BY <1>0, <1>20, <2>1, Hdf5Multimeshadj
<1>21. CASE kind = "multivar"
  <2>1. H!GetObject(kind, H!PutObject(kind, in)) = H!GetMultivar(H!PutMultivar(in))
    BY <1>21, ZenonT(60) DEF H!GetObject, H!PutObject
  <2> QED  BY <1>0, <1>21, <2>1, Hdf5Multivar
<1>22. CASE kind = "multimat"
  <2>1. H!GetObject(kind, H!PutObject(kind, in)) = H!GetMultimat(H!PutMultimat(in))
    BY <1>22, ZenonT(60) DEF H!GetObject, H!PutObject
  <2> QED  BY <1>0, <1>22, <2>1, Hdf5Multimat
<1>23. CASE kind = "multimatspecies"
  <2>1. H!GetObject(kind, H!PutObject(kind, in)) = H!GetMultimatspecies(H!PutMultimatspecies(in))
    BY <1>23, ZenonT(60) DEF H!GetObject, H!PutObject
  <2> QED  BY <1>0, <1>23, <2>1, Hdf5Multimatspecies
<1>24. CASE kind = "mrgtree"
  <2>1. H!GetObject(kind, H!PutObject(kind, in)) = H!GetMrgtree(H!PutMrgtree(in))
    BY <1>24, ZenonT(60) DEF H!GetObject, H!PutObject
  <2> QED  BY <1>0, <1>24, <2>1, Hdf5Mrgtree
<1>25. CASE kind = "groupelmap"
  <2>1. H!GetObject(kind, H!PutObject(kind, in)) = H!GetGroupelmap(H!PutGroupelmap(in))
    BY <1>25, ZenonT(60) DEF H!GetObject, H!PutObject
  <2> QED  BY <1>0, <1>25, <2>1, Hdf5Groupelmap
<1>26. CASE kind = "mrgvar"
  <2>1. H!GetObject(kind, H!PutObject(kind, in)) = H!GetMrgvar(H!PutMrgvar(in))
    BY <1>26, ZenonT(60) DEF H!GetObject, H!PutObject
  <2> QED  BY <1>0, <1>26, <2>1, Hdf5Mrgvar
<1> QED  BY <1>1, <1>2, <1>3, <1>4, <1>5, <1>6, <1>7, <1>8, <1>9, <1>10, <1>11,
     <1>12, <1>13, <1>14, <1>15, <1>16, <1>17, <1>18, <1>19, <1>20, <1>21,
     <1>22, <1>23, <1>24, <1>25, <1>26 DEF Kinds
-----------------------------------------------------------------------------
(* The drivers, kind by kind: what a call writes is of what it is given,   *)
(* what is read is of what is there.                                       *)

\* Nothing is put that was not given.
LEMMA PdbPuts ==
  ASSUME NEW kind \in Kinds, NEW in
  PROVE  P!PutObject(kind, in) \subseteq in /\ "align" \notin P!PutObject(kind, in)
<1>1. CASE kind = "curve"
  BY <1>1 DEF P!PutObject, P!PutCurve, P!When, P!Axes
<1>2. CASE kind = "csgmesh"
  BY <1>2 DEF P!PutObject, P!PutCsgmesh, P!When, P!MeshInfo, P!SubsetInfo, P!Times, P!Axes
<1>3. CASE kind = "csgvar"
  BY <1>3 DEF P!PutObject, P!PutCsgvar, P!When, P!Physics, P!VarInfo, P!Times
<1>4. CASE kind = "csgzonelist"
  BY <1>4 DEF P!PutObject, P!PutCSGZonelist
<1>5. CASE kind = "defvars"
  BY <1>5 DEF P!PutObject, P!PutDefvars
<1>6. CASE kind = "pointmesh"
  BY <1>6 DEF P!PutObject, P!PutPointmesh, P!When, P!MeshInfo, P!Times, P!Axes
<1>7. CASE kind = "pointvar"
  BY <1>7 DEF P!PutObject, P!PutPointvar, P!When, P!Physics, P!VarInfo, P!Times
<1>8. CASE kind = "quadmesh"
  BY <1>8 DEF P!PutObject, P!PutQuadmesh, P!When, P!Ghosts, P!MeshInfo, P!Times, P!Axes
<1>9. CASE kind = "quadvar"
  BY <1>9 DEF P!PutObject, P!PutQuadvar, P!When, P!Physics, P!VarInfo, P!Times
<1>10. CASE kind = "ucdmesh"
  BY <1>10 DEF P!PutObject, P!PutUcdmesh, P!When, P!MeshInfo, P!SubsetInfo, P!Times, P!Axes
<1>11. CASE kind = "ucdsubmesh"
  BY <1>11 DEF P!PutObject, P!PutUcdsubmesh, P!Times, P!Axes, P!SubsetInfo
<1>12. CASE kind = "ucdvar"
  BY <1>12 DEF P!PutObject, P!PutUcdvar, P!When, P!Physics, P!VarInfo, P!Times
<1>13. CASE kind = "facelist"
  BY <1>13 DEF P!PutObject, P!PutFacelist
<1>14. CASE kind = "zonelist"
  BY <1>14 DEF P!PutObject, P!PutZonelist2, P!When
<1>15. CASE kind = "phzonelist"
  BY <1>15 DEF P!PutObject, P!PutPHZonelist, P!When
<1>16. CASE kind = "material"
  BY <1>16 DEF P!PutObject, P!PutMaterial, P!When
<1>17. CASE kind = "matspecies"
  BY <1>17 DEF P!PutObject, P!PutMatspecies, P!When
<1>18. CASE kind = "array"
  BY <1>18 DEF P!PutObject, P!PutCompoundarray
<1>19. CASE kind = "multimesh"
  BY <1>19 DEF P!PutObject, P!PutMultimesh, P!When, P!SubsetInfo, P!Blocks
<1>20. CASE kind = "multimeshadj"
  BY <1>20 DEF P!PutObject, P!PutMultimeshadj, P!When
<1>21. CASE kind = "multivar"
  BY <1>21 DEF P!PutObject, P!PutMultivar, P!Physics, P!Blocks
<1>22. CASE kind = "multimat"
  BY <1>22 DEF P!PutObject, P!PutMultimat, P!When, P!Blocks
<1>23. CASE kind = "multimatspecies"
  BY <1>23 DEF P!PutObject, P!PutMultimatspecies, P!When, P!Blocks
<1>24. CASE kind = "mrgtree"
  BY <1>24 DEF P!PutObject, P!PutMrgtree, P!When
<1>25. CASE kind = "groupelmap"
  BY <1>25 DEF P!PutObject, P!PutGroupelmap, P!When
<1>26. CASE kind = "mrgvar"
  BY <1>26 DEF P!PutObject, P!PutMrgvar
<1> QED BY <1>1, <1>2, <1>3, <1>4, <1>5, <1>6, <1>7, <1>8, <1>9, <1>10, <1>11, <1>12, <1>13, <1>14,
  <1>15, <1>16, <1>17, <1>18, <1>19, <1>20, <1>21, <1>22, <1>23, <1>24, <1>25, <1>26 DEF Kinds

\* Nothing is read that is not there, extensive apart.
LEMMA PdbGets ==
  ASSUME NEW kind \in Kinds, NEW s, NEW x \in P!GetObject(kind, s)
  PROVE  x \in s \/ (x = "extensive" /\ "conserved" \in s)
<1>1. CASE kind = "curve"
  BY <1>1 DEF P!GetObject, P!GetCurve
<1>2. CASE kind = "csgmesh"
  BY <1>2 DEF P!GetObject, P!GetCsgmesh, P!When, P!MeshInfo, P!SubsetInfo, P!Times, P!Axes
<1>3. CASE kind = "csgvar"
  BY <1>3 DEF P!GetObject, P!GetCsgvar, P!VarInfo, P!Times
<1>4. CASE kind = "csgzonelist"
  BY <1>4 DEF P!GetObject, P!GetCSGZonelist, P!When
<1>5. CASE kind = "defvars"
  BY <1>5 DEF P!GetObject, P!GetDefvars, P!When
<1>6. CASE kind = "pointmesh"
  BY <1>6 DEF P!GetObject, P!GetPointmesh, P!MeshInfo, P!Times, P!Axes
<1>7. CASE kind = "pointvar"
  BY <1>7 DEF P!GetObject, P!GetPointvar, P!When, P!Physics, P!VarInfo, P!Times
<1>8. CASE kind = "quadmesh"
  BY <1>8 DEF P!GetObject, P!GetQuadmesh
<1>9. CASE kind = "quadvar"
  BY <1>9 DEF P!GetObject, P!GetQuadvar, P!When
<1>10. CASE kind = "ucdmesh"
  BY <1>10 DEF P!GetObject, P!GetUcdmesh, P!When, P!MeshInfo, P!SubsetInfo, P!Times, P!Axes
<1>11. CASE kind = "ucdsubmesh"
  BY <1>11 DEF P!GetObject, P!GetUcdmesh, P!When, P!MeshInfo, P!SubsetInfo, P!Times, P!Axes
<1>12. CASE kind = "ucdvar"
  BY <1>12 DEF P!GetObject, P!GetUcdvar
<1>13. CASE kind = "facelist"
  BY <1>13 DEF P!GetObject, P!GetFacelist
<1>14. CASE kind = "zonelist"
  BY <1>14 DEF P!GetObject, P!GetZonelist
<1>15. CASE kind = "phzonelist"
  BY <1>15 DEF P!GetObject, P!GetPHZonelist
<1>16. CASE kind = "material"
  BY <1>16 DEF P!GetObject, P!GetMaterial
<1>17. CASE kind = "matspecies"
  BY <1>17 DEF P!GetObject, P!GetMatspecies
<1>18. CASE kind = "array"
  BY <1>18 DEF P!GetObject, P!GetCompoundarray
<1>19. CASE kind = "multimesh"
  BY <1>19 DEF P!GetObject, P!GetMultimesh
<1>20. CASE kind = "multimeshadj"
  BY <1>20 DEF P!GetObject, P!GetMultimeshadj, P!When
<1>21. CASE kind = "multivar"
  BY <1>21 DEF P!GetObject, P!GetMultivar
<1>22. CASE kind = "multimat"
  BY <1>22 DEF P!GetObject, P!GetMultimat
<1>23. CASE kind = "multimatspecies"
  BY <1>23 DEF P!GetObject, P!GetMultimatspecies
<1>24. CASE kind = "mrgtree"
  BY <1>24 DEF P!GetObject, P!GetMrgtree
<1>25. CASE kind = "groupelmap"
  BY <1>25 DEF P!GetObject, P!GetGroupelmap
<1>26. CASE kind = "mrgvar"
  BY <1>26 DEF P!GetObject, P!GetMrgvar
<1> QED BY <1>1, <1>2, <1>3, <1>4, <1>5, <1>6, <1>7, <1>8, <1>9, <1>10, <1>11, <1>12, <1>13, <1>14,
  <1>15, <1>16, <1>17, <1>18, <1>19, <1>20, <1>21, <1>22, <1>23, <1>24, <1>25, <1>26 DEF Kinds

\* What other objects may write is read or not read by itself.
LEMMA PdbLoose ==
  ASSUME NEW kind \in Kinds, NEW s, NEW t, s \subseteq t, t \ s \subseteq Times \cup Dims \cup {"nnodes"}
  PROVE  P!GetObject(kind, s) = P!GetObject(kind, t) \ (t \ s)
<1> SUFFICES ASSUME NEW x PROVE x \in P!GetObject(kind, s) <=> x \in P!GetObject(kind, t) \ (t \ s)
  OBVIOUS
<1>1. CASE kind = "curve"
  BY <1>1 DEF P!GetObject, P!GetCurve, Times, Dims
<1>2. CASE kind = "csgmesh"
  BY <1>2 DEF P!GetObject, P!GetCsgmesh, P!When, P!MeshInfo, P!SubsetInfo, P!Times, P!Axes, Times,
    Dims
<1>3. CASE kind = "csgvar"
  BY <1>3 DEF P!GetObject, P!GetCsgvar, P!VarInfo, P!Times, Times, Dims
<1>4. CASE kind = "csgzonelist"
  BY <1>4 DEF P!GetObject, P!GetCSGZonelist, P!When, Times, Dims
<1>5. CASE kind = "defvars"
  BY <1>5 DEF P!GetObject, P!GetDefvars, P!When, Times, Dims
<1>6. CASE kind = "pointmesh"
  BY <1>6 DEF P!GetObject, P!GetPointmesh, P!MeshInfo, P!Times, P!Axes, Times, Dims
<1>7. CASE kind = "pointvar"
  BY <1>7 DEF P!GetObject, P!GetPointvar, P!When, P!Physics, P!VarInfo, P!Times, Times, Dims
<1>8. CASE kind = "quadmesh"
  BY <1>8 DEF P!GetObject, P!GetQuadmesh, Times, Dims
<1>9. CASE kind = "quadvar"
  BY <1>9 DEF P!GetObject, P!GetQuadvar, P!When, Times, Dims
<1>10. CASE kind = "ucdmesh"
  BY <1>10 DEF P!GetObject, P!GetUcdmesh, P!When, P!MeshInfo, P!SubsetInfo, P!Times, P!Axes, Times,
    Dims
<1>11. CASE kind = "ucdsubmesh"
  BY <1>11 DEF P!GetObject, P!GetUcdmesh, P!When, P!MeshInfo, P!SubsetInfo, P!Times, P!Axes, Times,
    Dims
<1>12. CASE kind = "ucdvar"
  BY <1>12 DEF P!GetObject, P!GetUcdvar, Times, Dims
<1>13. CASE kind = "facelist"
  BY <1>13 DEF P!GetObject, P!GetFacelist, Times, Dims
<1>14. CASE kind = "zonelist"
  BY <1>14 DEF P!GetObject, P!GetZonelist, Times, Dims
<1>15. CASE kind = "phzonelist"
  BY <1>15 DEF P!GetObject, P!GetPHZonelist, Times, Dims
<1>16. CASE kind = "material"
  BY <1>16 DEF P!GetObject, P!GetMaterial, Times, Dims
<1>17. CASE kind = "matspecies"
  BY <1>17 DEF P!GetObject, P!GetMatspecies, Times, Dims
<1>18. CASE kind = "array"
  BY <1>18 DEF P!GetObject, P!GetCompoundarray, Times, Dims
<1>19. CASE kind = "multimesh"
  BY <1>19 DEF P!GetObject, P!GetMultimesh, Times, Dims
<1>20. CASE kind = "multimeshadj"
  BY <1>20 DEF P!GetObject, P!GetMultimeshadj, P!When, Times, Dims
<1>21. CASE kind = "multivar"
  BY <1>21 DEF P!GetObject, P!GetMultivar, Times, Dims
<1>22. CASE kind = "multimat"
  BY <1>22 DEF P!GetObject, P!GetMultimat, Times, Dims
<1>23. CASE kind = "multimatspecies"
  BY <1>23 DEF P!GetObject, P!GetMultimatspecies, Times, Dims
<1>24. CASE kind = "mrgtree"
  BY <1>24 DEF P!GetObject, P!GetMrgtree, Times, Dims
<1>25. CASE kind = "groupelmap"
  BY <1>25 DEF P!GetObject, P!GetGroupelmap, Times, Dims
<1>26. CASE kind = "mrgvar"
  BY <1>26 DEF P!GetObject, P!GetMrgvar, Times, Dims
<1> QED BY <1>1, <1>2, <1>3, <1>4, <1>5, <1>6, <1>7, <1>8, <1>9, <1>10, <1>11, <1>12, <1>13, <1>14,
  <1>15, <1>16, <1>17, <1>18, <1>19, <1>20, <1>21, <1>22, <1>23, <1>24, <1>25, <1>26 DEF Kinds

\* Nothing is put that was not given.
LEMMA Hdf5Puts ==
  ASSUME NEW kind \in Kinds, NEW in
  PROVE  H!PutObject(kind, in) \subseteq in
<1>1. CASE kind = "curve"
  BY <1>1 DEF H!PutObject, H!PutCurve, H!When, H!Axes
<1>2. CASE kind = "csgmesh"
  BY <1>2 DEF H!PutObject, H!PutCsgmesh, H!When, H!MeshInfo, H!SubsetInfo, H!Times, H!Axes
<1>3. CASE kind = "csgvar"
  BY <1>3 DEF H!PutObject, H!PutCsgvar, H!When, H!Physics, H!VarInfo, H!Times
<1>4. CASE kind = "csgzonelist"
  BY <1>4 DEF H!PutObject, H!PutCSGZonelist, H!When
<1>5. CASE kind = "defvars"
  BY <1>5 DEF H!PutObject, H!PutDefvars
<1>6. CASE kind = "pointmesh"
  BY <1>6 DEF H!PutObject, H!PutPointmesh, H!When, H!MeshInfo, H!Times, H!Axes
<1>7. CASE kind = "pointvar"
  BY <1>7 DEF H!PutObject, H!PutPointvar, H!When, H!Physics, H!VarInfo, H!Times
<1>8. CASE kind = "quadmesh"
  BY <1>8 DEF H!PutObject, H!PutQuadmesh, H!When, H!Ghosts, H!MeshInfo, H!Times, H!Axes
<1>9. CASE kind = "quadvar"
  BY <1>9 DEF H!PutObject, H!PutQuadvar, H!When, H!Physics, H!VarInfo, H!Times
<1>10. CASE kind = "ucdmesh"
  BY <1>10 DEF H!PutObject, H!PutUcdmesh, H!When, H!MeshInfo, H!SubsetInfo, H!Times, H!Axes
<1>11. CASE kind = "ucdsubmesh"
  BY <1>11 DEF H!PutObject, H!PutUcdsubmesh, H!Times, H!Axes, H!SubsetInfo
<1>12. CASE kind = "ucdvar"
  BY <1>12 DEF H!PutObject, H!PutUcdvar, H!When, H!Physics, H!VarInfo, H!Times
<1>13. CASE kind = "facelist"
  BY <1>13 DEF H!PutObject, H!PutFacelist
<1>14. CASE kind = "zonelist"
  BY <1>14 DEF H!PutObject, H!PutZonelist2
<1>15. CASE kind = "phzonelist"
  BY <1>15 DEF H!PutObject, H!PutPHZonelist
<1>16. CASE kind = "material"
  BY <1>16 DEF H!PutObject, H!PutMaterial, H!When
<1>17. CASE kind = "matspecies"
  BY <1>17 DEF H!PutObject, H!PutMatspecies, H!When
<1>18. CASE kind = "array"
  BY <1>18 DEF H!PutObject, H!PutCompoundarray
<1>19. CASE kind = "multimesh"
  BY <1>19 DEF H!PutObject, H!PutMultimesh, H!When, H!SubsetInfo, H!Blocks
<1>20. CASE kind = "multimeshadj"
  BY <1>20 DEF H!PutObject, H!PutMultimeshadj, H!When
<1>21. CASE kind = "multivar"
  BY <1>21 DEF H!PutObject, H!PutMultivar, H!Physics, H!Blocks
<1>22. CASE kind = "multimat"
  BY <1>22 DEF H!PutObject, H!PutMultimat, H!When, H!Blocks
<1>23. CASE kind = "multimatspecies"
  BY <1>23 DEF H!PutObject, H!PutMultimatspecies, H!When, H!Blocks
<1>24. CASE kind = "mrgtree"
  BY <1>24 DEF H!PutObject, H!PutMrgtree, H!When
<1>25. CASE kind = "groupelmap"
  BY <1>25 DEF H!PutObject, H!PutGroupelmap, H!When
<1>26. CASE kind = "mrgvar"
  BY <1>26 DEF H!PutObject, H!PutMrgvar
<1> QED BY <1>1, <1>2, <1>3, <1>4, <1>5, <1>6, <1>7, <1>8, <1>9, <1>10, <1>11, <1>12, <1>13, <1>14,
  <1>15, <1>16, <1>17, <1>18, <1>19, <1>20, <1>21, <1>22, <1>23, <1>24, <1>25, <1>26 DEF Kinds

\* Nothing is read that is not there.
LEMMA Hdf5Gets ==
  ASSUME NEW kind \in Kinds, NEW s
  PROVE  H!GetObject(kind, s) \subseteq s
<1>1. CASE kind = "curve"
  BY <1>1 DEF H!GetObject, H!GetCurve
<1>2. CASE kind = "csgmesh"
  BY <1>2 DEF H!GetObject, H!GetCsgmesh, H!When, H!MeshInfo, H!SubsetInfo, H!Times, H!Axes
<1>3. CASE kind = "csgvar"
  BY <1>3 DEF H!GetObject, H!GetCsgvar, H!Physics, H!VarInfo, H!Times
<1>4. CASE kind = "csgzonelist"
  BY <1>4 DEF H!GetObject, H!GetCSGZonelist
<1>5. CASE kind = "defvars"
  BY <1>5 DEF H!GetObject, H!GetDefvars
<1>6. CASE kind = "pointmesh"
  BY <1>6 DEF H!GetObject, H!GetPointmesh, H!MeshInfo, H!Times, H!Axes
<1>7. CASE kind = "pointvar"
  BY <1>7 DEF H!GetObject, H!GetPointvar, H!When, H!Physics, H!VarInfo, H!Times
<1>8. CASE kind = "quadmesh"
  BY <1>8 DEF H!GetObject, H!GetQuadmesh
<1>9. CASE kind = "quadvar"
  BY <1>9 DEF H!GetObject, H!GetQuadvar
<1>10. CASE kind = "ucdmesh"
  BY <1>10 DEF H!GetObject, H!GetUcdmesh, H!When, H!MeshInfo, H!SubsetInfo, H!Times, H!Axes
<1>11. CASE kind = "ucdsubmesh"
  BY <1>11 DEF H!GetObject, H!GetUcdmesh, H!When, H!MeshInfo, H!SubsetInfo, H!Times, H!Axes
<1>12. CASE kind = "ucdvar"
  BY <1>12 DEF H!GetObject, H!GetUcdvar
<1>13. CASE kind = "facelist"
  BY <1>13 DEF H!GetObject, H!GetFacelist
<1>14. CASE kind = "zonelist"
  BY <1>14 DEF H!GetObject, H!GetZonelist
<1>15. CASE kind = "phzonelist"
  BY <1>15 DEF H!GetObject, H!GetPHZonelist
<1>16. CASE kind = "material"
  BY <1>16 DEF H!GetObject, H!GetMaterial
<1>17. CASE kind = "matspecies"
  BY <1>17 DEF H!GetObject, H!GetMatspecies
<1>18. CASE kind = "array"
  BY <1>18 DEF H!GetObject, H!GetCompoundarray
<1>19. CASE kind = "multimesh"
  BY <1>19 DEF H!GetObject, H!GetMultimesh
<1>20. CASE kind = "multimeshadj"
  BY <1>20 DEF H!GetObject, H!GetMultimeshadj, H!When
<1>21. CASE kind = "multivar"
  BY <1>21 DEF H!GetObject, H!GetMultivar
<1>22. CASE kind = "multimat"
  BY <1>22 DEF H!GetObject, H!GetMultimat
<1>23. CASE kind = "multimatspecies"
  BY <1>23 DEF H!GetObject, H!GetMultimatspecies
<1>24. CASE kind = "mrgtree"
  BY <1>24 DEF H!GetObject, H!GetMrgtree
<1>25. CASE kind = "groupelmap"
  BY <1>25 DEF H!GetObject, H!GetGroupelmap
<1>26. CASE kind = "mrgvar"
  BY <1>26 DEF H!GetObject, H!GetMrgvar
<1> QED BY <1>1, <1>2, <1>3, <1>4, <1>5, <1>6, <1>7, <1>8, <1>9, <1>10, <1>11, <1>12, <1>13, <1>14,
  <1>15, <1>16, <1>17, <1>18, <1>19, <1>20, <1>21, <1>22, <1>23, <1>24, <1>25, <1>26 DEF Kinds

\* What is read of each of two headers is read of what they share.
LEMMA Hdf5Meet ==
  ASSUME NEW kind \in Kinds, NEW s, NEW t
  PROVE  H!GetObject(kind, s) \cap H!GetObject(kind, t) \subseteq H!GetObject(kind, s \cap t)
<1>1. CASE kind = "curve"
  BY <1>1 DEF H!GetObject, H!GetCurve
<1>2. CASE kind = "csgmesh"
  BY <1>2 DEF H!GetObject, H!GetCsgmesh, H!When, H!MeshInfo, H!SubsetInfo, H!Times, H!Axes
<1>3. CASE kind = "csgvar"
  BY <1>3 DEF H!GetObject, H!GetCsgvar, H!Physics, H!VarInfo, H!Times
<1>4. CASE kind = "csgzonelist"
  BY <1>4 DEF H!GetObject, H!GetCSGZonelist
<1>5. CASE kind = "defvars"
  BY <1>5 DEF H!GetObject, H!GetDefvars
<1>6. CASE kind = "pointmesh"
  BY <1>6 DEF H!GetObject, H!GetPointmesh, H!MeshInfo, H!Times, H!Axes
<1>7. CASE kind = "pointvar"
  BY <1>7 DEF H!GetObject, H!GetPointvar, H!When, H!Physics, H!VarInfo, H!Times
<1>8. CASE kind = "quadmesh"
  BY <1>8 DEF H!GetObject, H!GetQuadmesh
<1>9. CASE kind = "quadvar"
  BY <1>9 DEF H!GetObject, H!GetQuadvar
<1>10. CASE kind = "ucdmesh"
  BY <1>10 DEF H!GetObject, H!GetUcdmesh, H!When, H!MeshInfo, H!SubsetInfo, H!Times, H!Axes
<1>11. CASE kind = "ucdsubmesh"
  BY <1>11 DEF H!GetObject, H!GetUcdmesh, H!When, H!MeshInfo, H!SubsetInfo, H!Times, H!Axes
<1>12. CASE kind = "ucdvar"
  BY <1>12 DEF H!GetObject, H!GetUcdvar
<1>13. CASE kind = "facelist"
  BY <1>13 DEF H!GetObject, H!GetFacelist
<1>14. CASE kind = "zonelist"
  BY <1>14 DEF H!GetObject, H!GetZonelist
<1>15. CASE kind = "phzonelist"
  BY <1>15 DEF H!GetObject, H!GetPHZonelist
<1>16. CASE kind = "material"
  BY <1>16 DEF H!GetObject, H!GetMaterial
<1>17. CASE kind = "matspecies"
  BY <1>17 DEF H!GetObject, H!GetMatspecies
<1>18. CASE kind = "array"
  BY <1>18 DEF H!GetObject, H!GetCompoundarray
<1>19. CASE kind = "multimesh"
  BY <1>19 DEF H!GetObject, H!GetMultimesh
<1>20. CASE kind = "multimeshadj"
  BY <1>20 DEF H!GetObject, H!GetMultimeshadj, H!When
<1>21. CASE kind = "multivar"
  BY <1>21 DEF H!GetObject, H!GetMultivar
<1>22. CASE kind = "multimat"
  BY <1>22 DEF H!GetObject, H!GetMultimat
<1>23. CASE kind = "multimatspecies"
  BY <1>23 DEF H!GetObject, H!GetMultimatspecies
<1>24. CASE kind = "mrgtree"
  BY <1>24 DEF H!GetObject, H!GetMrgtree
<1>25. CASE kind = "groupelmap"
  BY <1>25 DEF H!GetObject, H!GetGroupelmap
<1>26. CASE kind = "mrgvar"
  BY <1>26 DEF H!GetObject, H!GetMrgvar
<1> QED BY <1>1, <1>2, <1>3, <1>4, <1>5, <1>6, <1>7, <1>8, <1>9, <1>10, <1>11, <1>12, <1>13, <1>14,
  <1>15, <1>16, <1>17, <1>18, <1>19, <1>20, <1>21, <1>22, <1>23, <1>24, <1>25, <1>26 DEF Kinds

-----------------------------------------------------------------------------
(* The state: of which call every header, every variable and every option  *)
(* that stays set is.                                                      *)

Piece   == Times \cup UNION {Pieces(kind) : kind \in Kinds}
CallRec == [name : Names, in : SUBSET Piece, comp : Comps \cup {NoComp}]
Fields  == {"made", "attr", "typed", "no", "comp", "first", "names"}

TypeInv ==
  /\ driver \in {"pdb", "hdf5"} /\ scene \in Scenes
  /\ calls \in Seq(CallRec)
  /\ DOMAIN heads = Names
  /\ \A n \in Names : DOMAIN heads[n] = Fields /\ heads[n].no \in 0 .. Len(calls)
  /\ DOMAIN left = Globals
  /\ faults \in Nat

\* Piece p of call v was supplied by it, or was an option that stays set.
Comes(cs, sticky, p, v) ==
  /\ v \in 1 .. Len(cs)
  /\ \/ p \in cs[v].in
     \/ p \in sticky /\ \E i \in 1 .. v : p \in cs[i].in

LeftInv ==
  /\ left["_ma"] \subseteq {"allowmat0", "guihide", "matnames", "matcolors"}
  /\ left["_ms"] \subseteq {"guihide", "specnames", "speccolors"}
  /\ left["_pm"] \subseteq {"ndims"}
  /\ left["_um"] \subseteq {"dtime", "use_specmf", "ndims"}
  /\ \A g \in Globals : \A p \in left[g] \ {"ndims"} : \E i \in 1 .. Len(calls) : p \in calls[i].in
  /\ faults = 0 => \A g \in Globals : left[g] \cap NameLists = {}

Listed == {"material", "matspecies"}
HeadInv ==
  \A n \in Names :
    /\ heads[n].no = 0 => heads[n].names = {} /\ (heads[n].attr => faults > 0)
    /\ heads[n].no > 0 =>
         /\ calls[heads[n].no].name = n
         /\ \A p \in heads[n].names : Comes(calls, Sticky(scene[n]), p, heads[n].no)
         /\ faults = 0 /\ scene[n] \in Listed =>
              heads[n].names \cap NameLists \subseteq calls[heads[n].no].in

LEMMA SceneKinds ==
  ASSUME TypeInv
  PROVE  /\ \A n \in Names : scene[n] \in Kinds
         /\ scene["m"] # "quadvar" /\ scene["v"] # "quadmesh"
         /\ scene["v"] = "quadvar" => scene["m"] = "quadmesh"
BY StoreAssumption DEF TypeInv, Names, Placed

\* The name of a component is no object's and not that of the directory.
LEMMA CompApart ==
  ASSUME NEW n \in Names, NEW c \in Components(n)
  PROVE  /\ c \in Comps \cup {NoComp} /\ c \notin Names /\ c # "dir"
         /\ driver = "pdb" /\ scene[n] \in CompKinds => c \in Comps
         /\ "dir" \notin Comps /\ \A m \in Names : m \notin Comps
BY StoreAssumption DEF Components, NoComp, Names

\* What a call adds to the calls that were made.
LEMMA Called ==
  ASSUME TypeInv, LeftInv, NEW n \in Names, NEW in \in Supply(scene[n]), NEW c \in Components(n),
         Call(n, in, c)
  PROVE  /\ Len(calls) \in Nat /\ No = Len(calls) + 1 /\ Len(calls') = No
         /\ calls' \in Seq(CallRec)
         /\ \A i \in 1 .. Len(calls) : calls'[i] = calls[i]
         /\ No \in 1 .. Len(calls') /\ calls'[No].name = n /\ calls'[No].in = Supplied(n, in)
         /\ calls'[No].comp = c
         /\ UNCHANGED <<driver, scene>>
<1>1. scene[n] \in Kinds
  BY SceneKinds
<1>2. Supplied(n, in) \subseteq Piece
  <2>1. in \subseteq Pieces(scene[n]) \cup Times
    BY <1>1, StoreAssumption
  <2>2. "ndims" \in Pieces("pointvar") /\ "pointvar" \in Kinds
    BY DEF Pieces, Described, Kinds
  <2>3. left["_pm"] \subseteq {"ndims"}
    BY DEF LeftInv
  <2> QED
    BY <1>1, <2>1, <2>2, <2>3 DEF Supplied, Piece
<1> DEFINE new == [name |-> n, in |-> Supplied(n, in), comp |-> c]
<1>3. new \in CallRec
  BY <1>2, CompApart DEF CallRec
<1>4. calls \in Seq(CallRec) /\ calls' = Append(calls, new)
  BY DEF TypeInv, Call
<1>5. new.name = n /\ new.in = Supplied(n, in) /\ new.comp = c
  OBVIOUS
<1> HIDE DEF new
<1>6. /\ Len(calls) \in Nat /\ No = Len(calls) + 1 /\ Len(calls') = No
      /\ calls' \in Seq(CallRec) /\ calls'[No] = new
      /\ \A i \in 1 .. Len(calls) : calls'[i] = calls[i]
  BY <1>3, <1>4, AppendProperties, LenProperties DEF No
<1> QED
  BY <1>5, <1>6 DEF Call

LEMMA StillComes ==
  ASSUME TypeInv, LeftInv, NEW n \in Names, NEW in \in Supply(scene[n]), NEW c \in Components(n),
         Call(n, in, c)
  PROVE  /\ \A g \in Globals : \A p \in left[g] \ {"ndims"} : \E i \in 1 .. Len(calls') :
              p \in calls'[i].in
         /\ \A sticky, p, v : Comes(calls, sticky, p, v) => Comes(calls', sticky, p, v)
<1>1. /\ Len(calls) \in Nat /\ Len(calls') = Len(calls) + 1
      /\ \A i \in 1 .. Len(calls) : calls'[i] = calls[i]
  BY Called
<1>2. ASSUME NEW sticky, NEW p, NEW v, Comes(calls, sticky, p, v)
      PROVE  Comes(calls', sticky, p, v)
  <2>1. v \in 1 .. Len(calls') /\ calls'[v] = calls[v] /\ \A i \in 1 .. v : calls'[i] = calls[i]
    BY <1>1, <1>2 DEF Comes
  <2> QED
    BY <1>2, <2>1 DEF Comes
<1>3. ASSUME NEW g \in Globals, NEW p \in left[g] \ {"ndims"}
      PROVE  \E i \in 1 .. Len(calls') : p \in calls'[i].in
  <2>1. PICK i \in 1 .. Len(calls) : p \in calls[i].in
    BY DEF LeftInv
  <2>2. i \in 1 .. Len(calls') /\ calls'[i] = calls[i]
    BY <1>1
  <2> QED
    BY <2>1, <2>2
<1> QED
  BY <1>2, <1>3

LEMMA GivenComes ==
  ASSUME TypeInv, LeftInv, NEW n \in Names, NEW in \in Supply(scene[n]), NEW c \in Components(n),
         Call(n, in, c),
         NEW p \in Given(n, in)
  PROVE  Comes(calls', Sticky(scene[n]), p, No)
<1>1. No \in 1 .. No /\ Len(calls') = No /\ calls'[No].in = Supplied(n, in)
  BY Called
<1>2. p \in Supplied(n, in) \/ (p \in Sticky(scene[n]) /\ \E i \in 1 .. No : p \in calls'[i].in)
  <2>1. \A g \in Globals : \A q \in left[g] \ {"ndims"} : \E i \in 1 .. No : q \in calls'[i].in
    BY <1>1, StillComes
  <2>2. "ndims" \notin left["_ma"] /\ "ndims" \notin left["_ms"]
        /\ "_ma" \in Globals /\ "_ms" \in Globals
    BY DEF LeftInv, Globals
  <2>3. p \in For(scene[n], "material", left["_ma"]) =>
          p \in left["_ma"] /\ p \in Sticky(scene[n])
    BY DEF LeftInv, For, Sticky
  <2>4. p \in For(scene[n], "matspecies", left["_ms"]) =>
          p \in left["_ms"] /\ p \in Sticky(scene[n])
    BY DEF LeftInv, For, Sticky
  <2> QED
    BY <2>1, <2>2, <2>3, <2>4 DEF Given
<1> QED
  BY <1>1, <1>2 DEF Comes

LEMMA LeftKept ==
  ASSUME TypeInv, LeftInv, NEW n \in Names, NEW in \in Supply(scene[n]), NEW c \in Components(n),
         Call(n, in, c),
         NEW kept, left' = Leaves(n, in, kept), faults' \in Nat,
         faults' = 0 => faults = 0 /\ kept = {}
  PROVE  LeftInv' /\ DOMAIN left' = Globals
<1>1. /\ Len(calls) \in Nat /\ No = Len(calls) + 1 /\ Len(calls') = No
      /\ calls'[No].in = Supplied(n, in) /\ No \in 1 .. Len(calls')
  BY Called
<1>2. DOMAIN left = Globals
  BY DEF TypeInv
<1>3. DOMAIN left' = Globals
  BY <1>2 DEF Leaves
<1>4. /\ left'["_ma"] = IF scene[n] # "material" THEN left["_ma"]
                        ELSE (left["_ma"] \cup (in \cap {"allowmat0", "guihide", "matnames", "matcolors"}))
                               \ (NameLists \ kept)
      /\ left'["_ms"] = IF scene[n] # "matspecies" THEN left["_ms"]
                        ELSE (left["_ms"] \cup (in \cap {"guihide", "specnames", "speccolors"}))
                               \ (NameLists \ kept)
      /\ left'["_pm"] = IF scene[n] = "pointmesh" THEN {"ndims"} ELSE left["_pm"]
      /\ left'["_um"] = IF scene[n] \notin UcdKinds THEN left["_um"]
                        ELSE (in \cap {"dtime", "use_specmf"})
                               \cup IF scene[n] = "ucdmesh" THEN {"ndims"}
                                    ELSE left["_um"] \cap {"ndims"}
  BY <1>2 DEF Leaves, Globals
<1>5. \A g \in Globals : g \in {"_ma", "_ms", "_pm", "_um"}
  BY DEF Globals
<1>6. ASSUME NEW g \in Globals, NEW p \in left'[g] \ {"ndims"}
      PROVE  p \in left[g] \ {"ndims"} \/ p \in Supplied(n, in)
  BY <1>4, <1>5, <1>6 DEF Supplied, UcdKinds
<1>7. ASSUME NEW g \in Globals, NEW p \in left'[g] \ {"ndims"}
      PROVE  \E i \in 1 .. Len(calls') : p \in calls'[i].in
  BY <1>1, <1>6, <1>7, StillComes
<1>8. ASSUME faults' = 0, NEW g \in Globals PROVE left'[g] \cap NameLists = {}
  <2>1. left[g] \cap NameLists = {} /\ kept = {}
    BY <1>8 DEF LeftInv
  <2> QED
    BY <1>4, <1>5, <2>1 DEF NameLists
<1>9. /\ left'["_ma"] \subseteq {"allowmat0", "guihide", "matnames", "matcolors"}
      /\ left'["_ms"] \subseteq {"guihide", "specnames", "speccolors"}
      /\ left'["_pm"] \subseteq {"ndims"}
      /\ left'["_um"] \subseteq {"dtime", "use_specmf", "ndims"}
  BY <1>4 DEF LeftInv
<1> QED
  BY <1>3, <1>7, <1>8, <1>9 DEF LeftInv

LEMMA GivenNames ==
  ASSUME LeftInv, NEW n, NEW in, faults = 0
  PROVE  Given(n, in) \cap NameLists \subseteq Supplied(n, in)
BY DEF LeftInv, Globals, Given, For

\* The header of n becomes that of the call, or stays as it was, or is
\* emptied by a call that fails.
LEMMA HeadSet ==
  ASSUME TypeInv, LeftInv, HeadInv, NEW n \in Names, NEW in \in Supply(scene[n]), NEW c \in Components(n),
         Call(n, in, c),
         NEW h, heads' = [heads EXCEPT ![n] = h], DOMAIN h = Fields,
         faults' \in Nat, faults' = 0 => faults = 0,
         \/ /\ h.no = No
            /\ \A p \in h.names : Comes(calls', Sticky(scene[n]), p, No)
            /\ faults' = 0 /\ scene[n] \in Listed => h.names \cap NameLists \subseteq Supplied(n, in)
         \/ h.no = heads[n].no /\ h.names = heads[n].names /\ faults' > 0
         \/ h.no = 0 /\ h.names = {} /\ faults' > 0
  PROVE  /\ HeadInv' /\ DOMAIN heads' = Names
         /\ \A m \in Names : DOMAIN heads'[m] = Fields /\ heads'[m].no \in 0 .. Len(calls')
<1>1. /\ Len(calls) \in Nat /\ No = Len(calls) + 1 /\ Len(calls') = No
      /\ No \in 1 .. Len(calls') /\ calls'[No].name = n /\ calls'[No].in = Supplied(n, in)
      /\ \A i \in 1 .. Len(calls) : calls'[i] = calls[i]
      /\ UNCHANGED <<driver, scene>>
  BY Called
<1>2. /\ \A m \in Names : heads'[m] = IF m = n THEN h ELSE heads[m]
      /\ DOMAIN heads' = Names
  BY DEF TypeInv
<1>3. \A m \in Names : heads[m].no \in 0 .. Len(calls) /\ DOMAIN heads[m] = Fields
  BY DEF TypeInv
<1>4. \A m \in Names : DOMAIN heads'[m] = Fields /\ heads'[m].no \in 0 .. Len(calls')
  BY <1>1, <1>2, <1>3
<1> DEFINE OK(m, hd, cs, sticky, flts) ==
             /\ hd.no = 0 => hd.names = {} /\ (hd.attr => flts > 0)
             /\ hd.no > 0 =>
                  /\ cs[hd.no].name = m
                  /\ \A p \in hd.names : Comes(cs, sticky, p, hd.no)
                  /\ flts = 0 /\ scene[m] \in Listed => hd.names \cap NameLists \subseteq cs[hd.no].in
<1>5. ASSUME NEW m \in Names, NEW hd, hd.no = heads[m].no, hd.names = heads[m].names,
             hd.attr => (heads[m].attr \/ faults' > 0)
      PROVE  OK(m, hd, calls', Sticky(scene[m]), faults')
  <2>1. OK(m, heads[m], calls, Sticky(scene[m]), faults)
    BY DEF HeadInv
  <2>2. \A p : Comes(calls, Sticky(scene[m]), p, hd.no) => Comes(calls', Sticky(scene[m]), p, hd.no)
    BY StillComes
  <2>3. hd.no > 0 => calls'[hd.no] = calls[hd.no]
    BY <1>1, <1>3, <1>5
  <2>4. faults > 0 => faults' > 0
    BY DEF TypeInv
  <2> QED
    BY <1>5, <2>1, <2>2, <2>3, <2>4
<1>6. OK(n, h, calls', Sticky(scene[n]), faults')
  <2>1. CASE h.no = No
    BY <1>1, <1>5, <2>1
  <2>2. CASE h.no = heads[n].no /\ h.names = heads[n].names /\ faults' > 0
    BY <1>5, <2>2
  <2>3. CASE h.no = 0 /\ h.names = {} /\ faults' > 0
    BY <2>3
  <2> QED
    BY <2>1, <2>2, <2>3, <1>1, <1>3
<1>7. \A m \in Names : OK(m, heads'[m], calls', Sticky(scene[m]), faults')
  BY <1>2, <1>5, <1>6
<1>8. \A m \in Names : scene'[m] = scene[m] /\ Sticky(scene[m])' = Sticky(scene[m])
  BY <1>1 DEF Sticky
<1> QED
  BY <1>2, <1>4, <1>7, <1>8 DEF HeadInv

\* Every member of the header of the HDF5 driver comes of some call.
LEMMA HeaderComes ==
  ASSUME TypeInv, LeftInv, driver = "hdf5", NEW n \in Names, NEW in \in Supply(scene[n]), NEW c \in Components(n),
         Call(n, in, c), NEW p \in Header(n, in)
  PROVE  Comes(calls', Sticky(scene[n]), p, No)
<1>1. scene[n] \in Kinds
  BY SceneKinds
<1>2. CASE p \in H!PutObject(scene[n], Given(n, in))
  <2>1. p \in Given(n, in)
    BY <1>1, <1>2, Hdf5Puts
  <2> QED
    BY <2>1, GivenComes
<1>3. CASE p \in For(scene[n], "csgvar",
                     left["_um"] \cap ({"use_specmf"} \cup (in \cap {"dtime"})))
  <2>1. p \in left["_um"] \ {"ndims"} /\ scene[n] = "csgvar" /\ "_um" \in Globals
        /\ p \in {"dtime", "use_specmf"}
    BY <1>3 DEF For, Globals
  <2>2. \E i \in 1 .. Len(calls') : p \in calls'[i].in
    BY <2>1, StillComes
  <2>3. p \in Sticky(scene[n])
    BY <2>1 DEF Sticky, For
  <2>4. Len(calls') = No /\ No \in 1 .. Len(calls')
    BY Called
  <2> QED
    BY <2>2, <2>3, <2>4 DEF Comes
<1> QED
  BY <1>2, <1>3 DEF Header

LEMMA HeaderNames ==
  ASSUME TypeInv, LeftInv, faults = 0, NEW n \in Names, NEW in, scene[n] \in Listed
  PROVE  Header(n, in) \cap NameLists \subseteq Supplied(n, in)
<1>1. scene[n] \in Kinds
  BY SceneKinds
<1>2. H!PutObject(scene[n], Given(n, in)) \subseteq Given(n, in)
  BY <1>1, Hdf5Puts
<1> QED
  BY <1>2, GivenNames DEF Header, For, Listed

LEMMA PutKeeps ==
  ASSUME TypeInv, LeftInv, HeadInv, NEW n \in Names, NEW in \in Supply(scene[n]), NEW c \in Components(n),
         Put(n, in, c)
  PROVE  TypeInv' /\ LeftInv' /\ HeadInv'
<1>1. scene[n] \in Kinds /\ DOMAIN heads[n] = Fields /\ faults \in Nat
  BY SceneKinds DEF TypeInv
<1>2. Call(n, in, c)
  BY DEF Put, PdbPut, Hdf5Put, Hdf5PutFails
<1>3. calls' \in Seq(CallRec) /\ UNCHANGED <<driver, scene>>
  BY <1>2, Called
<1>4. ASSUME NEW h, NEW kept, heads' = [heads EXCEPT ![n] = h], DOMAIN h = Fields,
             left' = Leaves(n, in, kept), faults' \in Nat,
             faults' = 0 => faults = 0 /\ kept = {},
             \/ /\ h.no = No
                /\ \A p \in h.names : Comes(calls', Sticky(scene[n]), p, No)
                /\ faults' = 0 /\ scene[n] \in Listed =>
                     h.names \cap NameLists \subseteq Supplied(n, in)
             \/ h.no = heads[n].no /\ h.names = heads[n].names /\ faults' > 0
             \/ h.no = 0 /\ h.names = {} /\ faults' > 0
      PROVE  TypeInv' /\ LeftInv' /\ HeadInv'
  <2>1. LeftInv' /\ DOMAIN left' = Globals
    BY <1>2, <1>4, LeftKept
  <2>2. /\ HeadInv' /\ DOMAIN heads' = Names
        /\ \A m \in Names : DOMAIN heads'[m] = Fields /\ heads'[m].no \in 0 .. Len(calls')
    BY <1>2, <1>4, HeadSet
  <2>3. TypeInv'
    BY <1>3, <1>4, <2>1, <2>2 DEF TypeInv
  <2> QED
    BY <2>1, <2>2, <2>3
<1>5. CASE PdbPut(n, in, c)
  <2> DEFINE h == [made |-> TRUE, attr |-> TRUE, typed |-> TRUE, no |-> No, comp |-> c,
                   first |-> {}, names |-> HeadOf(n, in)]
  <2>1. /\ heads' = [heads EXCEPT ![n] = h] /\ left' = Leaves(n, in, {})
        /\ faults' \in {faults, faults + 1}
    BY <1>5 DEF PdbPut
  <2>2. /\ DOMAIN h = Fields /\ h.no = No /\ h.names = HeadOf(n, in)
    BY DEF Fields
  <2> HIDE DEF h
  <2>3. HeadOf(n, in) \subseteq Given(n, in)
    BY <1>1, PdbPuts DEF HeadOf
  <2>4. faults' \in Nat /\ (faults' = 0 => faults = 0)
    BY <1>1, <2>1
  <2>5. \A p \in h.names : Comes(calls', Sticky(scene[n]), p, No)
    BY <1>2, <2>2, <2>3, GivenComes
  <2>6. faults' = 0 => h.names \cap NameLists \subseteq Supplied(n, in)
    BY <2>2, <2>3, <2>4, GivenNames
  <2> QED
    BY <1>4, <2>1, <2>2, <2>4, <2>5, <2>6
<1>6. ASSUME driver = "hdf5", NEW h, DOMAIN h = Fields, h.no = No, h.names \subseteq Header(n, in)
      PROVE  /\ \A p \in h.names : Comes(calls', Sticky(scene[n]), p, No)
             /\ faults = 0 /\ scene[n] \in Listed => h.names \cap NameLists \subseteq Supplied(n, in)
  BY <1>2, <1>6, HeaderComes, HeaderNames
<1>7. /\ DOMAIN Silo(n, in) = Fields /\ Silo(n, in).no = No
      /\ Silo(n, in).names \subseteq Header(n, in)
  BY <1>1 DEF Silo, Fields
<1>8. CASE Hdf5Put(n, in, c)
  <2> DEFINE h == [Silo(n, in) EXCEPT !.typed = TRUE]
  <2>1. /\ driver = "hdf5" /\ heads' = [heads EXCEPT ![n] = h] /\ left' = Leaves(n, in, {})
        /\ faults' = faults
    BY <1>8 DEF Hdf5Put
  <2>2. DOMAIN h = Fields /\ h.no = No /\ h.names \subseteq Header(n, in)
    BY <1>7 DEF Fields
  <2> HIDE DEF h
  <2>3. /\ \A p \in h.names : Comes(calls', Sticky(scene[n]), p, No)
        /\ faults = 0 /\ scene[n] \in Listed => h.names \cap NameLists \subseteq Supplied(n, in)
    BY <1>6, <2>1, <2>2
  <2> QED
    BY <1>1, <1>4, <2>1, <2>2, <2>3
<1>9. CASE Hdf5PutFails(n, in, c)
  <2>1. PICK head \in {heads[n], [heads[n] EXCEPT !.made = TRUE], Silo(n, in)}
                       \cup IF heads[n].attr THEN {} ELSE {[Silo(n, in) EXCEPT !.no = 0, !.names = {}]},
             kept \in {{}, {"matcolors", "speccolors"}, NameLists} :
          heads' = [heads EXCEPT ![n] = head] /\ left' = Leaves(n, in, kept)
    BY <1>9 DEF Hdf5PutFails
  <2>2. faults' = faults + 1 /\ driver = "hdf5"
    BY <1>9 DEF Hdf5PutFails
  <2>3. faults' \in Nat /\ faults' > 0 /\ faults' # 0
    BY <1>1, <2>2
  <2>4. CASE head = Silo(n, in)
    <3>1. /\ DOMAIN head = Fields /\ head.no = No
          /\ \A p \in head.names : Comes(calls', Sticky(scene[n]), p, No)
      BY <1>6, <1>7, <2>2, <2>4
    <3> QED
      BY <1>4, <2>1, <2>3, <3>1
  <2>5. CASE head = heads[n] \/ head = [heads[n] EXCEPT !.made = TRUE]
    <3>1. /\ DOMAIN head = Fields /\ head.no = heads[n].no /\ head.names = heads[n].names
      BY <1>1, <2>5 DEF Fields
    <3> QED
      BY <1>4, <2>1, <2>3, <3>1
  <2>6. CASE head = [Silo(n, in) EXCEPT !.no = 0, !.names = {}]
    <3>1. /\ DOMAIN head = Fields /\ head.no = 0 /\ head.names = {}
      BY <1>7, <2>6 DEF Fields
    <3> QED
      BY <1>4, <2>1, <2>3, <3>1
  <2> QED
    BY <2>1, <2>4, <2>5, <2>6
<1> QED
  BY <1>5, <1>8, <1>9 DEF Put

-----------------------------------------------------------------------------
(* The variables of a PDB directory.                                       *)

Loose    == Times \cup Dims
At(o, p) == [owner |-> o, piece |-> p]
Of(at, n) == at.owner = n /\ at.piece \notin Dims \cup {"align"}

\* Call v is a later one for another object with the component of n.
Later(n, p, v) ==
  /\ OfComponent(n, p)
  /\ v \in 1 .. Len(calls) /\ v > heads[n].no /\ SameComponent(n, calls[v])

\* A header names what is there, as its call, a refused write or a later call
\* with the same component left it.
NamedInv ==
  driver = "pdb" =>
    \A n \in Names :
      /\ heads[n].made \/ heads[n].names # {} => heads[n].no > 0 /\ heads[n].comp \in Components(n)
      /\ (heads[n].attr <=> heads[n].made) /\ (heads[n].typed <=> heads[n].made)
      /\ "align" \notin heads[n].names
      /\ \A p \in heads[n].names \ Loose :
           \/ Literal(scene[n], p)
           \/ /\ Held(n, p) \in DOMAIN disk
              /\ disk[Held(n, p)] \in {heads[n].no, Wrong} \/ Later(n, p, disk[Held(n, p)])

\* A variable is of a call that supplied it, and that named the object or the
\* component if it is of one.
DiskInv ==
  driver = "pdb" => \A at \in DOMAIN disk :
    /\ disk[at] # Wrong =>
         /\ disk[at] \in 1 .. Len(calls)
         /\ at.owner = "dir" => at.piece \in calls[disk[at]].in
         /\ at.owner \in Comps =>
              at.piece \in calls[disk[at]].in /\ calls[disk[at]].comp = at.owner
         /\ \A n \in Names : Of(at, n) =>
              calls[disk[at]].name = n /\ Comes(calls, Sticky(scene[n]), at.piece, disk[at])
    /\ disk[at] = Wrong =>
         \/ faults > 0
         \/ \E n \in Names : at = At(n, "extents") /\ scene[n] = "quadmesh" /\ heads[n].no > 1

\* The dimensions of the quad mesh are there together, from the first call
\* for it or for a variable of it on.
MeshInv ==
  driver = "pdb" /\ scene["m"] = "quadmesh" =>
    /\ \A d \in Dims : At("m", d) \in DOMAIN disk <=> At("m", "dims") \in DOMAIN disk
    /\ heads["m"].made => At("m", "dims") \in DOMAIN disk
    /\ scene["v"] = "quadvar" /\ heads["v"].made => At("m", "dims") \in DOMAIN disk

LEMMA Places1 ==
  ASSUME NEW n \in Names, NEW c \in Components(n), NEW p
  PROVE  /\ Place(n, c, p).piece = p /\ Place(n, c, p) = At(Place(n, c, p).owner, p)
         /\ p \in Times => Place(n, c, p).owner = "dir"
         /\ p \notin Times => Place(n, c, p).owner \in {"m", n, c} /\ Place(n, c, p).owner # "dir"
         /\ p \notin Loose => Place(n, c, p).owner = IF scene[n] \in CompKinds /\ p \in Arrays THEN c ELSE n
         /\ p \in Dims /\ (scene[n] = "quadmesh" \/ (scene[n] = "quadvar" /\ p = "min_index")) =>
              Place(n, c, p).owner = "m"
         /\ p \in Dims /\ scene[n] \notin {"quadmesh"}
              /\ ~ (scene[n] = "quadvar" /\ p = "min_index") => Place(n, c, p).owner = n
         /\ Place(n, c, p).owner = c => scene[n] \in CompKinds /\ p \in Arrays
BY CompApart DEF Place, Owner, At, Loose, Times, Dims, Arrays, Names

\* What db_pdb_PutXxx does to the directory.
LEMMA PdbWrites ==
  ASSUME TypeInv, NEW n \in Names, NEW in, NEW c, PdbPut(n, in, c)
  PROVE  LET written == InitWrites(n, in) \cup OwnWrites(n, in, c) IN
         /\ DOMAIN disk' = DOMAIN disk \cup written
         /\ \A at \in written : disk'[at] \in {No, Wrong}
         /\ \A at \in DOMAIN disk \ written :
              disk'[at] = disk[at] \/ (at \in WrongAt(n) /\ disk'[at] = Wrong)
         /\ \A at \in written : disk'[at] = Wrong /\ No # Wrong => faults' > 0 \/ at \in WrongAt(n)
         /\ faults' \in {faults, faults + 1}
<1> DEFINE written == InitWrites(n, in) \cup OwnWrites(n, in, c)
<1>1. PICK refused \in {{}} \cup IF faults < MaxFaults THEN {{at} : at \in written} ELSE {} :
           /\ disk' = [at \in DOMAIN disk \cup written |->
                         IF at \in refused \cup WrongAt(n) THEN Wrong
                         ELSE IF at \in written THEN No ELSE disk[at]]
           /\ faults' = IF refused = {} THEN faults ELSE faults + 1
  BY DEF PdbPut
<1> HIDE DEF written
<1>2. refused = {} \/ faults' = faults + 1
  BY <1>1
<1>3. refused \subseteq written /\ faults \in Nat
  BY <1>1 DEF TypeInv
<1>4. DOMAIN disk' = DOMAIN disk \cup written
  BY <1>1
<1>5. \A at \in DOMAIN disk \cup written :
         disk'[at] = IF at \in refused \cup WrongAt(n) THEN Wrong
                     ELSE IF at \in written THEN No ELSE disk[at]
  BY <1>1
<1>6. faults + 1 > 0
  BY <1>3
<1> QED
  BY <1>1, <1>2, <1>3, <1>4, <1>5, <1>6 DEF written

\* What a db_Init function writes is of the directory or of the mesh.
LEMMA InitPlaces ==
  ASSUME NEW n \in Names, NEW in, NEW at \in InitWrites(n, in)
  PROVE  \/ \E t \in in \cap Times : at = At("dir", t)
         \/ /\ scene[n] \in QuadKinds /\ At("m", "dims") \notin DOMAIN disk
            /\ \E d \in Dims : at = At("m", d)
         \/ at = At("m", "align")
BY DEF InitWrites, Shared, Initialised, At

\* What else a call writes is of the object or of the component it names.
LEMMA PdbPlaces ==
  ASSUME driver = "pdb", NEW n \in Names, NEW in, NEW c \in Components(n), NEW at
  PROVE  /\ at \in OwnWrites(n, in, c) =>
              /\ at = Place(n, c, at.piece) /\ at = At(at.owner, at.piece)
              /\ \/ at.owner = n
                 \/ at.owner = c /\ c \in Comps /\ at.piece \in Arrays
              /\ at.piece \in HeadOf(n, in) /\ ~ Literal(scene[n], at.piece)
              /\ ~ (scene[n] = "quadmesh" /\ at.piece \in Dims)
         /\ at \in WrongAt(n) =>
              /\ at = At(n, "extents") /\ scene[n] = "quadmesh" /\ At("m", "dims") \in DOMAIN disk
<1>1. at \in OwnWrites(n, in, c) =>
              /\ at = Place(n, c, at.piece) /\ at = At(at.owner, at.piece)
              /\ \/ at.owner = n
                 \/ at.owner = c /\ c \in Comps /\ at.piece \in Arrays
              /\ at.piece \in HeadOf(n, in) /\ ~ Literal(scene[n], at.piece)
              /\ ~ (scene[n] = "quadmesh" /\ at.piece \in Dims)
  <2> SUFFICES ASSUME at \in OwnWrites(n, in, c)
               PROVE  /\ at = Place(n, c, at.piece) /\ at = At(at.owner, at.piece)
                      /\ \/ at.owner = n
                         \/ at.owner = c /\ c \in Comps /\ at.piece \in Arrays
                      /\ at.piece \in HeadOf(n, in) /\ ~ Literal(scene[n], at.piece)
                      /\ ~ (scene[n] = "quadmesh" /\ at.piece \in Dims)
    OBVIOUS
  <2>1. PICK p \in HeadOf(n, in) : ~ Literal(scene[n], p) /\ at = Place(n, c, p)
    BY DEF OwnWrites, Places
  <2>2. at.owner \in {n, c} /\ at.piece \notin IF scene[n] = "quadmesh" THEN Dims ELSE {}
    BY DEF OwnWrites
  <2>3. at.piece = p /\ at = At(at.owner, p)
    BY <2>1, Places1
  <2>4. at.owner = c => p \in Arrays /\ c \in Comps
    BY <2>1, Places1, CompApart
  <2> QED
    BY <2>1, <2>2, <2>3, <2>4
<1>2. at \in WrongAt(n) =>
              /\ at = At(n, "extents") /\ scene[n] = "quadmesh" /\ At("m", "dims") \in DOMAIN disk
  BY DEF WrongAt, KnownQuad, Initialised, QuadKinds, UcdKinds, At
<1> QED
  BY <1>1, <1>2

LEMMA NamedKept ==
  ASSUME TypeInv, LeftInv, NamedInv, NEW n \in Names, NEW in \in Supply(scene[n]),
         NEW c \in Components(n), PdbPut(n, in, c)
  PROVE  NamedInv'
<1> DEFINE h == [made |-> TRUE, attr |-> TRUE, typed |-> TRUE, no |-> No, comp |-> c,
                 first |-> {}, names |-> HeadOf(n, in)]
           written == InitWrites(n, in) \cup OwnWrites(n, in, c)
<1>1. driver = "pdb" /\ Call(n, in, c) /\ heads' = [heads EXCEPT ![n] = h] /\ scene[n] \in Kinds
  BY SceneKinds DEF PdbPut
<1>2. /\ Len(calls) \in Nat /\ No = Len(calls) + 1 /\ Len(calls') = No
      /\ No \in 1 .. Len(calls') /\ calls'[No].name = n /\ calls'[No].comp = c
      /\ \A i \in 1 .. Len(calls) : calls'[i] = calls[i]
      /\ UNCHANGED <<driver, scene>>
  BY <1>1, Called
<1>3. No > 0 /\ \A m \in Names : heads[m].no \in 0 .. Len(calls)
  BY <1>2 DEF TypeInv
<1>4. \A m \in Names : heads'[m] = IF m = n THEN h ELSE heads[m]
  BY <1>1 DEF TypeInv
<1>5. h.made /\ h.attr /\ h.typed /\ h.no = No /\ h.names = HeadOf(n, in) /\ h.comp = c
  OBVIOUS
<1> HIDE DEF h
<1>6. "align" \notin HeadOf(n, in)
  BY <1>1, PdbPuts DEF HeadOf
<1>7. /\ DOMAIN disk' = DOMAIN disk \cup written
      /\ \A at \in written : disk'[at] \in {No, Wrong}
      /\ \A at \in DOMAIN disk \ written :
           disk'[at] = disk[at] \/ (at \in WrongAt(n) /\ disk'[at] = Wrong)
  BY PdbWrites
<1> HIDE DEF written
<1>8. /\ \A m \in Names \ {n} : \A p : Held(m, p)' = Held(m, p)
      /\ \A p : Held(n, p)' = Place(n, c, p)
      /\ \A m \in Names : scene'[m] = scene[m] /\ Components(m)' = Components(m)
  BY <1>2, <1>4, <1>5 DEF Held, Place, Components
<1>9. ASSUME NEW p \in HeadOf(n, in) \ Loose, ~ Literal(scene[n], p)
      PROVE  Place(n, c, p) \in DOMAIN disk' /\ disk'[Place(n, c, p)] \in {No, Wrong}
  <2>1. Place(n, c, p).owner \in {n, c} /\ Place(n, c, p).piece = p /\ p \notin Dims
    BY <1>9, Places1 DEF Loose
  <2>2. Place(n, c, p) \in OwnWrites(n, in, c)
    BY <1>9, <2>1 DEF OwnWrites, Places
  <2> QED
    BY <1>7, <2>2 DEF written
<1>10. ASSUME NEW m \in Names, m # n, NEW p \in heads[m].names \ Loose, ~ Literal(scene[m], p)
       PROVE  /\ Held(m, p) \in DOMAIN disk'
              /\ \A v : v = disk'[Held(m, p)] => v \in {heads[m].no, Wrong} \/ Later(m, p, v)'
  <2>1. /\ Held(m, p) \in DOMAIN disk /\ p # "align" /\ heads[m].comp \in Components(m)
        /\ disk[Held(m, p)] \in {heads[m].no, Wrong} \/ Later(m, p, disk[Held(m, p)])
    BY <1>1, <1>10 DEF NamedInv
  <2>2. /\ Held(m, p).owner = IF scene[m] \in CompKinds /\ p \in Arrays THEN heads[m].comp ELSE m
        /\ Held(m, p).piece = p /\ p \notin Times /\ p \notin Dims
    BY <1>10, <2>1, Places1 DEF Loose, Held
  <2>3. /\ Held(m, p).owner # n /\ Held(m, p).owner # "dir"
        /\ Held(m, p).owner = "m" => m = "m"
    BY <1>10, <2>1, <2>2, CompApart DEF Names
  <2>4. Held(m, p) \notin InitWrites(n, in)
    <3> SUFFICES ASSUME Held(m, p) \in InitWrites(n, in) PROVE FALSE
      OBVIOUS
    <3>1. \/ \E t \in in \cap Times : Held(m, p) = At("dir", t)
          \/ \E d \in Dims : Held(m, p) = At("m", d)
          \/ Held(m, p) = At("m", "align")
      BY InitPlaces
    <3> QED
      BY <2>1, <2>2, <2>3, <3>1 DEF At
  <2>8. Held(m, p) \notin WrongAt(n)
    BY <1>1, <2>3, PdbPlaces DEF At
  <2>5. OfComponent(m, p)' = OfComponent(m, p) /\ heads'[m] = heads[m]
    BY <1>2, <1>4, <1>10 DEF OfComponent
  <2>6. CASE Held(m, p) \in OwnWrites(n, in, c)
    <3>1. Held(m, p).owner = c /\ c \in Comps
      BY <1>1, <2>3, <2>6, PdbPlaces
    <3>2. m # c
      BY CompApart
    <3>3. OfComponent(m, p) /\ heads[m].comp = c
      BY <1>1, <2>2, <3>1, <3>2 DEF OfComponent
    <3>4. disk'[Held(m, p)] \in {No, Wrong}
      BY <1>7, <2>6 DEF written
    <3>5. No > heads[m].no
      BY <1>2, <1>3
    <3>6. ASSUME NEW v, v = No PROVE Later(m, p, v)'
      <4>1. v \in 1 .. Len(calls') /\ calls'[v].name # m /\ calls'[v].comp = heads'[m].comp
        BY <1>2, <1>10, <2>5, <3>3, <3>6
      <4>2. v > heads'[m].no
        BY <2>5, <3>5, <3>6
      <4> QED
        BY <2>5, <3>3, <4>1, <4>2 DEF Later, SameComponent
    <3> QED
      BY <1>7, <2>1, <3>4, <3>6
  <2>7. CASE Held(m, p) \notin OwnWrites(n, in, c)
    <3>1. disk'[Held(m, p)] = disk[Held(m, p)] /\ Held(m, p) \in DOMAIN disk'
      BY <1>7, <2>1, <2>4, <2>7, <2>8 DEF written
    <3>2. ASSUME NEW v, Later(m, p, v) PROVE Later(m, p, v)'
      <4>1. v \in 1 .. Len(calls') /\ calls'[v] = calls[v]
        BY <1>2, <3>2 DEF Later
      <4> QED
        BY <2>5, <3>2, <4>1 DEF Later, SameComponent
    <3>3. ASSUME NEW v, v = disk'[Held(m, p)]
          PROVE  v \in {heads[m].no, Wrong} \/ Later(m, p, v)'
      <4>1. v = disk[Held(m, p)]
        BY <3>1, <3>3
      <4>2. v \in {heads[m].no, Wrong} \/ Later(m, p, v)
        BY <2>1, <4>1
      <4> QED
        BY <3>2, <4>2
    <3> QED
      BY <3>1, <3>3
  <2> QED
    BY <2>6, <2>7
<1>11. \A m \in Names \ {n} :
         /\ heads[m].made \/ heads[m].names # {} => heads[m].no > 0 /\ heads[m].comp \in Components(m)
         /\ (heads[m].attr <=> heads[m].made) /\ (heads[m].typed <=> heads[m].made)
         /\ "align" \notin heads[m].names
  BY <1>1 DEF NamedInv
<1>12. ASSUME NEW m \in Names, NEW p \in heads'[m].names \ Loose, ~ Literal(scene'[m], p)
       PROVE  /\ Held(m, p)' \in DOMAIN disk'
              /\ \A v : v = disk'[Held(m, p)'] => v \in {heads'[m].no, Wrong} \/ Later(m, p, v)'
  <2>1. CASE m = n
    BY <1>4, <1>5, <1>8, <1>9, <1>12, <2>1
  <2>2. CASE m # n
    BY <1>4, <1>8, <1>10, <1>12, <2>2
  <2> QED
    BY <2>1, <2>2
<1>13. \A m \in Names :
         /\ heads'[m].made \/ heads'[m].names # {} =>
              heads'[m].no > 0 /\ heads'[m].comp \in Components(m)'
         /\ (heads'[m].attr <=> heads'[m].made) /\ (heads'[m].typed <=> heads'[m].made)
         /\ "align" \notin heads'[m].names
  BY <1>3, <1>4, <1>5, <1>6, <1>8, <1>11
<1> QED
  BY <1>12, <1>13 DEF NamedInv, Later, SameComponent, OfComponent

LEMMA DiskKept ==
  ASSUME TypeInv, LeftInv, DiskInv, NEW n \in Names, NEW in \in Supply(scene[n]), NEW c \in Components(n),
         PdbPut(n, in, c)
  PROVE  DiskInv'
<1> DEFINE h == [made |-> TRUE, attr |-> TRUE, typed |-> TRUE, no |-> No, comp |-> c,
                 first |-> {}, names |-> HeadOf(n, in)]
           written == InitWrites(n, in) \cup OwnWrites(n, in, c)
<1>1. driver = "pdb" /\ Call(n, in, c) /\ heads' = [heads EXCEPT ![n] = h] /\ scene[n] \in Kinds
  BY SceneKinds DEF PdbPut
<1>2. /\ Len(calls) \in Nat /\ No = Len(calls) + 1 /\ Len(calls') = No
      /\ No \in 1 .. Len(calls') /\ calls'[No].name = n /\ calls'[No].in = Supplied(n, in)
      /\ calls'[No].comp = c
      /\ \A i \in 1 .. Len(calls) : calls'[i] = calls[i]
      /\ UNCHANGED <<driver, scene>>
  BY <1>1, Called
<1>3. \A m \in Names : heads'[m] = IF m = n THEN h ELSE heads[m]
  BY <1>1 DEF TypeInv
<1>4. h.no = No
  OBVIOUS
<1> HIDE DEF h
<1>5. \A m \in Names : heads[m].no \in 0 .. Len(calls) /\ faults \in Nat
  BY DEF TypeInv
<1>6. /\ DOMAIN disk' = DOMAIN disk \cup written
      /\ \A at \in written : disk'[at] \in {No, Wrong}
      /\ \A at \in DOMAIN disk \ written :
           disk'[at] = disk[at] \/ (at \in WrongAt(n) /\ disk'[at] = Wrong)
      /\ \A at \in written : disk'[at] = Wrong /\ No # Wrong => faults' > 0 \/ at \in WrongAt(n)
      /\ faults' \in {faults, faults + 1}
  BY PdbWrites
<1>7. No # Wrong
  BY <1>2 DEF Wrong
<1>8. \A m \in Names : Sticky(scene[m])' = Sticky(scene[m]) /\ scene'[m] = scene[m]
  BY <1>2 DEF Sticky
<1>9. ASSUME NEW at \in written
      PROVE  /\ at.owner = "dir" => at.piece \in Supplied(n, in)
             /\ at.owner \in Comps => at.piece \in Supplied(n, in) /\ at.owner = c
             /\ \A m \in Names : Of(at, m) =>
                  m = n /\ Comes(calls', Sticky(scene[m]), at.piece, No)
  <2>1. CASE at \in InitWrites(n, in)
    <3>1. PICK t : \/ t \in in \cap Times /\ at = At("dir", t)
                   \/ t \in Dims /\ at = At("m", t)
                   \/ at = At("m", "align")
      BY <2>1, InitPlaces
    <3>2. in \cap Times \subseteq Supplied(n, in)
      BY DEF Supplied, Times
    <3>3. at.owner \notin Comps
      BY <3>1, CompApart DEF At, Names
    <3> QED
      BY <3>1, <3>2, <3>3 DEF At, Of, Names
  <2>2. CASE at \in OwnWrites(n, in, c)
    <3>1. /\ at.piece \in HeadOf(n, in)
          /\ at.owner = n \/ (at.owner = c /\ at.piece \in Arrays)
      BY <1>1, <2>2, PdbPlaces
    <3>2. at.piece \in Given(n, in)
      BY <1>1, <3>1, PdbPuts DEF HeadOf
    <3>3. Comes(calls', Sticky(scene[n]), at.piece, No)
      BY <1>1, <3>2, GivenComes
    <3>4. at.piece \in Arrays => at.piece \in Supplied(n, in)
      BY <3>2 DEF Given, For, LeftInv, Arrays
    <3>5. c \notin Names /\ n \notin Comps /\ c # "dir" /\ n # "dir"
      BY CompApart DEF Names
    <3> QED
      BY <3>1, <3>3, <3>4, <3>5 DEF Of
  <2> QED
    BY <2>1, <2>2
<1>10. ASSUME NEW at \in WrongAt(n)
       PROVE  faults' > 0 \/ (at = At(n, "extents") /\ scene[n] = "quadmesh" /\ No > 1)
  <2>1. at = At(n, "extents") /\ scene[n] = "quadmesh" /\ At("m", "dims") \in DOMAIN disk
    BY <1>1, PdbPlaces
  <2>2. CASE disk[At("m", "dims")] # Wrong
    <3>1. disk[At("m", "dims")] \in 1 .. Len(calls)
      BY <1>1, <2>1, <2>2 DEF DiskInv
    <3>2. No > 1
      BY <1>2, <3>1
    <3> QED
      BY <2>1, <3>2
  <2>3. CASE disk[At("m", "dims")] = Wrong
    <3>1. faults > 0
      BY <1>1, <2>1, <2>3 DEF DiskInv, At
    <3> QED
      BY <1>5, <1>6, <3>1
  <2> QED
    BY <2>2, <2>3
<1> HIDE DEF written
<1>11. ASSUME NEW at \in DOMAIN disk', disk'[at] # Wrong
       PROVE  /\ disk'[at] \in 1 .. Len(calls')
              /\ at.owner = "dir" => at.piece \in calls'[disk'[at]].in
              /\ at.owner \in Comps =>
                   at.piece \in calls'[disk'[at]].in /\ calls'[disk'[at]].comp = at.owner
              /\ \A m \in Names : Of(at, m) =>
                   /\ calls'[disk'[at]].name = m
                   /\ Comes(calls', Sticky(scene[m]), at.piece, disk'[at])
  <2>1. CASE at \in written
    BY <1>2, <1>6, <1>9, <1>11, <2>1
  <2>2. CASE at \notin written
    <3>1. at \in DOMAIN disk /\ disk'[at] = disk[at] /\ disk[at] # Wrong
      BY <1>6, <1>11, <2>2
    <3>2. /\ disk[at] \in 1 .. Len(calls)
          /\ at.owner = "dir" => at.piece \in calls[disk[at]].in
          /\ at.owner \in Comps =>
               at.piece \in calls[disk[at]].in /\ calls[disk[at]].comp = at.owner
          /\ \A m \in Names : Of(at, m) =>
               /\ calls[disk[at]].name = m
               /\ Comes(calls, Sticky(scene[m]), at.piece, disk[at])
      BY <1>1, <3>1 DEF DiskInv
    <3>3. calls'[disk[at]] = calls[disk[at]] /\ disk[at] \in 1 .. Len(calls')
      BY <1>2, <3>2
    <3>4. \A m \in Names : Of(at, m) => Comes(calls', Sticky(scene[m]), at.piece, disk[at])
      BY <1>1, <3>2, StillComes
    <3> QED
      BY <3>1, <3>2, <3>3, <3>4
  <2> QED
    BY <2>1, <2>2
<1>12. ASSUME NEW at \in DOMAIN disk', disk'[at] = Wrong
       PROVE  \/ faults' > 0
              \/ \E m \in Names : at = At(m, "extents") /\ scene[m] = "quadmesh" /\ heads'[m].no > 1
  <2>1. CASE at \in WrongAt(n)
    BY <1>3, <1>4, <1>10, <2>1
  <2>2. CASE at \notin WrongAt(n) /\ at \in written
    BY <1>6, <1>7, <1>12, <2>2
  <2>3. CASE at \notin WrongAt(n) /\ at \notin written
    <3>1. at \in DOMAIN disk /\ disk[at] = Wrong
      BY <1>6, <1>12, <2>3
    <3>2. CASE faults > 0
      BY <1>5, <1>6, <3>2
    <3>3. CASE \E m \in Names : at = At(m, "extents") /\ scene[m] = "quadmesh" /\ heads[m].no > 1
      BY <1>2, <1>3, <1>4, <1>5, <3>3
    <3> QED
      BY <1>1, <3>1, <3>2, <3>3 DEF DiskInv
  <2> QED
    BY <2>1, <2>2, <2>3
<1> QED
  BY <1>8, <1>11, <1>12 DEF DiskInv

\* After a call for a quad mesh or a variable of it, its dimensions are there.
LEMMA DimsWritten ==
  ASSUME TypeInv, MeshInv, NEW n \in Names, NEW in, NEW c \in Components(n), PdbPut(n, in, c),
         scene["m"] = "quadmesh"
  PROVE  /\ scene[n] \in QuadKinds => \A d \in Dims : At("m", d) \in DOMAIN disk'
         /\ scene[n] \notin QuadKinds =>
              \A d \in Dims : At("m", d) \in DOMAIN disk' <=> At("m", d) \in DOMAIN disk
<1>1. driver = "pdb" /\ DOMAIN disk' = DOMAIN disk \cup InitWrites(n, in) \cup OwnWrites(n, in, c)
  BY PdbWrites DEF PdbPut
<1>2. ASSUME scene[n] \in QuadKinds, NEW d \in Dims PROVE At("m", d) \in DOMAIN disk'
  <2>1. CASE At("m", "dims") \in DOMAIN disk
    BY <1>1, <2>1 DEF MeshInv
  <2>2. CASE At("m", "dims") \notin DOMAIN disk
    <3>1. ~ Initialised(n)
      BY <1>2, <2>2 DEF Initialised, QuadKinds, UcdKinds, At
    <3>2. At("m", d) \in InitWrites(n, in)
      BY <1>2, <3>1 DEF InitWrites, Shared, At
    <3> QED
      BY <1>1, <3>2
  <2> QED
    BY <2>1, <2>2
<1>3. ASSUME scene[n] \notin QuadKinds, NEW d \in Dims
      PROVE  At("m", d) \in DOMAIN disk' <=> At("m", d) \in DOMAIN disk
  <2>1. n # "m"
    BY <1>3 DEF QuadKinds
  <2>2. At("m", d) \notin OwnWrites(n, in, c)
    <3>1. "m" # c
      BY CompApart DEF Names
    <3> QED
      BY <1>1, <2>1, <3>1, PdbPlaces DEF At
  <2>3. At("m", d) \notin InitWrites(n, in)
    BY <1>1, <1>3, InitPlaces DEF At, Dims
  <2> QED
    BY <1>1, <2>2, <2>3
<1> QED
  BY <1>2, <1>3

LEMMA MeshKept ==
  ASSUME TypeInv, LeftInv, MeshInv, NEW n \in Names, NEW in \in Supply(scene[n]), NEW c \in Components(n),
         PdbPut(n, in, c)
  PROVE  MeshInv'
<1>1. /\ driver = "pdb" /\ UNCHANGED <<driver, scene>> /\ "dims" \in Dims
      /\ \A m \in Names : m # n => heads'[m] = heads[m]
  BY Called DEF PdbPut, TypeInv, Dims
<1>2. SUFFICES ASSUME scene["m"] = "quadmesh"
               PROVE  /\ \A d \in Dims : At("m", d) \in DOMAIN disk' <=> At("m", "dims") \in DOMAIN disk'
                      /\ heads'["m"].made => At("m", "dims") \in DOMAIN disk'
                      /\ scene["v"] = "quadvar" /\ heads'["v"].made => At("m", "dims") \in DOMAIN disk'
  BY <1>1 DEF MeshInv
<1>3. CASE scene[n] \in QuadKinds
  BY <1>1, <1>2, <1>3, DimsWritten
<1>4. CASE scene[n] \notin QuadKinds
  <2>1. n = "v" /\ scene["v"] # "quadvar"
    BY <1>2, <1>4 DEF QuadKinds, Names
  <2> QED
    BY <1>1, <1>2, <1>4, <2>1, DimsWritten DEF MeshInv, Names
<1> QED
  BY <1>3, <1>4

StoreInv == TypeInv /\ LeftInv /\ HeadInv /\ NamedInv /\ DiskInv /\ MeshInv

LEMMA StoreInitially == Init => StoreInv
<1> SUFFICES ASSUME Init PROVE StoreInv
  OBVIOUS
<1>1. calls = <<>> /\ Len(calls) = 0 /\ calls \in Seq(CallRec) /\ DOMAIN disk = {}
  BY EmptySeq DEF Init
<1>2. /\ DOMAIN NoHead = Fields /\ NoHead.no = 0 /\ NoHead.names = {}
      /\ ~ NoHead.made /\ ~ NoHead.attr /\ ~ NoHead.typed
  BY DEF NoHead, Fields
<1>3. \A n \in Names : heads[n] = NoHead
  BY DEF Init
<1>4. TypeInv
  BY <1>1, <1>2, <1>3 DEF Init, TypeInv
<1>5. LeftInv
  BY <1>1 DEF Init, LeftInv, Globals
<1>6. HeadInv /\ NamedInv /\ MeshInv
  BY <1>1, <1>2, <1>3 DEF HeadInv, NamedInv, MeshInv, Names
<1>7. DiskInv
  BY <1>1 DEF DiskInv
<1> QED
  BY <1>4, <1>5, <1>6, <1>7 DEF StoreInv

\* A step that makes no call.
LEMMA NoCall ==
  ASSUME StoreInv, UNCHANGED <<driver, scene, disk, heads, calls, faults>>,
         left' = left \/ left' = [global \in Globals |-> {}]
  PROVE  StoreInv'
<1>1. /\ \A n : Sticky(scene[n])' = Sticky(scene[n])
      /\ \A n, p : Held(n, p)' = Held(n, p)
      /\ \A n, p, v : Later(n, p, v)' = Later(n, p, v)
      /\ \A n : Components(n)' = Components(n)
  BY DEF Sticky, Held, Place, Later, OfComponent, SameComponent, Components
<1>2. TypeInv' /\ LeftInv'
  BY DEF StoreInv, TypeInv, LeftInv, Globals
<1>3. HeadInv' /\ DiskInv'
  BY <1>1 DEF StoreInv, HeadInv, DiskInv
<1>4. NamedInv' /\ MeshInv'
  BY <1>1 DEF StoreInv, NamedInv, MeshInv
<1> QED
  BY <1>2, <1>3, <1>4 DEF StoreInv

LEMMA Hdf5Steps ==
  ASSUME StoreInv, NEW n \in Names, NEW in \in Supply(scene[n]), NEW c \in Components(n),
         Hdf5Put(n, in, c) \/ Hdf5PutFails(n, in, c)
  PROVE  NamedInv' /\ DiskInv' /\ MeshInv'
<1>1. driver = "hdf5" /\ Call(n, in, c) /\ disk' = disk
  BY DEF Hdf5Put, Hdf5PutFails
<1>2. driver' = "hdf5"
  BY <1>1 DEF Call
<1> QED
  BY <1>2 DEF NamedInv, DiskInv, MeshInv

LEMMA StoreKept == StoreInv /\ [Next]_vars => StoreInv'
<1> SUFFICES ASSUME StoreInv, [Next]_vars PROVE StoreInv'
  OBVIOUS
<1>1. CASE UNCHANGED vars
  BY <1>1, NoCall DEF vars
<1>2. CASE SetAllowOverwrites
  BY <1>2, NoCall DEF SetAllowOverwrites
<1>3. CASE Restart
  BY <1>3, NoCall DEF Restart
<1>4. ASSUME NEW n \in Names, NEW in \in Supply(scene[n]), NEW c \in Components(n),
         Put(n, in, c) PROVE StoreInv'
  <2>1. TypeInv' /\ LeftInv' /\ HeadInv'
    BY <1>4, PutKeeps DEF StoreInv
  <2>2. CASE PdbPut(n, in, c)
    BY <1>4, <2>1, <2>2, NamedKept, DiskKept, MeshKept DEF StoreInv
  <2>3. CASE Hdf5Put(n, in, c) \/ Hdf5PutFails(n, in, c)
    BY <1>4, <2>1, <2>3, Hdf5Steps DEF StoreInv
  <2> QED
    BY <1>4, <2>2, <2>3 DEF Put
<1> QED
  BY <1>1, <1>2, <1>3, <1>4 DEF Next

LEMMA StoreInvariant == Spec => []StoreInv
BY StoreInitially, StoreKept, PTL DEF Spec

-----------------------------------------------------------------------------
(* What an object gives back.                                              *)

\* A piece that is read is named by the header, extensive apart; of a PDB
\* file, a variable that is read is there.
LEMMA GotNamed ==
  ASSUME StoreInv, NEW n \in Names, NEW p \in Got(n)
  PROVE  /\ p \in heads[n].names
              \/ (p = "extensive" /\ "conserved" \in heads[n].names /\ driver = "pdb")
         /\ driver = "pdb" /\ ~ Literal(scene[n], p) =>
              p \in heads[n].names /\ Held(n, p) \in DOMAIN disk
         /\ heads[n].made /\ heads[n].attr /\ heads[n].typed
<1>1. scene[n] \in Kinds /\ Readable(n)
  BY SceneKinds DEF StoreInv, Got
<1>2. CASE driver = "hdf5"
  <2>1. p \in H!GetObject(scene[n], heads[n].names)
    BY <1>1, <1>2 DEF Got
  <2> QED
    BY <1>1, <1>2, <2>1, Hdf5Gets DEF Readable
<1>3. CASE driver = "pdb"
  <2> DEFINE s == {piece \in heads[n].names : \/ Literal(scene[n], piece)
                                             \/ Held(n, piece) \in DOMAIN disk}
  <2>1. p \in P!GetObject(scene[n], s)
    BY <1>1, <1>3 DEF Got
  <2>2. p \in s \/ (p = "extensive" /\ "conserved" \in s)
    BY <1>1, <2>1, PdbGets
  <2>3. Literal(scene[n], "extensive")
    BY DEF Literal, Scalars
  <2> QED
    BY <1>1, <1>3, <2>2, <2>3 DEF Readable
<1> QED
  BY <1>2, <1>3 DEF StoreInv, TypeInv

LEMMA LooseTimes == Loose = Times \cup Dims /\ "extensive" \notin Loose /\ "conserved" \notin Loose
BY DEF Loose, Times, Dims

(* The pieces of an object are all of its last call, but for the arrays of *)
(* a component that a later call for another object named, whatever calls, *)
(* kinds and refused writes: OfOnePut for every instance.                  *)
THEOREM OneCall == Spec => []OfOnePut
<1>1. ASSUME StoreInv, NEW n \in Names, NEW p \in Got(n) \ (Times \cup Dims)
      PROVE  \/ Value(n, p) \in {heads[n].no, Wrong}
             \/ /\ OfComponent(n, p) /\ Value(n, p) > heads[n].no
                /\ SameComponent(n, calls[Value(n, p)])
  <2>1. CASE driver = "pdb" /\ ~ Literal(scene[n], p)
    <3>1. p \in heads[n].names \ Loose
      BY <1>1, <2>1, GotNamed DEF Loose
    <3>2. disk[Held(n, p)] \in {heads[n].no, Wrong} \/ Later(n, p, disk[Held(n, p)])
      BY <1>1, <2>1, <3>1 DEF StoreInv, NamedInv
    <3> QED
      BY <2>1, <3>2 DEF Value, Later
  <2>2. CASE ~ (driver = "pdb" /\ ~ Literal(scene[n], p))
    BY <2>2 DEF Value
  <2> QED
    BY <2>1, <2>2
<1>2. StoreInv => OfOnePut
  BY <1>1 DEF OfOnePut
<1> QED
  BY <1>2, StoreInvariant, PTL

(* A value that no call supplied is read only after a refused write, or as *)
(* the extents of a quad mesh put again: NothingWrong for every instance.  *)
THEOREM WrongOnlySo == Spec => []NothingWrong
<1>1. ASSUME StoreInv, NEW n \in Names, NEW p \in Got(n), Value(n, p) = Wrong
      PROVE  \/ faults > 0
             \/ driver = "pdb" /\ scene[n] = "quadmesh" /\ p = "extents" /\ heads[n].no > 1
  <2>1. heads[n].made /\ heads[n].attr
    BY <1>1, GotNamed
  <2>2. CASE driver = "pdb" /\ ~ Literal(scene[n], p)
    <3>1. Held(n, p) \in DOMAIN disk /\ disk[Held(n, p)] = Wrong
      BY <1>1, <2>2, GotNamed DEF Value
    <3>2. \/ faults > 0
          \/ \E m \in Names : Held(n, p) = At(m, "extents") /\ scene[m] = "quadmesh"
                                /\ heads[m].no > 1
      BY <1>1, <2>2, <3>1 DEF StoreInv, DiskInv
    <3>3. ASSUME NEW m \in Names, Held(n, p) = At(m, "extents") PROVE p = "extents" /\ m = n
      <4>1. heads[n].comp \in Components(n)
        BY <1>1, <2>1, <2>2 DEF StoreInv, NamedInv
      <4>2. p = "extents" /\ Held(n, p).owner = m
        BY <3>3, <4>1, Places1 DEF At, Held
      <4> QED
        BY <4>1, <4>2, Places1 DEF Held, Loose, Times, Dims, Arrays
    <3> QED
      BY <2>2, <3>2, <3>3
  <2>3. CASE ~ (driver = "pdb" /\ ~ Literal(scene[n], p))
    <3>1. heads[n].no = 0
      BY <1>1, <2>3 DEF Value, Wrong
    <3> QED
      BY <1>1, <2>1, <3>1 DEF StoreInv, HeadInv
  <2> QED
    BY <2>2, <2>3
<1>2. StoreInv => NothingWrong
  BY <1>1 DEF NothingWrong
<1> QED
  BY <1>2, StoreInvariant, PTL

(* Every value that is read was supplied for its piece, by a call for its  *)
(* object or with its component, unless it is the time of the directory:   *)
(* FromACall for every instance.                                           *)
THEOREM AllSupplied == Spec => []FromACall
<1>1. ASSUME StoreInv, NEW n \in Names, NEW p \in Got(n) \ Dims, Value(n, p) # Wrong
      PROVE  LET call == calls[Value(n, p)]
             IN  /\ \/ p \in call.in
                    \/ p = "extensive" /\ "conserved" \in call.in
                    \/ p \in Sticky(scene[n]) /\ \E i \in 1 .. Value(n, p) : p \in calls[i].in
                 /\ p \notin Times => call.name = n \/ (OfComponent(n, p) /\ SameComponent(n, call))
  <2>1. CASE driver = "pdb" /\ ~ Literal(scene[n], p)
    <3> DEFINE at == Held(n, p)
    <3>1. /\ at \in DOMAIN disk /\ disk[at] # Wrong /\ Value(n, p) = disk[at]
          /\ p \in heads[n].names /\ p # "align" /\ heads[n].comp \in Components(n)
      BY <1>1, <2>1, GotNamed DEF Value, StoreInv, NamedInv
    <3>2. /\ at.piece = p /\ (p \in Times => at.owner = "dir")
          /\ p \notin Times => at.owner = IF scene[n] \in CompKinds /\ p \in Arrays
                                          THEN heads[n].comp ELSE n
      BY <1>1, <3>1, Places1 DEF Loose, Held
    <3>3. /\ at.owner = "dir" => at.piece \in calls[disk[at]].in
          /\ at.owner \in Comps =>
               at.piece \in calls[disk[at]].in /\ calls[disk[at]].comp = at.owner
          /\ Of(at, n) => /\ calls[disk[at]].name = n
                          /\ Comes(calls, Sticky(scene[n]), at.piece, disk[at])
      BY <1>1, <2>1, <3>1 DEF StoreInv, DiskInv
    <3> HIDE DEF at
    <3>4. CASE p \in Times
      BY <3>1, <3>2, <3>3, <3>4
    <3>5. CASE p \notin Times /\ at.owner = n
      <4>1. Of(at, n)
        BY <1>1, <3>1, <3>2, <3>5 DEF Of
      <4> QED
        BY <3>1, <3>2, <3>3, <4>1 DEF Comes
    <3>6. CASE p \notin Times /\ at.owner # n
      <4>1. OfComponent(n, p) /\ at.owner = heads[n].comp /\ heads[n].comp \in Comps
        BY <2>1, <3>1, <3>2, <3>6, CompApart DEF OfComponent
      <4> QED
        BY <3>1, <3>2, <3>3, <4>1 DEF SameComponent
    <3> QED
      BY <3>4, <3>5, <3>6
  <2>2. CASE ~ (driver = "pdb" /\ ~ Literal(scene[n], p))
    <3>1. Value(n, p) = heads[n].no /\ heads[n].no # 0
      BY <1>1, <2>2 DEF Value, Wrong
    <3>2. heads[n].no > 0
      BY <1>1, <3>1 DEF StoreInv, TypeInv
    <3>3. /\ calls[heads[n].no].name = n
          /\ \A q \in heads[n].names : Comes(calls, Sticky(scene[n]), q, heads[n].no)
      BY <1>1, <3>2 DEF StoreInv, HeadInv
    <3>4. p \in heads[n].names \/ (p = "extensive" /\ "conserved" \in heads[n].names)
      BY <1>1, GotNamed
    <3>5. "conserved" \notin Sticky(scene[n])
      BY DEF Sticky, For
    <3> QED
      BY <3>1, <3>3, <3>4, <3>5 DEF Comes
  <2> QED
    BY <2>1, <2>2
<1>2. StoreInv => FromACall
  BY <1>1 DEF FromACall
<1> QED
  BY <1>2, StoreInvariant, PTL

(* The lists of names of a material or a species that are read are of its  *)
(* own call: NamesOfThisCall for every instance.                           *)
THEOREM OwnNames == Spec => []NamesOfThisCall
<1>1. ASSUME StoreInv, NEW n \in Names, faults = 0, heads[n].no > 0,
             scene[n] \in {"material", "matspecies"}, NEW p \in Got(n) \cap NameLists
      PROVE  p \in calls[heads[n].no].in
  <2>1. p \in heads[n].names
    BY <1>1, GotNamed DEF NameLists
  <2> QED
    BY <1>1, <2>1 DEF StoreInv, HeadInv, Listed
<1>2. StoreInv => NamesOfThisCall
  BY <1>1 DEF NamesOfThisCall
<1> QED
  BY <1>2, StoreInvariant, PTL

\* A call for another object changes nothing that a header of the PDB driver
\* names, the time and the arrays of a component that it names apart, and
\* nothing of the header.
LEMMA OthersKept ==
  ASSUME StoreInv, NEW n \in Names, NEW k \in Names, k # n, NEW in, NEW c \in Components(k),
         PdbPut(k, in, c)
  PROVE  /\ driver' = driver /\ scene' = scene /\ heads'[n] = heads[n]
         /\ DOMAIN disk \subseteq DOMAIN disk'
         /\ \A p \in heads[n].names \ Times : Held(n, p) \in DOMAIN disk =>
              \/ disk'[Held(n, p)] = disk[Held(n, p)]
              \/ disk'[Held(n, p)] \in {No, Wrong} /\ OfComponent(n, p) /\ heads[n].comp = c
<1>1. driver = "pdb" /\ driver' = driver /\ scene' = scene /\ heads'[n] = heads[n]
  BY DEF StoreInv, TypeInv, PdbPut, Call
<1>2. TypeInv /\ NamedInv /\ MeshInv
  BY DEF StoreInv
<1>3. DOMAIN disk' = DOMAIN disk \cup (InitWrites(k, in) \cup OwnWrites(k, in, c))
  BY <1>2, PdbWrites
<1>4. ASSUME NEW p \in heads[n].names \ Times, Held(n, p) \in DOMAIN disk
      PROVE  \/ disk'[Held(n, p)] = disk[Held(n, p)]
             \/ disk'[Held(n, p)] \in {No, Wrong} /\ OfComponent(n, p) /\ heads[n].comp = c
  <2>1. heads[n].comp \in Components(n) /\ p # "align"
    BY <1>1, <1>2, <1>4 DEF NamedInv
  <2>2. /\ Held(n, p) = At(Held(n, p).owner, p) /\ Held(n, p).piece = p
        /\ Held(n, p).owner \in {"m", n, heads[n].comp} /\ Held(n, p).owner # "dir"
        /\ Held(n, p).owner = heads[n].comp => scene[n] \in CompKinds /\ p \in Arrays
    BY <1>4, <2>1, Places1 DEF Held
  <2>3. heads[n].comp \notin Names /\ c \notin Names
    BY <2>1, CompApart
  <2>4. Held(n, p) \notin WrongAt(k)
    <3>1. p = "extents" => Held(n, p).owner = n
      BY <2>1, Places1 DEF Held, Loose, Times, Dims, Arrays
    <3> QED
      BY <1>1, <2>2, <3>1, PdbPlaces DEF At
  <2>5. Held(n, p) \notin InitWrites(k, in)
    <3> SUFFICES ASSUME Held(n, p) \in InitWrites(k, in) PROVE FALSE
      OBVIOUS
    <3>1. \/ \E t \in in \cap Times : Held(n, p) = At("dir", t)
          \/ /\ scene[k] \in QuadKinds /\ At("m", "dims") \notin DOMAIN disk
             /\ \E d \in Dims : Held(n, p) = At("m", d)
          \/ Held(n, p) = At("m", "align")
      BY InitPlaces
    <3>4. /\ scene[k] \in QuadKinds /\ At("m", "dims") \notin DOMAIN disk
          /\ \E d \in Dims : Held(n, p) = At("m", d)
      BY <2>1, <2>2, <3>1 DEF At
    <3>2. scene["m"] = "quadmesh"
      BY <1>2, <3>4, SceneKinds DEF QuadKinds, Names
    <3> QED
      BY <1>1, <1>2, <1>4, <3>2, <3>4 DEF MeshInv
  <2>6. CASE Held(n, p) \in OwnWrites(k, in, c)
    <3>1. /\ Held(n, p).owner = k \/ Held(n, p).owner = c
          /\ ~ (scene[k] = "quadmesh" /\ p \in Dims)
      BY <1>1, <2>2, <2>6, PdbPlaces
    <3>2. CASE Held(n, p).owner = c
      <4>1. heads[n].comp = c /\ OfComponent(n, p)
        BY <1>1, <2>2, <2>3, <3>2 DEF OfComponent, Names
      <4>2. disk'[Held(n, p)] \in {No, Wrong}
        BY <1>2, <2>6, PdbWrites
      <4> QED
        BY <4>1, <4>2
    <3>3. CASE Held(n, p).owner = k
      <4>1. k = "m" /\ n = "v"
        BY <2>2, <2>3, <3>3 DEF Names
      <4>2. scene["v"] = "quadvar" /\ p = "min_index" /\ scene["m"] = "quadmesh"
        BY <1>2, <1>4, <2>3, <3>3, <4>1, SceneKinds DEF Held, Place, Owner, Names
      <4> QED
        BY <3>1, <4>1, <4>2 DEF Dims
    <3> QED
      BY <3>1, <3>2, <3>3
  <2>7. CASE Held(n, p) \notin OwnWrites(k, in, c)
    BY <1>2, <1>4, <2>4, <2>5, <2>7, PdbWrites
  <2> QED
    BY <2>6, <2>7
<1> QED
  BY <1>1, <1>3, <1>4

LEMMA OthersRead ==
  ASSUME StoreInv, NEW n \in Names, NEW k \in Names, k # n, NEW in, NEW c \in Components(k),
         PdbPut(k, in, c)
  PROVE  /\ Got(n) \subseteq Got(n)'
         /\ \A p \in Got(n) \ Times :
              \/ Value(n, p)' = Value(n, p)
              \/ Value(n, p)' \in {No, Wrong} /\ OfComponent(n, p) /\ heads[n].comp = c
<1> DEFINE Seen(d) == {p \in heads[n].names : Literal(scene[n], p) \/ Held(n, p) \in d}
<1>1. /\ driver = "pdb" /\ driver' = driver /\ scene' = scene /\ heads'[n] = heads[n]
      /\ DOMAIN disk \subseteq DOMAIN disk' /\ scene[n] \in Kinds
      /\ \A p : Held(n, p)' = Held(n, p)
  BY OthersKept, SceneKinds DEF StoreInv, PdbPut, Held, Place
<1>2. CASE ~ Readable(n)
  BY <1>2 DEF Got
<1>3. CASE Readable(n)
  <2>1. Got(n) = P!GetObject(scene[n], Seen(DOMAIN disk))
    BY <1>1, <1>3 DEF Got
  <2>2. Got(n)' = P!GetObject(scene[n], Seen(DOMAIN disk'))
    BY <1>1, <1>3 DEF Got, Readable
  <2>3. Seen(DOMAIN disk) \subseteq Seen(DOMAIN disk')
    BY <1>1
  <2>4. Seen(DOMAIN disk') \ Seen(DOMAIN disk) \subseteq Times \cup Dims \cup {"nnodes"}
    BY <1>1 DEF StoreInv, NamedInv, Loose
  <2> HIDE DEF Seen
  <2>5. Got(n) \subseteq Got(n)'
    BY <1>1, <2>1, <2>2, <2>3, <2>4, PdbLoose
  <2>6. ASSUME NEW p \in Got(n) \ Times
        PROVE  \/ Value(n, p)' = Value(n, p)
               \/ Value(n, p)' \in {No, Wrong} /\ OfComponent(n, p) /\ heads[n].comp = c
    <3>1. CASE Literal(scene[n], p)
      BY <1>1, <3>1 DEF Value
    <3>2. CASE ~ Literal(scene[n], p)
      <4>1. p \in heads[n].names /\ Held(n, p) \in DOMAIN disk
        BY <1>1, <3>2, GotNamed
      <4>2. \/ disk'[Held(n, p)] = disk[Held(n, p)]
            \/ disk'[Held(n, p)] \in {No, Wrong} /\ OfComponent(n, p) /\ heads[n].comp = c
        BY <2>6, <4>1, OthersKept
      <4> QED
        BY <1>1, <3>2, <4>2 DEF Value
    <3> QED
      BY <3>1, <3>2
  <2> QED
    BY <2>5, <2>6
<1> QED
  BY <1>2, <1>3

(* A call, whole or refused, changes what is read of the object it names,  *)
(* and the arrays of the component it names, only: StaysAsPut for every    *)
(* instance.                                                               *)
THEOREM OthersStay == Spec => StaysAsPut
<1> DEFINE Stays == \A n \in Names :
             Readable(n) /\ (calls' = calls \/ calls'[Len(calls')].name # n) =>
               /\ Got(n) \ Times \subseteq Got(n)'
               /\ \A piece \in Got(n) \ Times :
                    \/ Value(n, piece)' = Value(n, piece)
                    \/ /\ calls' # calls /\ Value(n, piece)' \in {No, Wrong}
                       /\ OfComponent(n, piece) /\ SameComponent(n, calls'[No])
<1>1. ASSUME NEW n \in Names, UNCHANGED <<driver, scene, disk>>, heads'[n] = heads[n]
      PROVE  Got(n)' = Got(n) /\ \A p : Value(n, p)' = Value(n, p)
  BY <1>1 DEF Got, Readable, Value, Held, Place
<1>2. StoreInv /\ [Next]_vars => Stays
  <2> SUFFICES ASSUME StoreInv, [Next]_vars PROVE Stays
    OBVIOUS
  <2>1. CASE UNCHANGED vars
    BY <1>1, <2>1 DEF vars
  <2>2. CASE SetAllowOverwrites
    BY <1>1, <2>2 DEF SetAllowOverwrites
  <2>3. CASE Restart
    BY <1>1, <2>3 DEF Restart
  <2>4. ASSUME NEW k \in Names, NEW in \in Supply(scene[k]), NEW c \in Components(k),
         Put(k, in, c) PROVE Stays
    <3>1. TypeInv /\ LeftInv /\ Call(k, in, c)
      BY <2>4 DEF StoreInv, Put, PdbPut, Hdf5Put, Hdf5PutFails
    <3>2. /\ calls'[Len(calls')].name = k /\ calls' # calls
          /\ calls'[No].name = k /\ calls'[No].comp = c
      <4>1. /\ Len(calls) \in Nat /\ Len(calls') = Len(calls) + 1 /\ calls'[Len(calls')].name = k
            /\ calls'[No].name = k /\ calls'[No].comp = c
        BY <3>1, Called
      <4>2. Len(calls') # Len(calls)
        BY <4>1
      <4> QED
        BY <4>1, <4>2
    <3>3. SUFFICES ASSUME NEW n \in Names, n # k
                   PROVE  /\ Got(n) \ Times \subseteq Got(n)'
                          /\ \A p \in Got(n) \ Times :
                               \/ Value(n, p)' = Value(n, p)
                               \/ /\ Value(n, p)' \in {No, Wrong} /\ OfComponent(n, p)
                                  /\ heads[n].comp = c
      BY <3>2 DEF SameComponent
    <3>4. CASE PdbPut(k, in, c)
      BY <3>3, <3>4, OthersRead
    <3>5. CASE Hdf5Put(k, in, c) \/ Hdf5PutFails(k, in, c)
      <4>1. UNCHANGED <<driver, scene, disk>> /\ heads'[n] = heads[n]
        BY <3>1, <3>3, <3>5 DEF Hdf5Put, Hdf5PutFails, Call, TypeInv
      <4> QED
        BY <1>1, <4>1
    <3> QED
      BY <2>4, <3>4, <3>5 DEF Put
  <2> QED
    BY <2>1, <2>2, <2>3, <2>4 DEF Next
<1> HIDE DEF Stays
<1>3. Spec => [][Stays]_vars
  BY <1>2, StoreInvariant, PTL DEF Spec
<1> QED
  BY <1>3 DEF StaysAsPut, Stays

-----------------------------------------------------------------------------
(* What a call supplies comes back: the pieces it puts are those of its    *)
(* kind, and what is read of them is read of more.                         *)

Timed == {"csgmesh", "csgvar", "pointmesh", "pointvar", "quadmesh", "quadvar",
          "ucdmesh", "ucdsubmesh", "ucdvar"}

\* The time is a piece of the objects that have one.
LEMMA TimePieces ==
  ASSUME NEW kind \in Kinds
  PROVE  IF kind \in Timed THEN Times \subseteq Pieces(kind) ELSE Times \cap Pieces(kind) = {}
<1>1. CASE kind = "curve"
  BY <1>1 DEF Timed, Pieces, Counted, Described, Times, Axes, Ghosts, Physics, VarInfo, MeshInfo,
    SubsetInfo, Blocks
<1>2. CASE kind = "csgmesh"
  BY <1>2 DEF Timed, Pieces, Counted, Described, Times, Axes, Ghosts, Physics, VarInfo, MeshInfo,
    SubsetInfo, Blocks
<1>3. CASE kind = "csgvar"
  BY <1>3 DEF Timed, Pieces, Counted, Described, Times, Axes, Ghosts, Physics, VarInfo, MeshInfo,
    SubsetInfo, Blocks
<1>4. CASE kind = "csgzonelist"
  BY <1>4 DEF Timed, Pieces, Counted, Described, Times, Axes, Ghosts, Physics, VarInfo, MeshInfo,
    SubsetInfo, Blocks
<1>5. CASE kind = "defvars"
  BY <1>5 DEF Timed, Pieces, Counted, Described, Times, Axes, Ghosts, Physics, VarInfo, MeshInfo,
    SubsetInfo, Blocks
<1>6. CASE kind = "pointmesh"
  BY <1>6 DEF Timed, Pieces, Counted, Described, Times, Axes, Ghosts, Physics, VarInfo, MeshInfo,
    SubsetInfo, Blocks
<1>7. CASE kind = "pointvar"
  BY <1>7 DEF Timed, Pieces, Counted, Described, Times, Axes, Ghosts, Physics, VarInfo, MeshInfo,
    SubsetInfo, Blocks
<1>8. CASE kind = "quadmesh"
  BY <1>8 DEF Timed, Pieces, Counted, Described, Times, Axes, Ghosts, Physics, VarInfo, MeshInfo,
    SubsetInfo, Blocks
<1>9. CASE kind = "quadvar"
  BY <1>9 DEF Timed, Pieces, Counted, Described, Times, Axes, Ghosts, Physics, VarInfo, MeshInfo,
    SubsetInfo, Blocks
<1>10. CASE kind = "ucdmesh"
  BY <1>10 DEF Timed, Pieces, Counted, Described, Times, Axes, Ghosts, Physics, VarInfo, MeshInfo,
    SubsetInfo, Blocks
<1>11. CASE kind = "ucdsubmesh"
  BY <1>11 DEF Timed, Pieces, Counted, Described, Times, Axes, Ghosts, Physics, VarInfo, MeshInfo,
    SubsetInfo, Blocks
<1>12. CASE kind = "ucdvar"
  BY <1>12 DEF Timed, Pieces, Counted, Described, Times, Axes, Ghosts, Physics, VarInfo, MeshInfo,
    SubsetInfo, Blocks
<1>13. CASE kind = "facelist"
  BY <1>13 DEF Timed, Pieces, Counted, Described, Times, Axes, Ghosts, Physics, VarInfo, MeshInfo,
    SubsetInfo, Blocks
<1>14. CASE kind = "zonelist"
  BY <1>14 DEF Timed, Pieces, Counted, Described, Times, Axes, Ghosts, Physics, VarInfo, MeshInfo,
    SubsetInfo, Blocks
<1>15. CASE kind = "phzonelist"
  BY <1>15 DEF Timed, Pieces, Counted, Described, Times, Axes, Ghosts, Physics, VarInfo, MeshInfo,
    SubsetInfo, Blocks
<1>16. CASE kind = "material"
  BY <1>16 DEF Timed, Pieces, Counted, Described, Times, Axes, Ghosts, Physics, VarInfo, MeshInfo,
    SubsetInfo, Blocks
<1>17. CASE kind = "matspecies"
  BY <1>17 DEF Timed, Pieces, Counted, Described, Times, Axes, Ghosts, Physics, VarInfo, MeshInfo,
    SubsetInfo, Blocks
<1>18. CASE kind = "array"
  BY <1>18 DEF Timed, Pieces, Counted, Described, Times, Axes, Ghosts, Physics, VarInfo, MeshInfo,
    SubsetInfo, Blocks
<1>19. CASE kind = "multimesh"
  BY <1>19 DEF Timed, Pieces, Counted, Described, Times, Axes, Ghosts, Physics, VarInfo, MeshInfo,
    SubsetInfo, Blocks
<1>20. CASE kind = "multimeshadj"
  BY <1>20 DEF Timed, Pieces, Counted, Described, Times, Axes, Ghosts, Physics, VarInfo, MeshInfo,
    SubsetInfo, Blocks
<1>21. CASE kind = "multivar"
  BY <1>21 DEF Timed, Pieces, Counted, Described, Times, Axes, Ghosts, Physics, VarInfo, MeshInfo,
    SubsetInfo, Blocks
<1>22. CASE kind = "multimat"
  BY <1>22 DEF Timed, Pieces, Counted, Described, Times, Axes, Ghosts, Physics, VarInfo, MeshInfo,
    SubsetInfo, Blocks
<1>23. CASE kind = "multimatspecies"
  BY <1>23 DEF Timed, Pieces, Counted, Described, Times, Axes, Ghosts, Physics, VarInfo, MeshInfo,
    SubsetInfo, Blocks
<1>24. CASE kind = "mrgtree"
  BY <1>24 DEF Timed, Pieces, Counted, Described, Times, Axes, Ghosts, Physics, VarInfo, MeshInfo,
    SubsetInfo, Blocks
<1>25. CASE kind = "groupelmap"
  BY <1>25 DEF Timed, Pieces, Counted, Described, Times, Axes, Ghosts, Physics, VarInfo, MeshInfo,
    SubsetInfo, Blocks
<1>26. CASE kind = "mrgvar"
  BY <1>26 DEF Timed, Pieces, Counted, Described, Times, Axes, Ghosts, Physics, VarInfo, MeshInfo,
    SubsetInfo, Blocks
<1> QED BY <1>1, <1>2, <1>3, <1>4, <1>5, <1>6, <1>7, <1>8, <1>9, <1>10, <1>11, <1>12, <1>13, <1>14,
  <1>15, <1>16, <1>17, <1>18, <1>19, <1>20, <1>21, <1>22, <1>23, <1>24, <1>25, <1>26 DEF Kinds

\* An object that has no time puts none.
LEMMA PdbTimeless ==
  ASSUME NEW kind \in Kinds \ Timed, NEW in
  PROVE  P!PutObject(kind, in \ Times) = P!PutObject(kind, in)
<1>1. CASE kind = "curve"
  BY <1>1 DEF P!PutObject, P!PutCurve, P!When, P!Axes, Times
<1>2. CASE kind = "csgzonelist"
  BY <1>2 DEF P!PutObject, P!PutCSGZonelist, Times
<1>3. CASE kind = "defvars"
  BY <1>3 DEF P!PutObject, P!PutDefvars, Times
<1>4. CASE kind = "facelist"
  BY <1>4 DEF P!PutObject, P!PutFacelist, Times
<1>5. CASE kind = "zonelist"
  BY <1>5 DEF P!PutObject, P!PutZonelist2, P!When, Times
<1>6. CASE kind = "phzonelist"
  BY <1>6 DEF P!PutObject, P!PutPHZonelist, P!When, Times
<1>7. CASE kind = "material"
  BY <1>7 DEF P!PutObject, P!PutMaterial, P!When, Times
<1>8. CASE kind = "matspecies"
  BY <1>8 DEF P!PutObject, P!PutMatspecies, P!When, Times
<1>9. CASE kind = "array"
  BY <1>9 DEF P!PutObject, P!PutCompoundarray, Times
<1>10. CASE kind = "multimesh"
  BY <1>10 DEF P!PutObject, P!PutMultimesh, P!When, P!SubsetInfo, P!Blocks, Times
<1>11. CASE kind = "multimeshadj"
  BY <1>11 DEF P!PutObject, P!PutMultimeshadj, P!When, Times
<1>12. CASE kind = "multivar"
  BY <1>12 DEF P!PutObject, P!PutMultivar, P!Physics, P!Blocks, Times
<1>13. CASE kind = "multimat"
  BY <1>13 DEF P!PutObject, P!PutMultimat, P!When, P!Blocks, Times
<1>14. CASE kind = "multimatspecies"
  BY <1>14 DEF P!PutObject, P!PutMultimatspecies, P!When, P!Blocks, Times
<1>15. CASE kind = "mrgtree"
  BY <1>15 DEF P!PutObject, P!PutMrgtree, P!When, Times
<1>16. CASE kind = "groupelmap"
  BY <1>16 DEF P!PutObject, P!PutGroupelmap, P!When, Times
<1>17. CASE kind = "mrgvar"
  BY <1>17 DEF P!PutObject, P!PutMrgvar, Times
<1> QED BY <1>1, <1>2, <1>3, <1>4, <1>5, <1>6, <1>7, <1>8, <1>9, <1>10, <1>11, <1>12, <1>13, <1>14,
  <1>15, <1>16, <1>17 DEF Timed, Kinds

\* An object that has no time puts none.
LEMMA Hdf5Timeless ==
  ASSUME NEW kind \in Kinds \ Timed, NEW in
  PROVE  H!PutObject(kind, in \ Times) = H!PutObject(kind, in)
<1>1. CASE kind = "curve"
  BY <1>1 DEF H!PutObject, H!PutCurve, H!When, H!Axes, Times
<1>2. CASE kind = "csgzonelist"
  BY <1>2 DEF H!PutObject, H!PutCSGZonelist, H!When, Times
<1>3. CASE kind = "defvars"
  BY <1>3 DEF H!PutObject, H!PutDefvars, Times
<1>4. CASE kind = "facelist"
  BY <1>4 DEF H!PutObject, H!PutFacelist, Times
<1>5. CASE kind = "zonelist"
  BY <1>5 DEF H!PutObject, H!PutZonelist2, Times
<1>6. CASE kind = "phzonelist"
  BY <1>6 DEF H!PutObject, H!PutPHZonelist, Times
<1>7. CASE kind = "material"
  BY <1>7 DEF H!PutObject, H!PutMaterial, H!When, Times
<1>8. CASE kind = "matspecies"
  BY <1>8 DEF H!PutObject, H!PutMatspecies, H!When, Times
<1>9. CASE kind = "array"
  BY <1>9 DEF H!PutObject, H!PutCompoundarray, Times
<1>10. CASE kind = "multimesh"
  BY <1>10 DEF H!PutObject, H!PutMultimesh, H!When, H!SubsetInfo, H!Blocks, Times
<1>11. CASE kind = "multimeshadj"
  BY <1>11 DEF H!PutObject, H!PutMultimeshadj, H!When, Times
<1>12. CASE kind = "multivar"
  BY <1>12 DEF H!PutObject, H!PutMultivar, H!Physics, H!Blocks, Times
<1>13. CASE kind = "multimat"
  BY <1>13 DEF H!PutObject, H!PutMultimat, H!When, H!Blocks, Times
<1>14. CASE kind = "multimatspecies"
  BY <1>14 DEF H!PutObject, H!PutMultimatspecies, H!When, H!Blocks, Times
<1>15. CASE kind = "mrgtree"
  BY <1>15 DEF H!PutObject, H!PutMrgtree, H!When, Times
<1>16. CASE kind = "groupelmap"
  BY <1>16 DEF H!PutObject, H!PutGroupelmap, H!When, Times
<1>17. CASE kind = "mrgvar"
  BY <1>17 DEF H!PutObject, H!PutMrgvar, Times
<1> QED BY <1>1, <1>2, <1>3, <1>4, <1>5, <1>6, <1>7, <1>8, <1>9, <1>10, <1>11, <1>12, <1>13, <1>14,
  <1>15, <1>16, <1>17 DEF Timed, Kinds

\* What is read of a header is read of a longer one.
LEMMA Hdf5More ==
  ASSUME NEW kind \in Kinds \ {"curve"}, NEW s, NEW t, s \subseteq t
  PROVE  H!GetObject(kind, s) \subseteq H!GetObject(kind, t)
<1>1. CASE kind = "csgmesh"
  BY <1>1 DEF H!GetObject, H!GetCsgmesh, H!When, H!MeshInfo, H!SubsetInfo, H!Times, H!Axes
<1>2. CASE kind = "csgvar"
  BY <1>2 DEF H!GetObject, H!GetCsgvar, H!Physics, H!VarInfo, H!Times
<1>3. CASE kind = "csgzonelist"
  BY <1>3 DEF H!GetObject, H!GetCSGZonelist
<1>4. CASE kind = "defvars"
  BY <1>4 DEF H!GetObject, H!GetDefvars
<1>5. CASE kind = "pointmesh"
  BY <1>5 DEF H!GetObject, H!GetPointmesh, H!MeshInfo, H!Times, H!Axes
<1>6. CASE kind = "pointvar"
  BY <1>6 DEF H!GetObject, H!GetPointvar, H!When, H!Physics, H!VarInfo, H!Times
<1>7. CASE kind = "quadmesh"
  BY <1>7 DEF H!GetObject, H!GetQuadmesh
<1>8. CASE kind = "quadvar"
  BY <1>8 DEF H!GetObject, H!GetQuadvar
<1>9. CASE kind = "ucdmesh"
  BY <1>9 DEF H!GetObject, H!GetUcdmesh, H!When, H!MeshInfo, H!SubsetInfo, H!Times, H!Axes
<1>10. CASE kind = "ucdsubmesh"
  BY <1>10 DEF H!GetObject, H!GetUcdmesh, H!When, H!MeshInfo, H!SubsetInfo, H!Times, H!Axes
<1>11. CASE kind = "ucdvar"
  BY <1>11 DEF H!GetObject, H!GetUcdvar
<1>12. CASE kind = "facelist"
  BY <1>12 DEF H!GetObject, H!GetFacelist
<1>13. CASE kind = "zonelist"
  BY <1>13 DEF H!GetObject, H!GetZonelist
<1>14. CASE kind = "phzonelist"
  BY <1>14 DEF H!GetObject, H!GetPHZonelist
<1>15. CASE kind = "material"
  BY <1>15 DEF H!GetObject, H!GetMaterial
<1>16. CASE kind = "matspecies"
  BY <1>16 DEF H!GetObject, H!GetMatspecies
<1>17. CASE kind = "array"
  BY <1>17 DEF H!GetObject, H!GetCompoundarray
<1>18. CASE kind = "multimesh"
  BY <1>18 DEF H!GetObject, H!GetMultimesh
<1>19. CASE kind = "multimeshadj"
  BY <1>19 DEF H!GetObject, H!GetMultimeshadj, H!When
<1>20. CASE kind = "multivar"
  BY <1>20 DEF H!GetObject, H!GetMultivar
<1>21. CASE kind = "multimat"
  BY <1>21 DEF H!GetObject, H!GetMultimat
<1>22. CASE kind = "multimatspecies"
  BY <1>22 DEF H!GetObject, H!GetMultimatspecies
<1>23. CASE kind = "mrgtree"
  BY <1>23 DEF H!GetObject, H!GetMrgtree
<1>24. CASE kind = "groupelmap"
  BY <1>24 DEF H!GetObject, H!GetGroupelmap
<1>25. CASE kind = "mrgvar"
  BY <1>25 DEF H!GetObject, H!GetMrgvar
<1> QED BY <1>1, <1>2, <1>3, <1>4, <1>5, <1>6, <1>7, <1>8, <1>9, <1>10, <1>11, <1>12, <1>13, <1>14,
  <1>15, <1>16, <1>17, <1>18, <1>19, <1>20, <1>21, <1>22, <1>23, <1>24, <1>25 DEF Kinds

\* The members that every header of a kind has are read.
LEMMA FixedRead ==
  ASSUME NEW kind \in Kinds, NEW s, Fixed(kind) \subseteq s, NEW p \in Fixed(kind)
  PROVE  p \in H!GetObject(kind, s)
<1>1. CASE kind = "curve"
  BY <1>1 DEF H!GetObject, H!GetCurve, Fixed, For, Dims
<1>2. CASE kind = "csgmesh"
  BY <1>2 DEF H!GetObject, H!GetCsgmesh, H!When, H!MeshInfo, H!SubsetInfo, H!Times, H!Axes, Fixed,
    For, Dims, Times, Axes, Ghosts, Physics, VarInfo, MeshInfo, SubsetInfo, Blocks
<1>3. CASE kind = "csgvar"
  BY <1>3 DEF H!GetObject, H!GetCsgvar, H!Physics, H!VarInfo, H!Times, Fixed, For, Dims, Times,
    Axes, Ghosts, Physics, VarInfo, MeshInfo, SubsetInfo, Blocks
<1>4. CASE kind = "csgzonelist"
  BY <1>4 DEF H!GetObject, H!GetCSGZonelist, Fixed, For, Dims
<1>5. CASE kind = "defvars"
  BY <1>5 DEF H!GetObject, H!GetDefvars, Fixed, For, Dims
<1>6. CASE kind = "pointmesh"
  BY <1>6 DEF H!GetObject, H!GetPointmesh, H!MeshInfo, H!Times, H!Axes, Fixed, For, Dims, Times,
    Axes, Ghosts, Physics, VarInfo, MeshInfo, SubsetInfo, Blocks
<1>7. CASE kind = "pointvar"
  BY <1>7 DEF H!GetObject, H!GetPointvar, H!When, H!Physics, H!VarInfo, H!Times, Fixed, For, Dims
<1>8. CASE kind = "quadmesh"
  BY <1>8 DEF H!GetObject, H!GetQuadmesh, Fixed, For, Dims, Times, Axes, Ghosts, Physics, VarInfo,
    MeshInfo, SubsetInfo, Blocks
<1>9. CASE kind = "quadvar"
  BY <1>9 DEF H!GetObject, H!GetQuadvar, Fixed, For, Dims, Times, Axes, Ghosts, Physics, VarInfo,
    MeshInfo, SubsetInfo, Blocks
<1>10. CASE kind = "ucdmesh"
  BY <1>10 DEF H!GetObject, H!GetUcdmesh, H!When, H!MeshInfo, H!SubsetInfo, H!Times, H!Axes, Fixed,
    For, Dims, Times, Axes, Ghosts, Physics, VarInfo, MeshInfo, SubsetInfo, Blocks
<1>11. CASE kind = "ucdsubmesh"
  BY <1>11 DEF H!GetObject, H!GetUcdmesh, H!When, H!MeshInfo, H!SubsetInfo, H!Times, H!Axes, Fixed,
    For, Dims
<1>12. CASE kind = "ucdvar"
  BY <1>12 DEF H!GetObject, H!GetUcdvar, Fixed, For, Dims
<1>13. CASE kind = "facelist"
  BY <1>13 DEF H!GetObject, H!GetFacelist, Fixed, For, Dims
<1>14. CASE kind = "zonelist"
  BY <1>14 DEF H!GetObject, H!GetZonelist, Fixed, For, Dims
<1>15. CASE kind = "phzonelist"
  BY <1>15 DEF H!GetObject, H!GetPHZonelist, Fixed, For, Dims
<1>16. CASE kind = "material"
  BY <1>16 DEF H!GetObject, H!GetMaterial, Fixed, For, Dims, Times, Axes, Ghosts, Physics, VarInfo,
    MeshInfo, SubsetInfo, Blocks
<1>17. CASE kind = "matspecies"
  BY <1>17 DEF H!GetObject, H!GetMatspecies, Fixed, For, Dims, Times, Axes, Ghosts, Physics,
    VarInfo, MeshInfo, SubsetInfo, Blocks
<1>18. CASE kind = "array"
  BY <1>18 DEF H!GetObject, H!GetCompoundarray, Fixed, For, Dims
<1>19. CASE kind = "multimesh"
  BY <1>19 DEF H!GetObject, H!GetMultimesh, Fixed, For, Dims
<1>20. CASE kind = "multimeshadj"
  BY <1>20 DEF H!GetObject, H!GetMultimeshadj, H!When, Fixed, For, Dims
<1>21. CASE kind = "multivar"
  BY <1>21 DEF H!GetObject, H!GetMultivar, Fixed, For, Dims
<1>22. CASE kind = "multimat"
  BY <1>22 DEF H!GetObject, H!GetMultimat, Fixed, For, Dims
<1>23. CASE kind = "multimatspecies"
  BY <1>23 DEF H!GetObject, H!GetMultimatspecies, Fixed, For, Dims
<1>24. CASE kind = "mrgtree"
  BY <1>24 DEF H!GetObject, H!GetMrgtree, Fixed, For, Dims
<1>25. CASE kind = "groupelmap"
  BY <1>25 DEF H!GetObject, H!GetGroupelmap, Fixed, For, Dims
<1>26. CASE kind = "mrgvar"
  BY <1>26 DEF H!GetObject, H!GetMrgvar, Fixed, For, Dims
<1> QED BY <1>1, <1>2, <1>3, <1>4, <1>5, <1>6, <1>7, <1>8, <1>9, <1>10, <1>11, <1>12, <1>13, <1>14,
  <1>15, <1>16, <1>17, <1>18, <1>19, <1>20, <1>21, <1>22, <1>23, <1>24, <1>25, <1>26 DEF Kinds

\* What a call puts are pieces of its kind.
LEMMA PutsPieces ==
  ASSUME NEW kind \in Kinds, NEW in, in \subseteq Pieces(kind) \cup Times
  PROVE  /\ P!PutObject(kind, in \cap Pieces(kind)) = P!PutObject(kind, in)
         /\ H!PutObject(kind, in \cap Pieces(kind)) = H!PutObject(kind, in)
<1>1. CASE kind \in Timed
  <2>1. in \cap Pieces(kind) = in
    BY <1>1, TimePieces
  <2> QED
    BY <2>1
<1>2. CASE kind \notin Timed
  <2>1. in \cap Pieces(kind) = in \ Times
    BY <1>2, TimePieces
  <2> QED
    BY <1>2, <2>1, PdbTimeless, Hdf5Timeless
<1> QED
  BY <1>1, <1>2

\* What the driver is given, the options that stay set included, is a call
\* that silo.c passes on, as long as no list of names stays set.
LEMMA GivenAccepted ==
  ASSUME TypeInv, LeftInv, faults = 0, NEW n \in Names, NEW in \in Supply(scene[n])
  PROVE  /\ Given(n, in) \subseteq Pieces(scene[n]) \cup Times
         /\ Accepts(scene[n], Given(n, in) \cap Pieces(scene[n]))
         /\ Supplied(n, in) \subseteq Given(n, in)
         /\ scene[n] \notin {"material", "matspecies"} => Given(n, in) = Supplied(n, in)
<1> DEFINE kind == scene[n]
           given == Given(n, in) \cap Pieces(kind)
           own == in \cap Pieces(kind)
<1>1. kind \in Kinds /\ in \subseteq Pieces(kind) \cup Times /\ Accepts(kind, own)
  BY SceneKinds, StoreAssumption
<1>2. /\ left["_ma"] \subseteq {"allowmat0", "guihide"} /\ left["_ms"] \subseteq {"guihide"}
      /\ left["_pm"] \subseteq {"ndims"}
  <2>1. left["_ma"] \cap NameLists = {} /\ left["_ms"] \cap NameLists = {}
    BY DEF LeftInv, Globals
  <2> QED
    BY <2>1 DEF LeftInv, NameLists
<1>3. CASE kind \notin {"material", "matspecies", "pointvar"}
  <2>1. Given(n, in) = in /\ Supplied(n, in) = in
    BY <1>3 DEF Given, Supplied, For
  <2> QED
    BY <1>1, <1>3, <2>1
<1>4. CASE kind = "pointvar"
  <2>1. /\ Supplied(n, in) = (in \ {"ndims"}) \cup left["_pm"]
        /\ Given(n, in) = Supplied(n, in)
    BY <1>4 DEF Given, Supplied, For
  <2>2. "ndims" \in Pieces(kind) /\ "ndims" \notin Counted[kind] /\ "ndims" # "count"
    BY <1>4 DEF Pieces, Counted, Described
  <2>3. \A length \in DOMAIN Measured : length # "ndims" /\ "ndims" \notin Measured[length]
    BY DEF Measured
  <2>4. Accepts(kind, given)
    BY <1>1, <1>2, <1>4, <2>1, <2>2, <2>3 DEF Accepts
  <2> QED
    BY <1>1, <1>2, <1>4, <2>1, <2>2, <2>4
<1>5. CASE kind \in {"material", "matspecies"}
  <2> DEFINE more == For(kind, "material", left["_ma"]) \cup For(kind, "matspecies", left["_ms"])
  <2>1. Supplied(n, in) = in /\ Given(n, in) = in \cup more
    BY <1>5 DEF Given, Supplied
  <2>2. more \subseteq {"allowmat0", "guihide"} /\ more \subseteq Pieces(kind)
    BY <1>2, <1>5 DEF For, Pieces, Described
  <2>3. /\ "guihide" \notin Counted[kind] /\ "allowmat0" \notin Counted[kind]
    BY <1>5 DEF Counted
  <2>4. \A length \in DOMAIN Measured :
           /\ length # "guihide" /\ "guihide" \notin Measured[length]
           /\ length # "allowmat0" /\ "allowmat0" \notin Measured[length]
    BY DEF Measured
  <2> HIDE DEF more
  <2>5. Accepts(kind, given)
    BY <1>1, <1>5, <2>1, <2>2, <2>3, <2>4 DEF Accepts
  <2> QED
    BY <1>1, <1>5, <2>1, <2>2, <2>5
<1> QED
  BY <1>3, <1>4, <1>5

\* So what it puts is read again, whatever the driver loses apart.
LEMMA GivenBack ==
  ASSUME TypeInv, LeftInv, faults = 0, NEW n \in Names, NEW in \in Supply(scene[n]),
         NEW own, own = Supplied(n, in) \cap Pieces(scene[n])
  PROVE  /\ PdbReturned(scene[n], own)
              \subseteq P!GetObject(scene[n], P!PutObject(scene[n], Given(n, in)))
         /\ Hdf5Returned(scene[n], own)
              \subseteq H!GetObject(scene[n], H!PutObject(scene[n], Given(n, in)))
         /\ H!PutObject(scene[n], Given(n, in)) \ Hdf5Lost(scene[n])
              \subseteq H!GetObject(scene[n], H!PutObject(scene[n], Given(n, in)))
<1> DEFINE given == Given(n, in) \cap Pieces(scene[n])
<1>1. scene[n] \in Kinds
  BY SceneKinds
<1>2. /\ P!GetObject(scene[n], P!PutObject(scene[n], Given(n, in))) = PdbReturned(scene[n], given)
      /\ H!GetObject(scene[n], H!PutObject(scene[n], Given(n, in))) = Hdf5Returned(scene[n], given)
      /\ H!PutObject(scene[n], Given(n, in)) \subseteq given
  <2>1. Accepts(scene[n], given) /\ Given(n, in) \subseteq Pieces(scene[n]) \cup Times
    BY GivenAccepted
  <2>2. /\ P!PutObject(scene[n], given) = P!PutObject(scene[n], Given(n, in))
        /\ H!PutObject(scene[n], given) = H!PutObject(scene[n], Given(n, in))
    BY <1>1, <2>1, PutsPieces
  <2> HIDE DEF given
  <2>3. P!GetObject(scene[n], P!PutObject(scene[n], given)) = PdbReturned(scene[n], given)
    BY <1>1, <2>1, PdbRoundTrip
  <2>4. H!GetObject(scene[n], H!PutObject(scene[n], given)) = Hdf5Returned(scene[n], given)
    BY <1>1, <2>1, Hdf5RoundTrip
  <2>5. H!PutObject(scene[n], given) \subseteq given
    BY <1>1, Hdf5Puts
  <2> QED
    BY <2>2, <2>3, <2>4, <2>5
<1>3. PdbReturned(scene[n], own) \subseteq PdbReturned(scene[n], given)
  <2>1. CASE scene[n] \notin {"material", "matspecies"}
    <3>1. own = given
      BY <2>1, GivenAccepted
    <3> QED
      BY <3>1
  <2>2. CASE scene[n] \in {"material", "matspecies"}
    <3>1. own \subseteq given
      BY GivenAccepted
    <3> QED
      BY <2>2, <3>1 DEF PdbReturned, PdbLost, For
  <2> QED
    BY <2>1, <2>2
<1>4. own \subseteq given
  BY GivenAccepted
<1> QED
  BY <1>2, <1>3, <1>4 DEF Hdf5Returned

-----------------------------------------------------------------------------
(* As long as no write is refused, what is read is what was supplied.      *)

\* The first header of an object, whose members every later one has, gives
\* back what it names, what the driver loses apart.
WholeInv ==
  faults = 0 => \A n \in Names : heads[n].no > 0 =>
    /\ Readable(n)
    /\ Kept(n) \subseteq Got(n)
    /\ driver = "hdf5" =>
         heads[n].first \ Hdf5Lost(scene[n]) \subseteq H!GetObject(scene[n], heads[n].first)

\* What the header of an earlier object says stays true of the first one.
LEMMA MembersWhole ==
  ASSUME TypeInv, LeftInv, faults = 0, NEW n \in Names, NEW in \in Supply(scene[n])
  PROVE  /\ Members(n, in) \ Hdf5Lost(scene[n]) \subseteq H!GetObject(scene[n], Members(n, in))
         /\ Hdf5Returned(scene[n], Supplied(n, in) \cap Pieces(scene[n]))
              \subseteq H!GetObject(scene[n], Header(n, in))
<1> DEFINE put == H!PutObject(scene[n], Given(n, in))
           own == Supplied(n, in) \cap Pieces(scene[n])
           old == For(scene[n], "csgvar", left["_um"] \cap ({"use_specmf"} \cup (in \cap {"dtime"})))
           new == For(scene[n], "csgvar", in \cap {"dtime"})
<1>1. scene[n] \in Kinds
  BY SceneKinds
<1>2. Header(n, in) = put \cup old /\ Members(n, in) = put \cup old \cup new \cup Fixed(scene[n])
  BY DEF Header, Members
<1>3. old \subseteq Hdf5Lost(scene[n]) /\ new \subseteq Hdf5Lost(scene[n])
  BY DEF For, Hdf5Lost
<1>4. /\ Hdf5Returned(scene[n], own) \subseteq H!GetObject(scene[n], put)
      /\ put \ Hdf5Lost(scene[n]) \subseteq H!GetObject(scene[n], put)
  BY GivenBack
<1>5. ASSUME scene[n] = "curve" PROVE old = {} /\ new = {} /\ Fixed(scene[n]) = {}
  BY <1>5 DEF For, Fixed
<1> HIDE DEF put, old, new
<1>6. /\ H!GetObject(scene[n], put) \subseteq H!GetObject(scene[n], put \cup old)
      /\ H!GetObject(scene[n], put)
           \subseteq H!GetObject(scene[n], put \cup old \cup new \cup Fixed(scene[n]))
  <2>1. CASE scene[n] = "curve"
    <3>1. put \cup old = put /\ put \cup old \cup new \cup Fixed(scene[n]) = put
      BY <1>5, <2>1
    <3> QED
      BY <3>1
  <2>2. CASE scene[n] # "curve"
    <3>1. \A s, t : s \subseteq t => H!GetObject(scene[n], s) \subseteq H!GetObject(scene[n], t)
      BY <1>1, <2>2, Hdf5More
    <3> QED
      BY <3>1
  <2> QED
    BY <2>1, <2>2
<1>7. Fixed(scene[n]) \subseteq H!GetObject(scene[n], put \cup old \cup new \cup Fixed(scene[n]))
  <2> DEFINE all == put \cup old \cup new \cup Fixed(scene[n])
  <2>1. Fixed(scene[n]) \subseteq all
    OBVIOUS
  <2> HIDE DEF all
  <2>2. \A p \in Fixed(scene[n]) : p \in H!GetObject(scene[n], all)
    BY <1>1, <2>1, FixedRead
  <2> QED
    BY <2>2 DEF all
<1> QED
  BY <1>2, <1>3, <1>4, <1>6, <1>7

LEMMA Hdf5Whole ==
  ASSUME StoreInv, WholeInv, NEW n \in Names, NEW in \in Supply(scene[n]), NEW c \in Components(n),
         Hdf5Put(n, in, c),
         faults = 0
  PROVE  /\ Readable(n)' /\ Kept(n)' \subseteq Got(n)'
         /\ heads'[n].first \ Hdf5Lost(scene[n]) \subseteq H!GetObject(scene[n], heads'[n].first)
<1> DEFINE members == IF heads[n].attr THEN heads[n].first ELSE Members(n, in)
           own == Supplied(n, in) \cap Pieces(scene[n])
<1>1. /\ TypeInv /\ LeftInv /\ driver = "hdf5" /\ driver' = driver /\ scene' = scene
      /\ Call(n, in, c) /\ heads' = [heads EXCEPT ![n] = [Silo(n, in) EXCEPT !.typed = TRUE]]
  BY DEF StoreInv, Hdf5Put, Call
<1>2. /\ heads'[n].made /\ heads'[n].attr /\ heads'[n].typed /\ heads'[n].no = No
      /\ heads'[n].first = members /\ heads'[n].names = Header(n, in) \cap members
  <2>1. DOMAIN heads[n] = Fields /\ DOMAIN heads = Names
    BY <1>1 DEF TypeInv
  <2>2. heads'[n] = [Silo(n, in) EXCEPT !.typed = TRUE]
    BY <1>1, <2>1
  <2> QED
    BY <2>1, <2>2 DEF Silo, Fields
<1>3. calls'[No].in = Supplied(n, in) /\ scene[n] \in Kinds
  BY <1>1, Called, SceneKinds
<1>4. members \ Hdf5Lost(scene[n]) \subseteq H!GetObject(scene[n], members)
  <2>1. CASE heads[n].attr
    <3>1. heads[n].no > 0
      <4>1. heads[n].no # 0 /\ heads[n].no \in 0 .. Len(calls) /\ Len(calls) \in Nat
        BY <1>1, <2>1, LenProperties DEF StoreInv, HeadInv, TypeInv
      <4> QED
        BY <4>1
    <3> QED
      BY <1>1, <2>1, <3>1 DEF WholeInv
  <2>2. CASE ~ heads[n].attr
    BY <1>1, <2>2, MembersWhole
  <2> QED
    BY <2>1, <2>2
<1>5. Hdf5Returned(scene[n], own) \subseteq H!GetObject(scene[n], Header(n, in))
  BY <1>1, MembersWhole
<1> HIDE DEF members
<1>6. Hdf5Returned(scene[n], own) \cap members
        \subseteq H!GetObject(scene[n], Header(n, in) \cap members)
  <2>1. Hdf5Returned(scene[n], own) \cap members \subseteq H!GetObject(scene[n], members)
    BY <1>4 DEF Hdf5Returned
  <2>2. H!GetObject(scene[n], Header(n, in)) \cap H!GetObject(scene[n], members)
          \subseteq H!GetObject(scene[n], Header(n, in) \cap members)
    BY <1>3, Hdf5Meet
  <2> QED
    BY <1>5, <2>1, <2>2
<1>7. Readable(n)'
  BY <1>2 DEF Readable
<1>8. Kept(n)' = Hdf5Returned(scene[n], own) \cap members
  BY <1>1, <1>2, <1>3 DEF Kept
<1>9. Got(n)' = H!GetObject(scene[n], Header(n, in) \cap members)
  BY <1>1, <1>2, <1>7 DEF Got
<1> QED
  BY <1>2, <1>4, <1>6, <1>7, <1>8, <1>9

\* What a call of the PDB driver names is there when it returns, but for the
\* time of an object whose mesh is there already.
LEMMA NamesThere ==
  ASSUME StoreInv, NEW n \in Names, NEW in \in Supply(scene[n]), NEW c \in Components(n),
         PdbPut(n, in, c),
         NEW p \in HeadOf(n, in), ~ Literal(scene[n], p), Place(n, c, p) \notin DOMAIN disk'
  PROVE  p \in Times /\ scene[n] \in QuadKinds \cup UcdKinds \cup {"csgmesh"}
<1>1. /\ TypeInv /\ LeftInv /\ MeshInv /\ scene[n] \in Kinds
      /\ DOMAIN disk' = DOMAIN disk \cup (InitWrites(n, in) \cup OwnWrites(n, in, c))
      /\ p \in Given(n, in)
  <2>1. TypeInv /\ LeftInv /\ MeshInv
    BY DEF StoreInv
  <2>2. scene[n] \in Kinds
    BY <2>1, SceneKinds
  <2>3. p \in Given(n, in)
    BY <2>2, PdbPuts DEF HeadOf
  <2> QED
    BY <2>1, <2>2, <2>3, PdbWrites
<1>2. CASE p \in Times
  <2>1. SUFFICES ASSUME scene[n] \notin QuadKinds \cup UcdKinds \cup {"csgmesh"} PROVE FALSE
    BY <1>2
  <2>2. ~ Initialised(n)
    BY <2>1 DEF Initialised, QuadKinds, UcdKinds
  <2>3. p \in in
    BY <1>1, <1>2 DEF Given, Supplied, For, LeftInv, Times
  <2>4. Place(n, c, p) \in InitWrites(n, in)
    BY <1>2, <2>2, <2>3 DEF InitWrites, Shared, Place, Owner
  <2> QED
    BY <1>1, <2>4
<1>3. CASE p \notin Times
  <2>1. Place(n, c, p).owner \in {n, c} /\ ~ (scene[n] = "quadmesh" /\ p \in Dims) =>
          Place(n, c, p) \in OwnWrites(n, in, c)
    BY Places1 DEF OwnWrites, Places
  <2>2. \/ scene[n] = "quadmesh" /\ p \in Dims
        \/ scene[n] = "quadvar" /\ p = "min_index"
        \/ Place(n, c, p).owner \in {n, c} /\ ~ (scene[n] = "quadmesh" /\ p \in Dims)
    BY <1>3 DEF Place, Owner
  <2>3. CASE \/ scene[n] = "quadmesh" /\ p \in Dims
             \/ scene[n] = "quadvar" /\ p = "min_index"
    <3>1. p \in Dims /\ scene[n] \in QuadKinds /\ Place(n, c, p) = At("m", p)
      BY <2>3, Places1 DEF Dims, QuadKinds
    <3>2. scene["m"] = "quadmesh"
      BY <1>1, <3>1, SceneKinds DEF Names, QuadKinds
    <3> QED
      BY <1>1, <3>1, <3>2, DimsWritten
  <2> QED
    BY <1>1, <2>1, <2>2, <2>3
<1> QED
  BY <1>2, <1>3

LEMMA PdbWhole ==
  ASSUME StoreInv, NEW n \in Names, NEW in \in Supply(scene[n]), NEW c \in Components(n),
         PdbPut(n, in, c), faults = 0
  PROVE  Readable(n)' /\ Kept(n)' \subseteq Got(n)'
<1> DEFINE put == P!PutObject(scene[n], Given(n, in))
           own == Supplied(n, in) \cap Pieces(scene[n])
           seen == {p \in HeadOf(n, in) : Literal(scene[n], p) \/ Place(n, c, p) \in DOMAIN disk'}
           late == {"nnodes"} \cup IF scene[n] \in QuadKinds \cup UcdKinds \cup {"csgmesh"}
                                   THEN Times ELSE {}
<1>1. /\ TypeInv /\ LeftInv /\ driver = "pdb" /\ driver' = driver /\ scene' = scene
      /\ Call(n, in, c)
      /\ heads' = [heads EXCEPT ![n] = [made |-> TRUE, attr |-> TRUE, typed |-> TRUE, no |-> No,
                                        comp |-> c, first |-> {}, names |-> HeadOf(n, in)]]
  BY DEF StoreInv, PdbPut, Call
<1>2. /\ heads'[n].made /\ heads'[n].attr /\ heads'[n].typed /\ heads'[n].no = No
      /\ heads'[n].names = HeadOf(n, in) /\ heads'[n].comp = c
  BY <1>1 DEF TypeInv
<1>3. calls'[No].in = Supplied(n, in) /\ scene[n] \in Kinds
  BY <1>1, Called, SceneKinds
<1>4. Readable(n)'
  BY <1>2 DEF Readable
<1>5. Kept(n)' = PdbReturned(scene[n], own) \ late
  BY <1>1, <1>2, <1>3 DEF Kept
<1>6. Got(n)' = P!GetObject(scene[n], seen)
  BY <1>1, <1>2, <1>4 DEF Got, Held, Place
<1>7. seen \subseteq put /\ put \ seen \subseteq late
  <2>1. \A p \in put : p \in HeadOf(n, in) \/ p = "nnodes"
    BY DEF HeadOf
  <2>2. \A p \in HeadOf(n, in) : p \in seen \/ p \in late
    BY NamesThere
  <2>3. seen \subseteq put
    BY DEF HeadOf
  <2> QED
    BY <2>1, <2>2, <2>3
<1>8. PdbReturned(scene[n], own) \subseteq P!GetObject(scene[n], put)
  BY <1>1, GivenBack
<1>9. late \subseteq Times \cup Dims \cup {"nnodes"}
  OBVIOUS
<1> HIDE DEF put, seen, late
<1>10. P!GetObject(scene[n], seen) = P!GetObject(scene[n], put) \ (put \ seen)
  <2>1. put \ seen \subseteq Times \cup Dims \cup {"nnodes"}
    BY <1>7, <1>9
  <2> QED
    BY <1>3, <1>7, <2>1, PdbLoose
<1> QED
  BY <1>4, <1>5, <1>6, <1>7, <1>8, <1>10

LEMMA WholeKept == StoreInv /\ WholeInv /\ [Next]_vars => WholeInv'
<1> SUFFICES ASSUME StoreInv, WholeInv, [Next]_vars PROVE WholeInv'
  OBVIOUS
<1>1. ASSUME UNCHANGED <<driver, scene, disk, heads, calls, faults>> PROVE WholeInv'
  <2>1. \A n : Readable(n)' = Readable(n) /\ Kept(n)' = Kept(n) /\ Got(n)' = Got(n)
    BY <1>1 DEF Readable, Kept, Got, Held, Place
  <2> QED
    BY <1>1, <2>1 DEF WholeInv
<1>2. CASE UNCHANGED vars
  BY <1>1, <1>2 DEF vars
<1>3. CASE SetAllowOverwrites
  BY <1>1, <1>3 DEF SetAllowOverwrites
<1>4. CASE Restart
  BY <1>1, <1>4 DEF Restart
<1>5. ASSUME NEW k \in Names, NEW in \in Supply(scene[k]), NEW c \in Components(k),
         Put(k, in, c) PROVE WholeInv'
  <2>1. TypeInv /\ LeftInv /\ Call(k, in, c) /\ faults \in Nat /\ driver' = driver /\ scene' = scene
    BY <1>5 DEF StoreInv, TypeInv, Put, PdbPut, Hdf5Put, Hdf5PutFails, Call
  <2>2. SUFFICES ASSUME faults' = 0, NEW n \in Names, heads'[n].no > 0
                 PROVE  /\ Readable(n)' /\ Kept(n)' \subseteq Got(n)'
                        /\ driver = "hdf5" => heads'[n].first \ Hdf5Lost(scene[n])
                             \subseteq H!GetObject(scene[n], heads'[n].first)
    BY <2>1 DEF WholeInv
  <2>3. faults = 0 /\ (PdbPut(k, in, c) \/ Hdf5Put(k, in, c))
    <3>1. PdbPut(k, in, c) => faults' \in {faults, faults + 1}
      BY <2>1, PdbWrites
    <3>2. Hdf5PutFails(k, in, c) => faults' = faults + 1
      BY DEF Hdf5PutFails
    <3>3. Hdf5Put(k, in, c) => faults' = faults
      BY DEF Hdf5Put
    <3> QED
      BY <1>5, <2>1, <2>2, <3>1, <3>2, <3>3 DEF Put
  <2>4. CASE n = k
    <3>1. CASE PdbPut(k, in, c)
      <4>1. driver = "pdb"
        BY <3>1 DEF PdbPut
      <4> QED
        BY <2>3, <2>4, <3>1, <4>1, PdbWhole
    <3>2. CASE Hdf5Put(k, in, c)
      BY <2>3, <2>4, <3>2, Hdf5Whole
    <3> QED
      BY <2>3, <3>1, <3>2
  <2>5. CASE n # k
    <3>1. heads'[n] = heads[n]
      BY <2>1, <2>3, <2>5 DEF TypeInv, PdbPut, Hdf5Put
    <3>2. calls'[heads[n].no] = calls[heads[n].no]
      <4>1. heads[n].no \in 0 .. Len(calls) /\ heads[n].no > 0 /\ Len(calls) \in Nat
        BY <2>1, <2>2, <3>1, Called DEF TypeInv
      <4>2. heads[n].no \in 1 .. Len(calls)
        BY <4>1
      <4> QED
        BY <2>1, <4>2, Called
    <3>3. /\ Readable(n) /\ Kept(n) \subseteq Got(n)
          /\ driver = "hdf5" => heads[n].first \ Hdf5Lost(scene[n])
               \subseteq H!GetObject(scene[n], heads[n].first)
      BY <2>2, <2>3, <3>1 DEF WholeInv
    <3>4. Readable(n)' /\ Kept(n)' = Kept(n)
      BY <2>1, <3>1, <3>2, <3>3 DEF Readable, Kept
    <3>5. Got(n) \subseteq Got(n)'
      <4>1. CASE PdbPut(k, in, c)
        BY <2>5, <4>1, OthersRead
      <4>2. CASE Hdf5Put(k, in, c)
        <5>1. disk' = disk
          BY <4>2 DEF Hdf5Put
        <5> QED
          BY <2>1, <3>1, <5>1 DEF Got, Readable, Held, Place
      <4> QED
        BY <2>3, <4>1, <4>2
    <3> QED
      BY <3>1, <3>3, <3>4, <3>5
  <2> QED
    BY <2>4, <2>5
<1> QED
  BY <1>2, <1>3, <1>4, <1>5 DEF Next

(* As long as no write is refused, an object gives back what its last call *)
(* supplied, what the driver is known to lose apart, however often it and  *)
(* the other object were put before: NothingLost for every instance.       *)
THEOREM AllReturned == Spec => []NothingLost
<1>1. Init => WholeInv
  <2> SUFFICES ASSUME Init, NEW n \in Names PROVE ~ (heads[n].no > 0)
    BY DEF WholeInv
  <2> QED
    BY DEF Init, NoHead
<1>2. WholeInv => NothingLost
  BY DEF WholeInv, NothingLost
<1> QED
  BY <1>1, <1>2, WholeKept, StoreInvariant, PTL DEF Spec
=============================================================================
