--------------------------- MODULE OciRefs_proofs ---------------------------
(***************************************************************************)
(* Reference counting of the OCI registry, for any repositories, tags,     *)
(* blobs and manifests and any nesting of indexes.                         *)
(*                                                                         *)
(* A database is good when its counts are exact, its indexes complete, the *)
(* blobs of its images kept and its tags bound.  Every statement of a      *)
(* transaction takes good databases to good ones; the lemma on Reap is the *)
(* one that needs exact counts and complete indexes together.              *)
(***************************************************************************)
EXTENDS OciRefs, FiniteSetTheorems, TLAPS

Good(d) ==
    /\ d \in DB
    /\ ExactBlobs(d) /\ ExactChildren(d)
    /\ CompleteIndexes(d) /\ KeptBlobs(d) /\ TagsExist(d)

USE RefsAssumption, FiniteAssumption, NoneAssumption, OverlapAssumption

-----------------------------------------------------------------------------
\* Sets of rows and sets of manifests are finite.
LEMMA RowsFinite ==
    /\ \A S \in SUBSET Rows : IsFiniteSet(S) /\ Cardinality(S) \in Nat
    /\ \A S \in SUBSET Manifests : IsFiniteSet(S) /\ Cardinality(S) \in Nat
<1>1. IsFiniteSet(Rows)
  BY FS_Product DEF Rows
<1>2. \A S \in SUBSET Rows : IsFiniteSet(S)
  BY <1>1, FS_Subset
<1>3. \A S \in SUBSET Manifests : IsFiniteSet(S)
  BY FS_Subset
<1> QED
  BY <1>2, <1>3, FS_CardinalityType

\* A repository has as many rows of a set of manifests as the set has.
LEMMA RowsOfRepo ==
    ASSUME NEW r \in Repos, NEW S \in SUBSET Manifests
    PROVE  {r} \X S \in SUBSET Rows /\ Cardinality({r} \X S) = Cardinality(S)
<1>1. {r} \X S \in SUBSET Rows
  BY DEF Rows
<1>2. IsFiniteSet(S) /\ Cardinality(S) \in Nat
  BY RowsFinite
<1>3. IsFiniteSet({r}) /\ Cardinality({r}) = 1
  BY FS_Singleton
<1>4. Cardinality({r} \X S) = 1 * Cardinality(S)
  BY <1>2, <1>3, FS_Product
<1> QED
  BY <1>1, <1>2, <1>4

\* The holders of a blob or a child are rows.
LEMMA HoldersAreRows ==
    ASSUME NEW d \in DB
    PROVE  /\ \A b : BlobHolders(d, b) \in SUBSET Rows
           /\ \A r, c : ChildHolders(d, r, c) \in SUBSET Rows
BY DEF DB, BlobHolders, ChildHolders

-----------------------------------------------------------------------------
\* Linking, and new blob rows, disturb nothing.
LEMMA LinkGood ==
    ASSUME NEW d, Good(d), NEW r \in Repos, NEW bs \in SUBSET Blobs
    PROVE  /\ Good(LinkAll(d, r, bs))
           /\ Good(UpsertZeroRef(d, bs))
<1>0. d \in DB
  BY DEF Good
<1>1. /\ LinkAll(d, r, bs) \in DB
      /\ LinkAll(d, r, bs).manifests = d.manifests
      /\ LinkAll(d, r, bs).mref = d.mref
      /\ LinkAll(d, r, bs).bref = d.bref
      /\ LinkAll(d, r, bs).tags = d.tags
      /\ LinkAll(d, r, bs).blobs = d.blobs
      /\ d.links \subseteq LinkAll(d, r, bs).links
  BY <1>0 DEF LinkAll, DB
<1>2. /\ UpsertZeroRef(d, bs) \in DB
      /\ UpsertZeroRef(d, bs).manifests = d.manifests
      /\ UpsertZeroRef(d, bs).mref = d.mref
      /\ UpsertZeroRef(d, bs).bref = d.bref
      /\ UpsertZeroRef(d, bs).tags = d.tags
      /\ UpsertZeroRef(d, bs).links = d.links
      /\ d.blobs \subseteq UpsertZeroRef(d, bs).blobs
  BY <1>0 DEF UpsertZeroRef, DB
<1>3. ASSUME NEW e \in DB, e.manifests = d.manifests, e.mref = d.mref,
             e.bref = d.bref, e.tags = d.tags,
             d.blobs \subseteq e.blobs, d.links \subseteq e.links
      PROVE  Good(e)
  <2>1. ExactBlobs(e) /\ ExactChildren(e)
    BY <1>3 DEF Good, ExactBlobs, ExactChildren, BlobHolders, ChildHolders
  <2>2. CompleteIndexes(e) /\ TagsExist(e)
    BY <1>3 DEF Good, CompleteIndexes, TagsExist
  <2>3. KeptBlobs(e)
    BY <1>3 DEF Good, KeptBlobs
  <2> QED
    BY <1>3, <2>1, <2>2, <2>3 DEF Good
<1> HIDE DEF LinkAll, UpsertZeroRef
<1> QED
  BY <1>1, <1>2, <1>3

\* Removing a tag, or binding one to a stored manifest.
LEMMA TagGood ==
    ASSUME NEW d, Good(d), NEW ts \in [Repos \X Tags -> Manifests \cup {None}],
           \A r \in Repos, t \in Tags :
              ts[<<r, t>>] # None => <<r, ts[<<r, t>>]>> \in d.manifests
    PROVE  Good([d EXCEPT !.tags = ts])
<1> DEFINE e == [d EXCEPT !.tags = ts]
<1>0. d \in DB
  BY DEF Good
<1>1. /\ e \in DB /\ e.manifests = d.manifests /\ e.mref = d.mref
      /\ e.bref = d.bref /\ e.blobs = d.blobs /\ e.links = d.links
      /\ e.tags = ts
  BY <1>0 DEF DB
<1> HIDE DEF e
<1>2. ExactBlobs(e) /\ ExactChildren(e)
  BY <1>1 DEF Good, ExactBlobs, ExactChildren, BlobHolders, ChildHolders
<1>3. CompleteIndexes(e) /\ KeptBlobs(e)
  BY <1>1 DEF Good, CompleteIndexes, KeptBlobs
<1>4. TagsExist(e)
  BY <1>1 DEF TagsExist
<1>5. Good(e)
  BY <1>1, <1>2, <1>3, <1>4 DEF Good
<1> QED
  BY <1>5 DEF e

\* A new row counts once for everything its body lists.
LEMMA InsertGood ==
    ASSUME NEW d, Good(d), NEW r \in Repos, NEW m \in Manifests,
           CanInsert(d, r, m),
           m \in Images => /\ Refs[m] \subseteq d.blobs
                           /\ {r} \X Refs[m] \subseteq d.links
    PROVE  Good(Insert(d, r, m)) /\ <<r, m>> \in Insert(d, r, m).manifests
<1>1. CASE <<r, m>> \in d.manifests
  BY <1>1 DEF Insert
<1>2. CASE <<r, m>> \notin d.manifests
  <2> DEFINE e == Insert(d, r, m)
  <2>0. d \in DB /\ ExactBlobs(d) /\ ExactChildren(d)
    BY DEF Good
  <2>1. e.manifests = d.manifests \cup {<<r, m>>}
    BY <1>2, <2>0 DEF Insert, DB
  <2>2. e.mref = [x \in Rows |-> IF x[1] = r /\ m \in Index /\ x[2] \in Refs[m]
                                 THEN d.mref[x] + 1 ELSE d.mref[x]]
    BY <1>2, <2>0 DEF Insert, DB
  <2>3. e.bref = [b \in Blobs |-> IF m \notin Index /\ b \in Refs[m]
                                  THEN d.bref[b] + 1 ELSE d.bref[b]]
    BY <1>2, <2>0 DEF Insert, DB
  <2>4. e.tags = d.tags /\ e.blobs = d.blobs /\ e.links = d.links
    BY <1>2, <2>0 DEF Insert, DB
  <2>5. e \in DB
    <3>1. d.mref \in [Rows -> Nat] /\ d.bref \in [Blobs -> Nat]
      BY <2>0 DEF DB
    <3>2. e.mref \in [Rows -> Nat]
      BY <2>2, <3>1
    <3>3. e.bref \in [Blobs -> Nat]
      BY <2>3, <3>1
    <3>4. e.manifests \in SUBSET Rows
      BY <2>0, <2>1 DEF DB, Rows
    <3>5. e = [manifests |-> e.manifests, mref |-> e.mref, tags |-> e.tags,
               blobs |-> e.blobs, bref |-> e.bref, links |-> e.links]
      BY <1>2, <2>0 DEF Insert, DB
    <3> HIDE DEF e
    <3> QED
      BY <2>0, <2>4, <3>2, <3>3, <3>4, <3>5 DEF DB
  <2> HIDE DEF e
  <2>6. ExactBlobs(e)
    <3> SUFFICES ASSUME NEW b \in Blobs
                 PROVE  e.bref[b] = Cardinality(BlobHolders(e, b))
      BY DEF ExactBlobs
    <3> DEFINE H == BlobHolders(d, b)
    <3>1. /\ IsFiniteSet(H) /\ Cardinality(H) \in Nat /\ d.bref[b] = Cardinality(H)
          /\ <<r, m>> \notin H
      BY <1>2, <2>0, HoldersAreRows, RowsFinite DEF ExactBlobs, BlobHolders
    <3>2. Cardinality(H \cup {<<r, m>>}) = Cardinality(H) + 1
      BY <3>1, FS_AddElement
    <3>3. BlobHolders(e, b) = IF m \in Images /\ b \in Refs[m]
                              THEN H \cup {<<r, m>>} ELSE H
      BY <2>1 DEF BlobHolders
    <3> HIDE DEF H
    <3> QED
      BY <2>3, <3>1, <3>2, <3>3 DEF Images
  <2>7. ExactChildren(e)
    <3> SUFFICES ASSUME NEW q \in Repos, NEW c \in Manifests
                 PROVE  e.mref[<<q, c>>] = Cardinality(ChildHolders(e, q, c))
      BY DEF ExactChildren
    <3> DEFINE H == ChildHolders(d, q, c)
    <3>1. /\ IsFiniteSet(H) /\ Cardinality(H) \in Nat
          /\ d.mref[<<q, c>>] = Cardinality(H) /\ <<r, m>> \notin H
      BY <1>2, <2>0, HoldersAreRows, RowsFinite DEF ExactChildren, ChildHolders
    <3>2. Cardinality(H \cup {<<r, m>>}) = Cardinality(H) + 1
      BY <3>1, FS_AddElement
    <3>3. ChildHolders(e, q, c) = IF q = r /\ m \in Index /\ c \in Refs[m]
                                  THEN H \cup {<<r, m>>} ELSE H
      BY <2>1 DEF ChildHolders
    <3>4. e.mref[<<q, c>>] = IF q = r /\ m \in Index /\ c \in Refs[m]
                             THEN d.mref[<<q, c>>] + 1 ELSE d.mref[<<q, c>>]
      BY <2>2 DEF Rows
    <3> HIDE DEF H
    <3> QED
      BY <3>1, <3>2, <3>3, <3>4
  <2>8. CompleteIndexes(e)
    <3>1. m \in Index => {r} \X Refs[m] \subseteq d.manifests
      BY <1>2 DEF CanInsert
    <3> QED
      BY <2>1, <3>1 DEF Good, CompleteIndexes
  <2>9. KeptBlobs(e)
    BY <2>1, <2>4 DEF Good, KeptBlobs
  <2>10. TagsExist(e)
    BY <2>1, <2>4 DEF Good, TagsExist
  <2>11. Good(e)
    BY <2>5, <2>6, <2>7, <2>8, <2>9, <2>10 DEF Good
  <2> QED
    BY <2>1, <2>11 DEF e
<1> QED
  BY <1>1, <1>2

-----------------------------------------------------------------------------
\* Reaping from an orphan: all holders of a reaped child are reaped with it.
LEMMA ReapGood ==
    ASSUME NEW d, Good(d), NEW r \in Repos, NEW root \in Manifests,
           NEW D \in SUBSET Manifests,
           IsReapSet(d, r, root, D), Orphaned(d, r, root)
    PROVE  Good(Reap(d, r, D))
<1> DEFINE e == Reap(d, r, D)
           Gone == {r} \X D
<1>0. d \in DB /\ ExactBlobs(d) /\ ExactChildren(d)
  BY DEF Good
<1>1. /\ e.manifests = d.manifests \ Gone
      /\ e.mref = [x \in Rows |->
                     IF x[1] # r THEN d.mref[x]
                     ELSE IF x[2] \in D THEN 0
                     ELSE d.mref[x] - Cardinality(Listing(D \cap Index, x[2]))]
      /\ e.bref = [b \in Blobs |->
                     d.bref[b] - Cardinality(Listing(D \ Index, b))]
      /\ e.tags = d.tags /\ e.blobs = d.blobs /\ e.links = d.links
  BY <1>0 DEF Reap, DB
<1>2. Gone \subseteq d.manifests /\ \A c \in D : ~Tagged(d, r, c)
  <2>1. ASSUME NEW c \in D
        PROVE  <<r, c>> \in d.manifests /\ ~Tagged(d, r, c)
    <3>1. CASE c = root
      BY <3>1 DEF Orphaned
    <3>2. CASE c # root
      BY <3>2 DEF IsReapSet
    <3> QED
      BY <3>1, <3>2
  <2>2. Gone \subseteq d.manifests
    <3> SUFFICES ASSUME NEW c \in D
                 PROVE  <<r, c>> \in d.manifests
      OBVIOUS
    <3> QED
      BY <2>1
  <2> QED
    BY <2>1, <2>2
<1>3. e = [d EXCEPT !.manifests = e.manifests, !.mref = e.mref, !.bref = e.bref]
  <2> DEFINE A == d.manifests \ Gone
             B == [x \in Rows |->
                     IF x[1] # r THEN d.mref[x]
                     ELSE IF x[2] \in D THEN 0
                     ELSE d.mref[x] - Cardinality(Listing(D \cap Index, x[2]))]
             C == [b \in Blobs |-> d.bref[b] - Cardinality(Listing(D \ Index, b))]
  <2>1. e = [d EXCEPT !.manifests = A, !.mref = B, !.bref = C]
    BY DEF Reap
  <2>2. e.manifests = A /\ e.mref = B /\ e.bref = C
    BY <1>1
  <2> HIDE DEF A, B, C, e
  <2> QED
    BY <2>1, <2>2
<1> HIDE DEF e
<1>4. \A x : /\ Listing(D \cap Index, x) \in SUBSET Manifests
             /\ Listing(D \ Index, x) \in SUBSET Manifests
  BY DEF Listing
\* The holders that go are as many as the decrements.
<1>5. \A b \in Blobs : BlobHolders(d, b) \cap Gone = {r} \X Listing(D \ Index, b)
  <2> TAKE b \in Blobs
  <2>1. BlobHolders(d, b) \cap Gone \subseteq {r} \X Listing(D \ Index, b)
    BY DEF BlobHolders, Listing, Images
  <2>2. {r} \X Listing(D \ Index, b) \subseteq BlobHolders(d, b) \cap Gone
    <3> SUFFICES ASSUME NEW p \in Listing(D \ Index, b)
                 PROVE  <<r, p>> \in BlobHolders(d, b) \cap Gone
      OBVIOUS
    <3> QED
      BY <1>2 DEF BlobHolders, Listing, Images
  <2> QED
    BY <2>1, <2>2
<1>6. \A c \in Manifests :
         ChildHolders(d, r, c) \cap Gone = {r} \X Listing(D \cap Index, c)
  <2> TAKE c \in Manifests
  <2>1. ChildHolders(d, r, c) \cap Gone \subseteq {r} \X Listing(D \cap Index, c)
    BY DEF ChildHolders, Listing
  <2>2. {r} \X Listing(D \cap Index, c) \subseteq ChildHolders(d, r, c) \cap Gone
    <3> SUFFICES ASSUME NEW p \in Listing(D \cap Index, c)
                 PROVE  <<r, p>> \in ChildHolders(d, r, c) \cap Gone
      OBVIOUS
    <3> QED
      BY <1>2 DEF ChildHolders, Listing
  <2> QED
    BY <2>1, <2>2
<1>7. \A b \in Blobs :
         /\ e.bref[b] = Cardinality(BlobHolders(e, b))
         /\ e.bref[b] \in Nat
  <2> TAKE b \in Blobs
  <2> DEFINE H == BlobHolders(d, b)
             L == Listing(D \ Index, b)
  <2>1. IsFiniteSet(H) /\ d.bref[b] = Cardinality(H)
    BY <1>0, HoldersAreRows, RowsFinite DEF ExactBlobs
  <2>2. Cardinality(H \ Gone) = Cardinality(H) - Cardinality(H \cap Gone)
    BY <2>1, FS_Difference
  <2>3. Cardinality(H \cap Gone) = Cardinality(L)
    BY <1>4, <1>5, RowsOfRepo
  <2>4. BlobHolders(e, b) = H \ Gone
    BY <1>1 DEF BlobHolders
  <2>5. IsFiniteSet(H \ Gone) /\ Cardinality(H \ Gone) \in Nat
    BY <2>1, FS_Difference, FS_CardinalityType
  <2>6. e.bref[b] = d.bref[b] - Cardinality(L)
    BY <1>1
  <2> HIDE DEF H, L
  <2> QED
    BY <2>1, <2>2, <2>3, <2>4, <2>5, <2>6
<1>8. \A c \in D : ChildHolders(d, r, c) \subseteq Gone
  <2> TAKE c \in D
  <2> DEFINE H == ChildHolders(d, r, c)
             L == Listing(D \cap Index, c)
  <2>1. c \in Manifests /\ IsFiniteSet(H) /\ Cardinality(H) \in Nat
    BY <1>0, HoldersAreRows, RowsFinite
  <2>2. d.mref[<<r, c>>] = Cardinality(H)
    BY <1>0, <2>1 DEF ExactChildren
  <2>3. CASE c = root
    <3>1. Cardinality(H) = 0
      BY <2>2, <2>3 DEF Orphaned
    <3>2. H = {}
      BY <2>1, <3>1, FS_EmptySet
    <3> QED
      BY <3>2
  <2>4. CASE c # root
    <3>1. d.mref[<<r, c>>] =< Cardinality(L)
      BY <2>1, <2>4 DEF IsReapSet
    <3>2. Cardinality(H \cap Gone) = Cardinality(L)
      BY <1>4, <1>6, <2>1, RowsOfRepo
    <3>3. /\ Cardinality(H \cap Gone) =< Cardinality(H)
          /\ Cardinality(H \cap Gone) \in Nat
          /\ Cardinality(H) = Cardinality(H \cap Gone) => H = H \cap Gone
      <4>1. H \cap Gone \in SUBSET H
        OBVIOUS
      <4> HIDE DEF H, Gone
      <4> QED
        BY <2>1, <4>1, FS_Subset, FS_CardinalityType
    <3> HIDE DEF H, L, Gone
    <3>4. H = H \cap Gone
      BY <2>1, <2>2, <3>1, <3>2, <3>3
    <3> QED
      BY <3>4 DEF H
  <2> QED
    BY <2>3, <2>4
<1>9. \A q \in Repos, c \in Manifests :
         /\ e.mref[<<q, c>>] = Cardinality(ChildHolders(e, q, c))
         /\ e.mref[<<q, c>>] \in Nat
  <2> TAKE q \in Repos, c \in Manifests
  <2> DEFINE H == ChildHolders(d, q, c)
  <2>1. IsFiniteSet(H) /\ Cardinality(H) \in Nat /\ d.mref[<<q, c>>] = Cardinality(H)
    BY <1>0, HoldersAreRows, RowsFinite DEF ExactChildren
  <2>2. ChildHolders(e, q, c) = H \ Gone
    BY <1>1 DEF ChildHolders
  <2>3. CASE q # r
    <3>1. H \ Gone = H
      BY <2>3 DEF ChildHolders
    <3>2. e.mref[<<q, c>>] = d.mref[<<q, c>>]
      BY <1>1, <2>3 DEF Rows
    <3> QED
      BY <2>1, <2>2, <3>1, <3>2
  <2>4. CASE q = r /\ c \in D
    <3>1. H \ Gone = {}
      BY <1>8, <2>4
    <3>2. e.mref[<<q, c>>] = 0
      BY <1>1, <2>4 DEF Rows
    <3> QED
      BY <2>2, <3>1, <3>2, FS_EmptySet
  <2>5. CASE q = r /\ c \notin D
    <3>1. e.mref[<<q, c>>] = d.mref[<<q, c>>] - Cardinality(Listing(D \cap Index, c))
      BY <1>1, <2>5 DEF Rows
    <3>2. Cardinality(H \cap Gone) = Cardinality(Listing(D \cap Index, c))
      <4>0. H = ChildHolders(d, r, c)
        BY <2>5
      <4> HIDE DEF H, Gone
      <4>1. H \cap Gone = {r} \X Listing(D \cap Index, c)
        BY <1>6, <4>0
      <4> QED
        BY <1>4, <4>1, RowsOfRepo
    <3>3. Cardinality(H \ Gone) = Cardinality(H) - Cardinality(H \cap Gone)
      BY <2>1, FS_Difference
    <3>4. IsFiniteSet(H \ Gone) /\ Cardinality(H \ Gone) \in Nat
      BY <2>1, FS_Difference, FS_CardinalityType
    <3> HIDE DEF H
    <3> QED
      BY <2>1, <2>2, <3>1, <3>2, <3>3, <3>4
  <2> QED
    BY <2>3, <2>4, <2>5
<1>10. e \in DB
  <2>1. e.mref \in [Rows -> Nat]
    <3>1. \A x \in Rows : e.mref[x] \in Nat
      BY <1>9 DEF Rows
    <3> QED
      BY <1>1, <3>1
  <2>2. e.bref \in [Blobs -> Nat]
    BY <1>1, <1>7
  <2> QED
    BY <1>0, <1>1, <1>3, <2>1, <2>2 DEF DB
<1>11. CompleteIndexes(e)
  <2> SUFFICES ASSUME NEW x \in e.manifests, x[2] \in Index, NEW c \in Refs[x[2]]
               PROVE  <<x[1], c>> \in e.manifests
    BY DEF CompleteIndexes
  <2>1. x \in d.manifests /\ x \notin Gone /\ x \in Rows
    BY <1>0, <1>1 DEF DB
  <2>2. <<x[1], c>> \in d.manifests
    BY <2>1 DEF Good, CompleteIndexes
  <2>3. <<x[1], c>> \notin Gone
    <3> SUFFICES ASSUME x[1] = r, c \in D
                 PROVE  FALSE
      OBVIOUS
    <3>1. x \in ChildHolders(d, r, c)
      BY <2>1 DEF ChildHolders
    <3> QED
      BY <1>8, <2>1, <3>1
  <2> QED
    BY <1>1, <2>2, <2>3
<1>12. KeptBlobs(e)
  BY <1>1 DEF Good, KeptBlobs
<1>13. TagsExist(e)
  BY <1>1, <1>2 DEF Good, TagsExist, Tagged
<1>14. Good(e)
  BY <1>7, <1>9, <1>10, <1>11, <1>12, <1>13 DEF Good, ExactBlobs, ExactChildren
<1> QED
  BY <1>14 DEF e

\* A wipe takes back what the repository's own images hold, and the rows of
\* other repositories keep theirs.
LEMMA WipeGood ==
    ASSUME NEW r \in Repos, Good(db), WipeDocker(r)
    PROVE  Good(db')
<1> DEFINE e == db'
           Gone == {r} \X Manifests
           mine == {m \in Images : <<r, m>> \in db.manifests}
<1>0. db \in DB /\ ExactBlobs(db) /\ ExactChildren(db)
  BY DEF Good
<1>1. /\ e.manifests = db.manifests \ Gone
      /\ e.mref = [x \in Rows |-> IF x[1] = r THEN 0 ELSE db.mref[x]]
      /\ e.tags = [x \in Repos \X Tags |-> IF x[1] = r THEN None ELSE db.tags[x]]
      /\ e.links = db.links \ ({r} \X Blobs)
      /\ e.blobs = db.blobs
  BY <1>0 DEF WipeDocker, DB
<1>2. e.bref = [b \in Blobs |-> IF GivesBack(db, r, b) =< db.bref[b]
                                THEN db.bref[b] - GivesBack(db, r, b)
                                ELSE db.bref[b]]
  BY <1>0 DEF WipeDocker, DB
<1>3. e = [db EXCEPT !.links = e.links, !.tags = e.tags,
              !.manifests = e.manifests, !.mref = e.mref, !.bref = e.bref]
  <2> DEFINE A == db.links \ ({r} \X Blobs)
             B == [x \in Repos \X Tags |-> IF x[1] = r THEN None ELSE db.tags[x]]
             C == db.manifests \ Gone
             F == [x \in Rows |-> IF x[1] = r THEN 0 ELSE db.mref[x]]
             G == [b \in Blobs |-> IF GivesBack(db, r, b) =< db.bref[b]
                                   THEN db.bref[b] - GivesBack(db, r, b)
                                   ELSE db.bref[b]]
  <2>1. e = [db EXCEPT !.links = A, !.tags = B, !.manifests = C, !.mref = F,
                       !.bref = G]
    BY DEF WipeDocker
  <2>2. e.links = A /\ e.tags = B /\ e.manifests = C /\ e.mref = F /\ e.bref = G
    BY <1>1, <1>2
  <2> HIDE DEF A, B, C, F, G, e
  <2> QED
    BY <2>1, <2>2
<1> HIDE DEF e
<1>4. \A b \in Blobs : /\ e.bref[b] = Cardinality(BlobHolders(e, b))
                       /\ e.bref[b] \in Nat
  <2> TAKE b \in Blobs
  <2> DEFINE H == BlobHolders(db, b)
             L == Listing(mine, b)
  <2>1. IsFiniteSet(H) /\ Cardinality(H) \in Nat /\ db.bref[b] = Cardinality(H)
    BY <1>0, HoldersAreRows, RowsFinite DEF ExactBlobs
  <2>2. H \cap Gone = {r} \X L
    <3>1. H \cap Gone \subseteq {r} \X L
      BY DEF BlobHolders, Listing, Images
    <3>2. {r} \X L \subseteq H \cap Gone
      <4> SUFFICES ASSUME NEW p \in L
                   PROVE  <<r, p>> \in H \cap Gone
        OBVIOUS
      <4> QED
        BY DEF BlobHolders, Listing, Images
    <3> QED
      BY <3>1, <3>2
  <2>3. L \in SUBSET Manifests
    BY DEF Listing, Images
  <2>4. GivesBack(db, r, b) = Cardinality(L)
    BY DEF GivesBack
  <2> HIDE DEF H, L, Gone, mine
  <2>5. Cardinality(H \cap Gone) = Cardinality(L) /\ Cardinality(L) \in Nat
    BY <2>2, <2>3, RowsOfRepo, RowsFinite
  <2>6. Cardinality(H \ Gone) = Cardinality(H) - Cardinality(H \cap Gone)
    BY <2>1, FS_Difference
  <2>7. Cardinality(H \cap Gone) =< Cardinality(H)
    BY <2>1, FS_Intersection
  <2>8. BlobHolders(e, b) = H \ Gone
    BY <1>1 DEF BlobHolders, H
  <2>9. e.bref[b] = Cardinality(H) - Cardinality(L)
    BY <1>2, <2>1, <2>4, <2>5, <2>7
  <2> QED
    BY <2>1, <2>5, <2>6, <2>7, <2>8, <2>9
<1>5. ExactChildren(e)
  <2> SUFFICES ASSUME NEW q \in Repos, NEW c \in Manifests
               PROVE  e.mref[<<q, c>>] = Cardinality(ChildHolders(e, q, c))
    BY DEF ExactChildren
  <2>1. CASE q = r
    <3>1. ChildHolders(e, q, c) = {}
      BY <1>0, <1>1, <2>1 DEF ChildHolders, DB, Rows
    <3>2. e.mref[<<q, c>>] = 0
      BY <1>1, <2>1 DEF Rows
    <3> QED
      BY <3>1, <3>2, FS_EmptySet
  <2>2. CASE q # r
    <3>1. ChildHolders(e, q, c) = ChildHolders(db, q, c)
      BY <1>1, <2>2 DEF ChildHolders
    <3>2. e.mref[<<q, c>>] = db.mref[<<q, c>>]
      BY <1>1, <2>2 DEF Rows
    <3> QED
      BY <1>0, <3>1, <3>2 DEF ExactChildren
  <2> QED
    BY <2>1, <2>2
<1>6. e \in DB
  <2>1. e.mref \in [Rows -> Nat]
    BY <1>0, <1>1 DEF DB
  <2>2. e.bref \in [Blobs -> Nat]
    BY <1>2, <1>4
  <2>3. e.tags \in [Repos \X Tags -> Manifests \cup {None}]
    BY <1>0, <1>1 DEF DB
  <2> QED
    BY <1>0, <1>1, <1>3, <2>1, <2>2, <2>3 DEF DB
<1>7. \A x \in db.manifests : x \in e.manifests <=> x[1] # r
  BY <1>0, <1>1 DEF DB, Rows
<1>8. CompleteIndexes(e)
  <2> SUFFICES ASSUME NEW x \in e.manifests, x[2] \in Index, NEW c \in Refs[x[2]]
               PROVE  <<x[1], c>> \in e.manifests
    BY DEF CompleteIndexes
  <2>1. x \in db.manifests /\ x[1] # r
    BY <1>1, <1>7
  <2>2. <<x[1], c>> \in db.manifests
    BY <2>1 DEF Good, CompleteIndexes
  <2> QED
    BY <1>7, <2>1, <2>2
<1>9. KeptBlobs(e)
  <2> SUFFICES ASSUME NEW x \in e.manifests, x[2] \in Images
               PROVE  /\ Refs[x[2]] \subseteq e.blobs
                      /\ {x[1]} \X Refs[x[2]] \subseteq e.links
    BY DEF KeptBlobs
  <2>1. x \in db.manifests /\ x[1] # r
    BY <1>1, <1>7
  <2>2. Refs[x[2]] \subseteq db.blobs /\ {x[1]} \X Refs[x[2]] \subseteq db.links
    BY <2>1 DEF Good, KeptBlobs
  <2> QED
    BY <1>1, <2>1, <2>2
<1>10. TagsExist(e)
  <2> SUFFICES ASSUME NEW q \in Repos, NEW t \in Tags, e.tags[<<q, t>>] # None
               PROVE  <<q, e.tags[<<q, t>>]>> \in e.manifests
    BY DEF TagsExist
  <2>1. q # r /\ e.tags[<<q, t>>] = db.tags[<<q, t>>]
    BY <1>1
  <2>2. <<q, e.tags[<<q, t>>]>> \in db.manifests
    BY <2>1 DEF Good, TagsExist
  <2> QED
    BY <1>7, <2>1, <2>2
<1>11. Good(e)
  BY <1>4, <1>5, <1>6, <1>8, <1>9, <1>10 DEF Good, ExactBlobs
<1> QED
  BY <1>11 DEF e

\* Unlinking an unreferenced blob, or dropping its row: no image lists it.
LEMMA DropGood ==
    ASSUME Good(db), NEW b \in Blobs, db.bref[b] = 0,
           NEW e \in DB, e.manifests = db.manifests, e.mref = db.mref,
           e.bref = db.bref, e.tags = db.tags,
           db.blobs \ {b} \subseteq e.blobs,
           db.links \ (Repos \X {b}) \subseteq e.links
    PROVE  Good(e)
<1>0. db \in DB
  BY DEF Good
<1>1. ExactBlobs(e) /\ ExactChildren(e)
  BY DEF Good, ExactBlobs, ExactChildren, BlobHolders, ChildHolders
<1>2. CompleteIndexes(e) /\ TagsExist(e)
  BY DEF Good, CompleteIndexes, TagsExist
<1>3. BlobHolders(db, b) = {}
  <2>1. Cardinality(BlobHolders(db, b)) = 0
    BY DEF Good, ExactBlobs
  <2>2. IsFiniteSet(BlobHolders(db, b))
    BY <1>0, HoldersAreRows, RowsFinite
  <2> QED
    BY <2>1, <2>2, FS_EmptySet
<1>4. KeptBlobs(e)
  <2> SUFFICES ASSUME NEW x \in db.manifests, x[2] \in Images
               PROVE  /\ Refs[x[2]] \subseteq e.blobs
                      /\ {x[1]} \X Refs[x[2]] \subseteq e.links
    BY DEF KeptBlobs
  <2>1. b \notin Refs[x[2]]
    BY <1>3 DEF BlobHolders
  <2>2. Refs[x[2]] \subseteq db.blobs /\ {x[1]} \X Refs[x[2]] \subseteq db.links
    BY DEF Good, KeptBlobs
  <2> QED
    BY <2>1, <2>2
<1> QED
  BY <1>1, <1>2, <1>4 DEF Good

-----------------------------------------------------------------------------
(***************************************************************************)
(* What holds even when requests commit on reads that are out of date.     *)
(***************************************************************************)
Sound(d) == d \in DB /\ TagsExist(d)

\* What the tables hold after a manifest is written, before the reap.
LEMMA WrittenFacts ==
    ASSUME NEW d \in DB, NEW r \in Repos, NEW m \in Manifests,
           NEW t \in Tags \cup {None}
    PROVE  /\ Written(d, r, m, t) \in DB
           /\ Written(d, r, m, t).manifests = d.manifests \cup {<<r, m>>}
           /\ Written(d, r, m, t).tags =
                 IF t = None THEN d.tags ELSE [d.tags EXCEPT ![<<r, t>>] = m]
<1> DEFINE l == IF m \in Index THEN d ELSE LinkAll(d, r, Refs[m])
           i == Insert(l, r, m)
<1>1. l \in DB /\ l.manifests = d.manifests /\ l.tags = d.tags
  BY DEF LinkAll, DB
<1> HIDE DEF l
<1>2. i \in DB /\ i.manifests = d.manifests \cup {<<r, m>>} /\ i.tags = d.tags
  <2>1. CASE <<r, m>> \in l.manifests
    BY <1>1, <2>1 DEF Insert
  <2>2. CASE <<r, m>> \notin l.manifests
    <3> DEFINE A == l.manifests \cup {<<r, m>>}
               B == [x \in Rows |-> IF x[1] = r /\ m \in Index /\ x[2] \in Refs[m]
                                    THEN l.mref[x] + 1 ELSE l.mref[x]]
               C == [b \in Blobs |-> IF m \notin Index /\ b \in Refs[m]
                                     THEN l.bref[b] + 1 ELSE l.bref[b]]
    <3>1. i = [l EXCEPT !.manifests = A, !.mref = B, !.bref = C]
      BY <2>2 DEF Insert
    <3>2. l.mref \in [Rows -> Nat] /\ l.bref \in [Blobs -> Nat]
      BY <1>1 DEF DB
    <3>3. A \in SUBSET Rows /\ A = d.manifests \cup {<<r, m>>}
      BY <1>1 DEF DB, Rows
    <3>4. B \in [Rows -> Nat]
      BY <3>2
    <3>5. C \in [Blobs -> Nat]
      BY <3>2
    <3> HIDE DEF A, B, C, i
    <3> QED
      BY <1>1, <3>1, <3>3, <3>4, <3>5 DEF DB
  <2> QED
    BY <2>1, <2>2
<1>3. Written(d, r, m, t) = SetTag(i, r, t, m)
  BY DEF Written, i, l
<1> HIDE DEF i
<1>4. CASE t = None
  BY <1>2, <1>3, <1>4 DEF SetTag
<1>5. CASE t # None
  <2> DEFINE ts == [i.tags EXCEPT ![<<r, t>>] = m]
  <2>1. ts \in [Repos \X Tags -> Manifests \cup {None}]
    BY <1>2, <1>5 DEF DB
  <2>2. SetTag(i, r, t, m) = [i EXCEPT !.tags = ts]
    BY <1>5 DEF SetTag
  <2>3. ts = [d.tags EXCEPT ![<<r, t>>] = m]
    BY <1>2
  <2> HIDE DEF ts
  <2>4. [i EXCEPT !.tags = ts] \in DB
    BY <1>2, <2>1 DEF DB
  <2>5. /\ [i EXCEPT !.tags = ts].manifests = i.manifests
        /\ [i EXCEPT !.tags = ts].tags = ts
    BY <1>2 DEF DB
  <2> QED
    BY <1>2, <1>3, <1>5, <2>2, <2>3, <2>4, <2>5
<1> QED
  BY <1>4, <1>5

\* Writing a manifest with its tag keeps types, and every tag resolves.
LEMMA WrittenSound ==
    ASSUME NEW d, Sound(d), NEW r \in Repos, NEW m \in Manifests,
           NEW t \in Tags \cup {None}
    PROVE  Sound(Written(d, r, m, t))
<1>1. d \in DB /\ d.tags \in [Repos \X Tags -> Manifests \cup {None}]
  BY DEF Sound, DB
<1> DEFINE w == Written(d, r, m, t)
<1>2. /\ w \in DB /\ w.manifests = d.manifests \cup {<<r, m>>}
      /\ w.tags = IF t = None THEN d.tags ELSE [d.tags EXCEPT ![<<r, t>>] = m]
  BY <1>1, WrittenFacts
<1> HIDE DEF w
<1>3. TagsExist(w)
  <2> SUFFICES ASSUME NEW q \in Repos, NEW s \in Tags, w.tags[<<q, s>>] # None
               PROVE  <<q, w.tags[<<q, s>>]>> \in w.manifests
    BY DEF TagsExist
  <2>1. CASE t # None /\ <<q, s>> = <<r, t>>
    <3>1. w.tags[<<q, s>>] = m /\ q = r
      BY <1>1, <1>2, <2>1
    <3> QED
      BY <1>2, <3>1
  <2>2. CASE ~(t # None /\ <<q, s>> = <<r, t>>)
    <3>1. w.tags[<<q, s>>] = d.tags[<<q, s>>]
      BY <1>1, <1>2, <2>2
    <3> QED
      BY <1>2, <3>1 DEF Sound, TagsExist
  <2> QED
    BY <2>1, <2>2
<1> QED
  BY <1>2, <1>3 DEF Sound, w

\* A reap deletes untagged rows only, and its decrements stay natural.
LEMMA ReapSound ==
    ASSUME NEW d, Sound(d), NEW r \in Repos, NEW root \in Manifests,
           ~Tagged(d, r, root), ReapFrom(d, r, root)
    PROVE  Sound(db')
<1>1. PICK D \in SUBSET Manifests :
         IsReapSet(d, r, root, D) /\ CanReap(d, r, D) /\ db' = Reap(d, r, D)
  BY DEF ReapFrom
<1>2. \A c \in D : ~Tagged(d, r, c)
  BY <1>1 DEF IsReapSet
<1> DEFINE A == d.manifests \ ({r} \X D)
           B == [x \in Rows |->
                   IF x[1] # r THEN d.mref[x]
                   ELSE IF x[2] \in D THEN 0
                   ELSE d.mref[x] - Cardinality(Listing(D \cap Index, x[2]))]
           C == [b \in Blobs |-> d.bref[b] - Cardinality(Listing(D \ Index, b))]
<1>3. db' = [d EXCEPT !.manifests = A, !.mref = B, !.bref = C]
  BY <1>1 DEF Reap
<1>4. /\ d \in DB /\ d.manifests \in SUBSET Rows
      /\ d.mref \in [Rows -> Nat] /\ d.bref \in [Blobs -> Nat]
  BY DEF Sound, DB
<1>5. \A x : /\ Cardinality(Listing(D \cap Index, x)) \in Nat
             /\ Cardinality(Listing(D \ Index, x)) \in Nat
  <2>1. \A x : /\ Listing(D \cap Index, x) \in SUBSET Manifests
               /\ Listing(D \ Index, x) \in SUBSET Manifests
    BY DEF Listing
  <2> QED
    BY <2>1, RowsFinite
<1>6. B \in [Rows -> Nat]
  <2> SUFFICES ASSUME NEW x \in Rows PROVE B[x] \in Nat
    OBVIOUS
  <2>1. x = <<x[1], x[2]>> /\ x[2] \in Manifests /\ d.mref[x] \in Nat
    BY <1>4 DEF Rows
  <2>2. x[1] = r => Cardinality(Listing(D \cap Index, x[2])) =< d.mref[x]
    <3>1. Cardinality(Listing(D \cap Index, x[2])) =< d.mref[<<r, x[2]>>]
      BY <1>1, <2>1 DEF CanReap
    <3> QED
      BY <2>1, <3>1
  <2>3. Cardinality(Listing(D \cap Index, x[2])) \in Nat
    BY <1>5
  <2> QED
    BY <2>1, <2>2, <2>3
<1>7. C \in [Blobs -> Nat]
  <2> SUFFICES ASSUME NEW b \in Blobs PROVE C[b] \in Nat
    OBVIOUS
  <2>1. Cardinality(Listing(D \ Index, b)) =< d.bref[b] /\ d.bref[b] \in Nat
    BY <1>1, <1>4 DEF CanReap
  <2>2. Cardinality(Listing(D \ Index, b)) \in Nat
    BY <1>5
  <2>3. C[b] = d.bref[b] - Cardinality(Listing(D \ Index, b))
    OBVIOUS
  <2> HIDE DEF C
  <2> QED
    BY <2>1, <2>2, <2>3
<1>8. A \in SUBSET Rows
  BY <1>4
<1>9. db' \in DB /\ db'.manifests = A /\ db'.tags = d.tags
  <2> HIDE DEF A, B, C
  <2> QED
    BY <1>3, <1>4, <1>6, <1>7, <1>8 DEF DB
<1>10. TagsExist(d)
  BY DEF Sound
<1>11. TagsExist(db')
  BY <1>2, <1>9, <1>10 DEF TagsExist, Tagged
<1> QED
  BY <1>9, <1>11 DEF Sound

\* The reap at the end of a write takes no manifest a tag points at.
LEMMA WriteSound ==
    ASSUME NEW d, Sound(d), NEW r \in Repos, NEW m \in Manifests,
           NEW t \in Tags \cup {None}, WriteManifest(d, r, m, t)
    PROVE  Sound(db')
<1> DEFINE w == Written(d, r, m, t)
           prior == IF t = None THEN None ELSE d.tags[<<r, t>>]
<1>1. Sound(w)
  BY WrittenSound
<1>2. prior \in Manifests \cup {None}
  BY DEF Sound, DB
<1>3. \/ db' = w
      \/ prior # None /\ Orphaned(w, r, prior) /\ ReapFrom(w, r, prior)
  BY DEF WriteManifest
<1> HIDE DEF w, prior
<1>4. CASE prior # None /\ Orphaned(w, r, prior) /\ ReapFrom(w, r, prior)
  <2>1. prior \in Manifests /\ ~Tagged(w, r, prior)
    BY <1>2, <1>4 DEF Orphaned
  <2> QED
    BY <1>1, <1>4, <2>1, ReapSound
<1> QED
  BY <1>1, <1>3, <1>4

\* The fields of a request that is past its reads.
LEMMA RequestFields ==
    ASSUME NEW q \in Request
    PROVE  /\ q.op \in {"resolved", "delete"} =>
                 q \in [op : {"resolved", "delete"}, repo : Repos, tag : Tags,
                        digest : Manifests, refs : Nat]
           /\ q.op = "promote" =>
                 q \in [op : {"promote"}, repo : Repos, tag : Tags, digest : Manifests]
BY DEF Request

\* Tags removed one by one, or all those of one digest, are a subset.
LEMMA FewerTagsSound ==
    ASSUME NEW d, Sound(d), NEW ts \in [Repos \X Tags -> Manifests \cup {None}],
           \A r \in Repos, t \in Tags : ts[<<r, t>>] \in {None, d.tags[<<r, t>>]},
           NEW e, e = [d EXCEPT !.tags = ts]
    PROVE  /\ Sound(e) /\ e.tags = ts
           /\ e.manifests = d.manifests /\ e.mref = d.mref
           /\ Good(d) => Good(e)
<1>1. /\ e \in DB /\ e.manifests = d.manifests /\ e.tags = ts /\ e.mref = d.mref
      /\ TagsExist(d)
  BY DEF Sound, DB
<1>2. \A r \in Repos, t \in Tags :
         ts[<<r, t>>] # None => <<r, ts[<<r, t>>]>> \in d.manifests
  BY <1>1 DEF TagsExist
<1>3. Good(d) => Good(e)
  BY <1>2, TagGood
<1>4. TagsExist(e)
  BY <1>1, <1>2 DEF TagsExist
<1>5. Sound(e)
  BY <1>1, <1>4 DEF Sound
<1> QED
  BY <1>1, <1>3, <1>5

\* The two tag removals of manifestDelete.
LEMMA UntagOne ==
    ASSUME NEW d, Sound(d), NEW r \in Repos, NEW t \in Tags
    PROVE  /\ Sound(SetTag(d, r, t, None))
           /\ SetTag(d, r, t, None).manifests = d.manifests
           /\ SetTag(d, r, t, None).mref = d.mref
           /\ Good(d) => Good(SetTag(d, r, t, None))
<1> DEFINE ts == [d.tags EXCEPT ![<<r, t>>] = None]
<1>1. d.tags \in [Repos \X Tags -> Manifests \cup {None}]
  BY DEF Sound, DB
<1>2. /\ ts \in [Repos \X Tags -> Manifests \cup {None}]
      /\ \A q \in Repos, s \in Tags : ts[<<q, s>>] \in {None, d.tags[<<q, s>>]}
  BY <1>1
<1>3. SetTag(d, r, t, None) = [d EXCEPT !.tags = ts]
  BY DEF SetTag
<1> DEFINE w == SetTag(d, r, t, None)
<1>4. w = [d EXCEPT !.tags = ts]
  BY <1>3
<1> HIDE DEF ts, w
<1>5. Sound(w) /\ w.manifests = d.manifests /\ w.mref = d.mref /\ (Good(d) => Good(w))
  BY <1>2, <1>4, FewerTagsSound
<1> QED
  BY <1>5 DEF w

\* Removing every tag of a digest leaves rows and counts as they are.
LEMMA UntagAll ==
    ASSUME NEW d, Sound(d), NEW r \in Repos, NEW m \in Manifests
    PROVE  /\ Sound(UntagDigest(d, r, m)) /\ ~Tagged(UntagDigest(d, r, m), r, m)
           /\ UntagDigest(d, r, m).manifests = d.manifests
           /\ UntagDigest(d, r, m).mref = d.mref
           /\ Good(d) => Good(UntagDigest(d, r, m))
<1> DEFINE w == UntagDigest(d, r, m)
           ts == [x \in Repos \X Tags |->
                     IF x[1] = r /\ d.tags[x] = m THEN None ELSE d.tags[x]]
<1>1. d.tags \in [Repos \X Tags -> Manifests \cup {None}]
  BY DEF Sound, DB
<1>2. /\ ts \in [Repos \X Tags -> Manifests \cup {None}]
      /\ \A q \in Repos, s \in Tags : ts[<<q, s>>] \in {None, d.tags[<<q, s>>]}
  BY <1>1
<1>3. \A s \in Tags : ts[<<r, s>>] # m
  BY <1>1
<1>4. w = [d EXCEPT !.tags = ts]
  BY DEF UntagDigest
<1> HIDE DEF w, ts
<1>5. /\ Sound(w) /\ w.tags = ts /\ w.manifests = d.manifests /\ w.mref = d.mref
      /\ Good(d) => Good(w)
  BY ONLY Sound(d), <1>2, <1>4, FewerTagsSound, SMTT(60)
<1>6. ~Tagged(w, r, m)
  BY <1>3, <1>5 DEF Tagged
<1> QED
  BY <1>5, <1>6 DEF w

-----------------------------------------------------------------------------
\* Every step keeps types, and tags bound to stored manifests.
LEMMA NextSound ==
    TypeOK /\ TagsExist(db) /\ [Next]_vars => TypeOK' /\ TagsExist(db')
<1> SUFFICES ASSUME TypeOK, TagsExist(db), [Next]_vars
             PROVE  TypeOK' /\ TagsExist(db')
  OBVIOUS
<1>0. Sound(db) /\ req \in [Clients -> Request] /\ db \in DB
  BY DEF Sound, TypeOK
<1> SUFFICES Sound(db') /\ req' \in [Clients -> Request]
  BY DEF Sound, TypeOK
<1>1. ASSUME NEW r \in Repos, NEW b \in Blobs, BlobPut(r, b)
      PROVE  Sound(db') /\ req' = req
  BY <1>0, <1>1 DEF BlobPut, LinkAll, UpsertZeroRef, Sound, DB, TagsExist
<1>2. ASSUME NEW r \in Repos, NEW b \in Blobs, BlobDelete(r, b)
      PROVE  Sound(db') /\ req' = req
  BY <1>0, <1>2 DEF BlobDelete, Sound, DB, TagsExist
<1>3. ASSUME NEW src \in Repos, NEW r \in Repos, NEW b \in Blobs, BlobMount(src, r, b)
      PROVE  Sound(db') /\ req' = req
  BY <1>0, <1>3 DEF BlobMount, LinkAll, Sound, DB, TagsExist
<1>4. ASSUME NEW b \in Blobs, GcDelete(b)
      PROVE  Sound(db') /\ req' = req
  BY <1>0, <1>4 DEF GcDelete, Sound, DB, TagsExist
<1>5. ASSUME NEW r \in Repos, NEW m \in Manifests, NEW t \in Tags \cup {None},
             ManifestPut(r, m, t)
      PROVE  Sound(db') /\ req' = req
  BY <1>0, <1>5, WriteSound DEF ManifestPut
<1>6. ASSUME NEW r \in Repos, NEW m \in Manifests, NEW t \in Tags \cup {None},
             PullCommit(r, m, t)
      PROVE  Sound(db') /\ req' = req
  <2> DEFINE d == IF m \in Index THEN db ELSE UpsertZeroRef(db, Refs[m])
  <2>1. WriteManifest(d, r, m, t) /\ req' = req
    BY <1>6 DEF PullCommit
  <2>2. Sound(d)
    BY <1>0 DEF UpsertZeroRef, Sound, DB, TagsExist
  <2> HIDE DEF d
  <2> QED
    BY <2>1, <2>2, WriteSound
<1>7. ASSUME NEW r \in Repos, NEW m \in Manifests, DigestDelete(r, m)
      PROVE  Sound(db') /\ req' = req
  <2> DEFINE w == UntagDigest(db, r, m)
  <2>1. ReapFrom(w, r, m) /\ req' = req
    BY <1>7 DEF DigestDelete
  <2>2. Sound(w) /\ ~Tagged(w, r, m)
    BY <1>0, UntagAll
  <2> HIDE DEF w
  <2> QED
    BY <2>1, <2>2, ReapSound
<1>8. ASSUME NEW c \in Clients, NEW src \in Repos, NEW r \in Repos,
             NEW s \in Tags, NEW t \in Tags, PromoteRead(c, src, s, r, t)
      PROVE  db' = db /\ req' \in [Clients -> Request]
  <2>1. db.tags[<<src, s>>] \in Manifests \cup {None}
    BY <1>0 DEF DB
  <2> DEFINE q == [op |-> "promote", repo |-> r, tag |-> t,
                   digest |-> db.tags[<<src, s>>]]
  <2>2. q \in Request
    BY <1>8, <2>1 DEF PromoteRead, Request
  <2>3. req' = [req EXCEPT ![c] = q] /\ db' = db
    BY <1>8 DEF PromoteRead
  <2> HIDE DEF q
  <2> QED
    BY <1>0, <2>2, <2>3
<1>9. ASSUME NEW c \in Clients, NEW r \in Repos, NEW t \in Tags,
             TagDeleteResolve(c, r, t)
      PROVE  db' = db /\ req' \in [Clients -> Request]
  <2>1. db.tags[<<r, t>>] \in Manifests
    BY <1>0, <1>9 DEF DB, TagDeleteResolve
  <2> DEFINE q == [op |-> "resolved", repo |-> r, tag |-> t,
                   digest |-> db.tags[<<r, t>>], refs |-> 0]
  <2>2. q \in Request
    BY <2>1 DEF Request
  <2>3. req' = [req EXCEPT ![c] = q] /\ db' = db
    BY <1>9 DEF TagDeleteResolve
  <2> HIDE DEF q
  <2> QED
    BY <1>0, <2>2, <2>3
<1>10. Idle \in Request
  BY DEF Idle, Request
<1>11. ASSUME NEW c \in Clients, PromoteCommit(c)
       PROVE  Sound(db') /\ req' \in [Clients -> Request]
  <2>1. req[c].repo \in Repos /\ req[c].tag \in Tags /\ req[c].digest \in Manifests
    BY <1>0, <1>11, RequestFields DEF PromoteCommit
  <2>2. Sound(db')
    BY <1>0, <1>11, <2>1, WriteSound DEF PromoteCommit
  <2> QED
    BY <1>0, <1>10, <1>11, <2>2 DEF PromoteCommit
<1>12. ASSUME NEW c \in Clients, TagDeleteRead(c)
       PROVE  db' = db /\ req' \in [Clients -> Request]
  <2> DEFINE x == <<req[c].repo, req[c].digest>>
             q == [req[c] EXCEPT !.op = "delete", !.refs = db.mref[x]]
  <2>1. req[c] \in [op : {"resolved", "delete"}, repo : Repos, tag : Tags,
                    digest : Manifests, refs : Nat]
    BY <1>0, <1>12, RequestFields DEF TagDeleteRead
  <2>2. db.mref[x] \in Nat
    BY <1>0, <2>1 DEF DB, Rows
  <2>3. q \in Request
    <3> DEFINE n == db.mref[x]
    <3>1. n \in Nat
      BY <2>2
    <3>2. q = [req[c] EXCEPT !.op = "delete", !.refs = n]
      OBVIOUS
    <3> HIDE DEF n, q
    <3> QED
      BY <2>1, <3>1, <3>2 DEF Request
  <2>4. db' = db /\ \/ req' = [req EXCEPT ![c] = q]
                    \/ req' = [req EXCEPT ![c] = Idle]
    BY <1>12 DEF TagDeleteRead
  <2> HIDE DEF q
  <2> QED
    BY <1>0, <1>10, <2>3, <2>4
<1>13. ASSUME NEW c \in Clients, TagDeleteCommit(c)
       PROVE  Sound(db') /\ req' \in [Clients -> Request]
  <2> DEFINE q == req[c]
             w == SetTag(db, q.repo, q.tag, None)
  <2>1. q.repo \in Repos /\ q.tag \in Tags /\ q.digest \in Manifests
    BY <1>0, <1>13, RequestFields DEF TagDeleteCommit
  <2>2. Sound(w)
    BY <1>0, <2>1, UntagOne
  <2>3. /\ req' = [req EXCEPT ![c] = Idle]
        /\ \/ db' = w
           \/ ~Tagged(w, q.repo, q.digest) /\ ReapFrom(w, q.repo, q.digest)
    BY <1>13 DEF TagDeleteCommit, LastReference
  <2> HIDE DEF q, w
  <2>4. Sound(db')
    BY <2>1, <2>2, <2>3, ReapSound
  <2> QED
    BY <1>0, <1>10, <2>3, <2>4
<1>14. ASSUME NEW c \in Clients, RequestCancelled(c)
       PROVE  db' = db /\ req' \in [Clients -> Request]
  BY <1>0, <1>10, <1>14 DEF RequestCancelled
<1>15. ASSUME NEW r \in Repos, WipeDocker(r)
       PROVE  Sound(db') /\ req' = req
  <2> DEFINE A == db.links \ ({r} \X Blobs)
             B == [x \in Repos \X Tags |-> IF x[1] = r THEN None ELSE db.tags[x]]
             C == db.manifests \ ({r} \X Manifests)
             F == [x \in Rows |-> IF x[1] = r THEN 0 ELSE db.mref[x]]
             G == [b \in Blobs |-> IF GivesBack(db, r, b) =< db.bref[b]
                                   THEN db.bref[b] - GivesBack(db, r, b)
                                   ELSE db.bref[b]]
  <2>1. /\ db' = [db EXCEPT !.links = A, !.tags = B, !.manifests = C, !.mref = F,
                            !.bref = G]
        /\ req' = req
    BY <1>15 DEF WipeDocker
  <2>2. F \in [Rows -> Nat] /\ A \in SUBSET (Repos \X Blobs) /\ C \in SUBSET Rows
    BY <1>0 DEF DB
  <2>3. B \in [Repos \X Tags -> Manifests \cup {None}]
    BY <1>0 DEF DB
  <2>4. G \in [Blobs -> Nat]
    <3> SUFFICES ASSUME NEW b \in Blobs PROVE G[b] \in Nat
      OBVIOUS
    <3> DEFINE L == Listing({m \in Images : <<r, m>> \in db.manifests}, b)
    <3>1. L \in SUBSET Manifests /\ GivesBack(db, r, b) = Cardinality(L)
      BY DEF Listing, Images, GivesBack
    <3> HIDE DEF L
    <3>2. GivesBack(db, r, b) \in Nat /\ db.bref[b] \in Nat
      BY <1>0, <3>1, RowsFinite DEF DB
    <3> QED
      BY <3>2
  <2>5. \A q \in Repos, t \in Tags :
           B[<<q, t>>] # None => <<q, B[<<q, t>>]>> \in C
    BY DEF TagsExist
  <2> HIDE DEF A, B, C, F, G
  <2>6. db' \in DB /\ db'.tags = B /\ db'.manifests = C
    BY <1>0, <2>1, <2>2, <2>3, <2>4 DEF DB
  <2> QED
    BY <2>1, <2>5, <2>6 DEF Sound, TagsExist
<1>16. CASE UNCHANGED vars
  BY <1>0, <1>16 DEF vars
<1> QED
  BY <1>0, <1>1, <1>2, <1>3, <1>4, <1>5, <1>6, <1>7, <1>8, <1>9, <1>11, <1>12,
     <1>13, <1>14, <1>15, <1>16 DEF Next

-----------------------------------------------------------------------------
\* The shared manifest write keeps a database good.
LEMMA WriteGood ==
    ASSUME NEW d, Good(d), NEW r \in Repos, NEW m \in Manifests,
           NEW t \in Tags \cup {None}, WriteManifest(d, r, m, t)
    PROVE  Good(db')
<1> DEFINE l == IF m \in Index THEN d ELSE LinkAll(d, r, Refs[m])
           i == Insert(l, r, m)
           w == Written(d, r, m, t)
           prior == IF t = None THEN None ELSE d.tags[<<r, t>>]
<1>0. /\ d \in DB /\ Sound(d) /\ CanInsert(d, r, m)
      /\ m \in Images => Refs[m] \subseteq d.blobs
  BY DEF Good, Sound, WriteManifest
<1>1. /\ Good(l) /\ l.manifests = d.manifests /\ l.blobs = d.blobs
      /\ m \in Images => {r} \X Refs[m] \subseteq l.links
  <2>1. CASE m \in Index
    BY <1>0, <2>1 DEF Images
  <2>2. CASE m \notin Index
    <3>1. Refs[m] \in SUBSET Blobs
      BY <2>2
    <3>2. Good(LinkAll(d, r, Refs[m]))
      BY <3>1, LinkGood
    <3> QED
      BY <1>0, <2>2, <3>2 DEF LinkAll, DB
  <2> QED
    BY <2>1, <2>2
<1>2. w = SetTag(i, r, t, m)
  BY DEF Written
<1> HIDE DEF l
<1>3. CanInsert(l, r, m)
  BY <1>0, <1>1 DEF CanInsert
<1>4. Good(i) /\ <<r, m>> \in i.manifests
  BY <1>0, <1>1, <1>3, InsertGood
<1> HIDE DEF i
<1>5. Good(w)
  <2>1. CASE t = None
    BY <1>2, <1>4, <2>1 DEF SetTag
  <2>2. CASE t # None
    <3> DEFINE ts == [i.tags EXCEPT ![<<r, t>>] = m]
    <3>1. i.tags \in [Repos \X Tags -> Manifests \cup {None}] /\ TagsExist(i)
      BY <1>4 DEF Good, DB
    <3>2. ts \in [Repos \X Tags -> Manifests \cup {None}]
      BY <2>2, <3>1
    <3>3. ASSUME NEW q \in Repos, NEW s \in Tags, ts[<<q, s>>] # None
          PROVE  <<q, ts[<<q, s>>]>> \in i.manifests
      <4>1. CASE <<q, s>> = <<r, t>>
        BY <1>4, <3>1, <4>1
      <4>2. CASE <<q, s>> # <<r, t>>
        <5>1. ts[<<q, s>>] = i.tags[<<q, s>>]
          BY <3>1, <4>2
        <5> QED
          BY <3>1, <3>3, <5>1 DEF TagsExist
      <4> QED
        BY <4>1, <4>2
    <3>4. w = [i EXCEPT !.tags = ts]
      BY <1>2, <2>2 DEF SetTag
    <3> HIDE DEF ts, w
    <3>5. Good([i EXCEPT !.tags = ts])
      BY <1>4, <3>2, <3>3, TagGood
    <3> QED
      BY <3>4, <3>5
  <2> QED
    BY <2>1, <2>2
<1>6. prior \in Manifests \cup {None}
  BY <1>0 DEF DB
<1>7. \/ db' = w
      \/ prior # None /\ Orphaned(w, r, prior) /\ ReapFrom(w, r, prior)
  BY DEF WriteManifest
<1> HIDE DEF w, prior
<1>8. CASE prior # None /\ Orphaned(w, r, prior) /\ ReapFrom(w, r, prior)
  <2>1. PICK D \in SUBSET Manifests :
           IsReapSet(w, r, prior, D) /\ db' = Reap(w, r, D)
    BY <1>8 DEF ReapFrom
  <2> QED
    BY <1>5, <1>6, <1>8, <2>1, ReapGood
<1> QED
  BY <1>5, <1>7, <1>8

\* Every step keeps the database good when tag deletes commit on reads that
\* still hold.
LEMMA NextGood ==
    ASSUME Overlap = FALSE
    PROVE  TypeOK /\ Good(db) /\ [Next]_vars => Good(db')
<1> SUFFICES ASSUME TypeOK, Good(db), [Next]_vars
             PROVE  Good(db')
  OBVIOUS
<1>0. /\ Sound(db) /\ db \in DB /\ req \in [Clients -> Request]
  BY DEF Sound, Good, TypeOK
<1>1. ASSUME NEW r \in Repos, NEW b \in Blobs, BlobPut(r, b)
      PROVE  Good(db')
  <2>1. Good(UpsertZeroRef(db, {b}))
    BY <1>1, LinkGood
  <2>2. Good(LinkAll(UpsertZeroRef(db, {b}), r, {b}))
    BY <2>1, LinkGood
  <2> QED
    BY <1>1, <2>2 DEF BlobPut
<1>2. ASSUME NEW r \in Repos, NEW b \in Blobs, BlobDelete(r, b)
      PROVE  Good(db')
  <2>1. /\ db' \in DB /\ db'.manifests = db.manifests /\ db'.mref = db.mref
        /\ db'.bref = db.bref /\ db'.tags = db.tags /\ db'.blobs = db.blobs
        /\ db'.links = db.links \ {<<r, b>>} /\ db.bref[b] = 0
    BY <1>0, <1>2 DEF BlobDelete, DB
  <2>2. db.links \ (Repos \X {b}) \subseteq db'.links
    BY <2>1
  <2> QED
    BY <2>1, <2>2, DropGood
<1>3. ASSUME NEW src \in Repos, NEW r \in Repos, NEW b \in Blobs, BlobMount(src, r, b)
      PROVE  Good(db')
  BY <1>3, LinkGood DEF BlobMount
<1>4. ASSUME NEW b \in Blobs, GcDelete(b)
      PROVE  Good(db')
  <2>1. /\ db' \in DB /\ db'.manifests = db.manifests /\ db'.mref = db.mref
        /\ db'.bref = db.bref /\ db'.tags = db.tags /\ db'.blobs = db.blobs \ {b}
        /\ db'.links = db.links \ (Repos \X {b}) /\ db.bref[b] = 0
    BY <1>0, <1>4 DEF GcDelete, DB
  <2> QED
    BY <2>1, DropGood
<1>5. ASSUME NEW r \in Repos, NEW m \in Manifests, NEW t \in Tags \cup {None},
             ManifestPut(r, m, t)
      PROVE  Good(db')
  BY <1>5, WriteGood DEF ManifestPut
<1>6. ASSUME NEW r \in Repos, NEW m \in Manifests, NEW t \in Tags \cup {None},
             PullCommit(r, m, t)
      PROVE  Good(db')
  <2> DEFINE d == IF m \in Index THEN db ELSE UpsertZeroRef(db, Refs[m])
  <2>1. WriteManifest(d, r, m, t)
    BY <1>6 DEF PullCommit
  <2>2. Good(d)
    <3>1. CASE m \in Index
      BY <3>1
    <3>2. CASE m \notin Index
      <4>1. Refs[m] \in SUBSET Blobs
        BY <3>2
      <4> QED
        BY <1>6, <3>2, <4>1, LinkGood
    <3> QED
      BY <3>1, <3>2
  <2> HIDE DEF d
  <2> QED
    BY <2>1, <2>2, WriteGood
<1>7. ASSUME NEW r \in Repos, NEW m \in Manifests, DigestDelete(r, m)
      PROVE  Good(db')
  <2> DEFINE w == UntagDigest(db, r, m)
  <2>1. /\ Good(w) /\ ~Tagged(w, r, m)
        /\ w.manifests = db.manifests /\ w.mref = db.mref
    BY <1>0, UntagAll
  <2>2. /\ <<r, m>> \in db.manifests /\ db.mref[<<r, m>>] = 0
        /\ ReapFrom(w, r, m)
    BY <1>0, <1>7 DEF DigestDelete, StillReferenced, DB, Rows
  <2> HIDE DEF w
  <2>3. Orphaned(w, r, m)
    BY <2>1, <2>2 DEF Orphaned
  <2>4. PICK D \in SUBSET Manifests : IsReapSet(w, r, m, D) /\ db' = Reap(w, r, D)
    BY <2>2 DEF ReapFrom
  <2> QED
    BY <2>1, <2>3, <2>4, ReapGood
<1>8. ASSUME NEW c \in Clients, PromoteCommit(c)
      PROVE  Good(db')
  <2>1. req[c].repo \in Repos /\ req[c].tag \in Tags /\ req[c].digest \in Manifests
    BY <1>0, <1>8, RequestFields DEF PromoteCommit
  <2> QED
    BY <1>8, <2>1, WriteGood DEF PromoteCommit
<1>9. ASSUME NEW c \in Clients, TagDeleteCommit(c)
      PROVE  Good(db')
  <2> DEFINE q == req[c]
             w == SetTag(db, q.repo, q.tag, None)
  <2>1. q.repo \in Repos /\ q.tag \in Tags /\ q.digest \in Manifests
    BY <1>0, <1>9, RequestFields DEF TagDeleteCommit
  <2>2. Good(w) /\ w.manifests = db.manifests /\ w.mref = db.mref
    BY <1>0, <2>1, UntagOne
  <2>3. \/ db' = w
        \/ /\ ~Tagged(w, q.repo, q.digest) /\ q.refs = 0
           /\ ReapFrom(w, q.repo, q.digest)
    BY <1>9 DEF TagDeleteCommit, LastReference
  <2>4. /\ <<q.repo, q.digest>> \in db.manifests
        /\ db.mref[<<q.repo, q.digest>>] = q.refs
    BY <1>9 DEF TagDeleteCommit, ReadIsCurrent
  <2> HIDE DEF q, w
  <2>5. CASE /\ ~Tagged(w, q.repo, q.digest) /\ q.refs = 0
             /\ ReapFrom(w, q.repo, q.digest)
    <3>1. Orphaned(w, q.repo, q.digest)
      BY <2>2, <2>4, <2>5 DEF Orphaned
    <3>2. PICK D \in SUBSET Manifests :
             IsReapSet(w, q.repo, q.digest, D) /\ db' = Reap(w, q.repo, D)
      BY <2>5 DEF ReapFrom
    <3> QED
      BY <2>1, <2>2, <3>1, <3>2, ReapGood
  <2> QED
    BY <2>2, <2>3, <2>5
<1>10. ASSUME NEW r \in Repos, WipeDocker(r)
       PROVE  Good(db')
  BY <1>10, WipeGood
<1>11. CASE UNCHANGED db
  BY <1>11
<1>12. ASSUME NEW c \in Clients, TagDeleteRead(c) \/ RequestCancelled(c)
       PROVE  UNCHANGED db
  BY <1>12 DEF TagDeleteRead, RequestCancelled
<1>13. ASSUME NEW c \in Clients, NEW r \in Repos, NEW t \in Tags,
              TagDeleteResolve(c, r, t)
       PROVE  UNCHANGED db
  BY <1>13 DEF TagDeleteResolve
<1>14. ASSUME NEW c \in Clients, NEW src \in Repos, NEW r \in Repos,
              NEW s \in Tags, NEW t \in Tags, PromoteRead(c, src, s, r, t)
       PROVE  UNCHANGED db
  BY <1>14 DEF PromoteRead
<1>15. CASE UNCHANGED vars
  BY <1>11, <1>15 DEF vars
<1> QED
  BY <1>1, <1>2, <1>3, <1>4, <1>5, <1>6, <1>7, <1>8, <1>9, <1>10, <1>11, <1>12,
     <1>13, <1>14, <1>15 DEF Next

\* The empty registry.
LEMMA InitGood == Init => TypeOK /\ Good(db)
<1> SUFFICES ASSUME Init PROVE TypeOK /\ Good(db)
  OBVIOUS
<1>1. db \in DB
  BY DEF Init, DB
<1>2. req \in [Clients -> Request]
  BY DEF Init, Idle, Request
<1>3. ExactBlobs(db) /\ ExactChildren(db)
  <2>1. \A b : BlobHolders(db, b) = {}
    BY DEF Init, BlobHolders
  <2>2. \A r, c : ChildHolders(db, r, c) = {}
    BY DEF Init, ChildHolders
  <2>3. \A x \in Rows : db.mref[x] = 0
    BY DEF Init
  <2>4. \A b \in Blobs : db.bref[b] = 0
    BY DEF Init
  <2>5. Cardinality({}) = 0
    BY FS_EmptySet
  <2>6. ExactBlobs(db)
    BY <2>1, <2>4, <2>5 DEF ExactBlobs
  <2>7. ASSUME NEW r \in Repos, NEW c \in Manifests
        PROVE  db.mref[<<r, c>>] = Cardinality(ChildHolders(db, r, c))
    <3>1. <<r, c>> \in Rows
      BY DEF Rows
    <3> QED
      BY <3>1, <2>2, <2>3, <2>5
  <2> QED
    BY <2>6, <2>7 DEF ExactChildren
<1>4. CompleteIndexes(db) /\ KeptBlobs(db) /\ TagsExist(db)
  BY DEF Init, CompleteIndexes, KeptBlobs, TagsExist
<1> QED
  BY <1>1, <1>2, <1>3, <1>4 DEF TypeOK, Good

-----------------------------------------------------------------------------
\* Tables and requests keep their types, whatever the requests overlap with:
\* in particular no count ever goes below 0.
THEOREM RegistryTypes == Spec => []TypeOK
<1>1. Init => TypeOK /\ TagsExist(db)
  BY InitGood DEF Good
<1>2. (TypeOK /\ TagsExist(db)) /\ [Next]_vars => (TypeOK /\ TagsExist(db))'
  BY NextSound
<1> QED
  BY <1>1, <1>2, PTL DEF Spec

\* Every tag resolves to a stored manifest, whatever the requests overlap
\* with: a reap never deletes a tagged row.
THEOREM TagsAlwaysResolve == Spec => []TagsResolve
<1>1. Init => TypeOK /\ TagsExist(db)
  BY InitGood DEF Good
<1>2. (TypeOK /\ TagsExist(db)) /\ [Next]_vars => (TypeOK /\ TagsExist(db))'
  BY NextSound
<1>3. TypeOK /\ TagsExist(db) => TagsResolve
  BY DEF TagsResolve
<1> QED
  BY <1>1, <1>2, <1>3, PTL DEF Spec

\* When tag deletes commit on reads that still hold, the database is good in
\* every reachable state.
THEOREM GoodInvariance ==
    ASSUME Overlap = FALSE
    PROVE  Spec => [](TypeOK /\ Good(db))
<1>1. (TypeOK /\ Good(db)) /\ [Next]_vars => (TypeOK /\ Good(db))'
  <2> SUFFICES ASSUME TypeOK, Good(db), [Next]_vars
               PROVE  TypeOK' /\ Good(db')
    BY DEF Good
  <2>1. TagsExist(db)
    BY DEF Good
  <2> QED
    BY <2>1, NextSound, NextGood
<1> QED
  BY <1>1, InitGood, PTL DEF Spec

\* Counts are exact: the bytes of a blob are collectable exactly when no
\* manifest row references it.
THEOREM CountsAreExact ==
    ASSUME Overlap = FALSE
    PROVE  Spec => []RefCountsExact
<1>1. TypeOK /\ Good(db) => RefCountsExact
  BY DEF Good, RefCountsExact
<1> QED
  BY <1>1, GoodInvariance, PTL

\* No index loses a child.
THEOREM IndexesStayComplete ==
    ASSUME Overlap = FALSE
    PROVE  Spec => []IndexComplete
<1>1. TypeOK /\ Good(db) => IndexComplete
  BY DEF Good, IndexComplete
<1> QED
  BY <1>1, GoodInvariance, PTL

\* The blobs of a stored image keep their rows and links: the collector, blob
\* deletes and wipes of other repositories never take them.
THEOREM ImagesStayServable ==
    ASSUME Overlap = FALSE
    PROVE  Spec => []ImagesServable
<1>1. TypeOK /\ Good(db) => ImagesServable
  BY DEF Good, ImagesServable
<1> QED
  BY <1>1, GoodInvariance, PTL
=============================================================================
