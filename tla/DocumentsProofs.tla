--------------------------- MODULE DocumentsProofs ---------------------------
(***************************************************************************)
(* The rows and the store of a case's documents agree, and its versions    *)
(* have neither gaps nor doubles, for any number of uploads, purges and    *)
(* faults.  Only safety: that due documents are purged in the end is left  *)
(* to the runs.                                                            *)
(***************************************************************************)
EXTENDS Documents, FiniteSetTheorems, TLAPS

-----------------------------------------------------------------------------
(***************************************************************************)
(* What the steps do to a document                                         *)
(***************************************************************************)
Chain(r) == <<r.logical, r.version, r.supersedes>>

Marks(r) == <<r.deleted, r.purged>>

\* A step of one upload moves one document from stage to stage.
LEMMA StageStep ==
  ASSUME doc \in [Docs -> Document], NEW d \in Docs, NEW s \in Stages, Stage(d, s)
  PROVE  /\ doc' \in [Docs -> Document]
         /\ doc'[d].stage = s
         /\ \A e \in Docs \ {d} : doc'[e] = doc[e]
         /\ \A e \in Docs : Chain(doc'[e]) = Chain(doc[e]) /\ Marks(doc'[e]) = Marks(doc[e])
<1>1. doc[d] \in Document
  OBVIOUS
<1>2. [doc[d] EXCEPT !.stage = s] \in Document
  BY <1>1 DEF Document
<1>3. doc' = [doc EXCEPT ![d] = [doc[d] EXCEPT !.stage = s]]
  BY DEF Stage
<1>4. doc'[d] = [doc[d] EXCEPT !.stage = s] /\ \A e \in Docs \ {d} : doc'[e] = doc[e]
  BY <1>3
<1>5. doc' \in [Docs -> Document]
  BY <1>2, <1>3
<1>6. doc'[d].stage = s /\ Chain(doc'[d]) = Chain(doc[d]) /\ Marks(doc'[d]) = Marks(doc[d])
  BY <1>1, <1>4 DEF Chain, Marks, Document
<1> QED
  BY <1>4, <1>5, <1>6

\* A replacement takes its place in a chain of versions.
LEMMA ReplacementStep ==
  ASSUME doc \in [Docs -> Document], NEW d \in Docs, NEW previous \in Docs,
         BeginReplacement(d, previous),
         LatestVersion(doc[previous].logical) \in Nat
  PROVE  /\ doc' \in [Docs -> Document]
         /\ doc'[d].stage = "received"
         /\ doc'[d].logical = doc[previous].logical
         /\ doc'[d].version = LatestVersion(doc[previous].logical) + 1
         /\ doc'[d].supersedes = previous
         /\ \A e \in Docs \ {d} : doc'[e] = doc[e]
         /\ Marks(doc'[d]) = Marks(doc[d])
<1> DEFINE l == doc[previous].logical
           v == LatestVersion(l) + 1
           r == [doc[d] EXCEPT !.stage = "received", !.logical = l, !.version = v,
                               !.supersedes = previous]
<1>1. doc[d] \in Document /\ l \in Docs /\ v \in Nat
  BY DEF Document
<1>2. doc' = [doc EXCEPT ![d] = r]
  BY DEF BeginReplacement
<1> HIDE DEF l, v
<1>3. r \in Document
  BY <1>1 DEF Document, Stages
<1>4. /\ r.stage = "received" /\ r.logical = l /\ r.version = v /\ r.supersedes = previous
      /\ Marks(r) = Marks(doc[d])
  BY <1>1 DEF Document, Marks
<1> HIDE DEF r
<1> QED
  BY <1>2, <1>3, <1>4 DEF l, v

\* A purge marks rows and does nothing else to documents.
LEMMA MarkStep ==
  ASSUME doc \in [Docs -> Document], NEW p \in Purgers, MarkPurged(p)
  PROVE  /\ doc' \in [Docs -> Document]
         /\ \A e \in Docs : doc'[e].stage = doc[e].stage /\ Chain(doc'[e]) = Chain(doc[e])
         /\ \A e \in Docs \ purge[p].done : doc'[e] = doc[e]
         /\ \A e \in purge[p].done \cap Docs : doc'[e].deleted /\ doc'[e].purged
<1>1. ASSUME NEW e \in Docs
      PROVE  /\ doc'[e] \in Document
             /\ doc'[e].stage = doc[e].stage /\ Chain(doc'[e]) = Chain(doc[e])
             /\ e \notin purge[p].done => doc'[e] = doc[e]
             /\ e \in purge[p].done => doc'[e].deleted /\ doc'[e].purged
  <2>1. doc[e] \in Document
    OBVIOUS
  <2>2. doc'[e] = IF e \in purge[p].done THEN [doc[e] EXCEPT !.deleted = TRUE, !.purged = TRUE]
                  ELSE doc[e]
    BY DEF MarkPurged
  <2>3. CASE e \in purge[p].done
    BY <2>1, <2>2, <2>3 DEF Document, Chain
  <2>4. CASE e \notin purge[p].done
    BY <2>1, <2>2, <2>4
  <2> QED
    BY <2>3, <2>4
<1>2. doc' = [e \in Docs |-> doc'[e]]
  BY DEF MarkPurged
<1> QED
  BY <1>1, <1>2

\* A user's archiving marks one live row.
LEMMA DeleteStep ==
  ASSUME doc \in [Docs -> Document], NEW d \in Docs, ArchiveAttachment(d)
  PROVE  /\ doc' \in [Docs -> Document]
         /\ doc'[d].deleted /\ doc'[d].purged = doc[d].purged
         /\ \A e \in Docs : doc'[e].stage = doc[e].stage /\ Chain(doc'[e]) = Chain(doc[e])
         /\ \A e \in Docs \ {d} : doc'[e] = doc[e]
<1>1. doc[d] \in Document
  OBVIOUS
<1>2. doc' = [doc EXCEPT ![d] = [doc[d] EXCEPT !.deleted = TRUE]]
  BY DEF ArchiveAttachment
<1>3. [doc[d] EXCEPT !.deleted = TRUE] \in Document
  BY <1>1 DEF Document
<1>4. doc'[d] = [doc[d] EXCEPT !.deleted = TRUE] /\ \A e \in Docs \ {d} : doc'[e] = doc[e]
  BY <1>2
<1>5. /\ doc'[d].deleted /\ doc'[d].purged = doc[d].purged
      /\ doc'[d].stage = doc[d].stage /\ Chain(doc'[d]) = Chain(doc[d])
  BY <1>1, <1>4 DEF Document, Chain
<1> QED
  BY <1>2, <1>3, <1>4, <1>5

-----------------------------------------------------------------------------
(***************************************************************************)
(* The inductive invariant                                                 *)
(***************************************************************************)
RowsOf(l) == {e \in Docs : IsRow(e) /\ doc[e].logical = l}

Count(l) == Cardinality(RowsOf(l))

\* The versions of each logical document; VersionHistory says it of those that
\* have a row, and an insertion must know it of the others too.
VersionsOK == \A l \in Docs : VersionsOf(l) = 1 .. Count(l)

\* The version an upload computed may be taken by now, never beyond the next.
ChainOK(d) ==
  /\ \A l \in Docs : doc[d].logical = l => doc[d].version \in 1 .. Count(l) + 1
  /\ \A e \in Docs : doc[d].supersedes = e =>
       IsRow(e) /\ doc[e].logical = doc[d].logical /\ doc[e].version < doc[d].version

ChainsOK == \A d \in Docs : ChainOK(d)

StoreOK ==
  \A d \in Docs :
    /\ doc[d].purged => doc[d].deleted /\ IsRow(d) /\ d \notin store
    /\ doc[d].stage = "stored" => d \in store
    /\ IsRow(d) => d \in store \/ d \in wasDue

\* The history has every row of a case that is due now.
HistoryOK == CaseDue => \A d \in Docs : IsRow(d) => d \in wasDue

\* A purge under way is about rows whose case was due when it began.
PurgesOK ==
  \A p \in Purgers : Purging(p) =>
    /\ \A d \in purge[p].todo \cup purge[p].done : IsRow(d) /\ d \in wasDue
    /\ purge[p].done \cap store = {}

Inv ==
  /\ TypeOK
  /\ VersionsOK
  /\ ChainsOK
  /\ StoreOK
  /\ HistoryOK
  /\ PurgesOK
  /\ SentWithDocuments

-----------------------------------------------------------------------------
(***************************************************************************)
(* Counting versions                                                       *)
(***************************************************************************)
\* The rows of a logical document are finitely many.
LEMMA RowsFinite ==
  ASSUME NEW l
  PROVE  IsFiniteSet(RowsOf(l)) /\ Count(l) \in Nat
<1>1. IsFiniteSet(Docs)
  BY MaxDocsAssumption, FS_Interval DEF Docs
<1>2. RowsOf(l) \subseteq Docs
  BY DEF RowsOf
<1> QED
  BY <1>1, <1>2, FS_Subset, FS_CardinalityType DEF Count

\* The maximum that a replacement computes from is the number of versions.
LEMMA LatestIsCount ==
  ASSUME VersionsOK, doc \in [Docs -> Document], NEW d \in Docs, IsRow(d)
  PROVE  LatestVersion(doc[d].logical) = Count(doc[d].logical)
<1> DEFINE l == doc[d].logical
           n == Count(l)
<1>1. l \in Docs /\ n \in Nat
  BY RowsFinite DEF Document
<1>2. VersionsOf(l) = 1 .. n
  BY <1>1 DEF VersionsOK
<1>3. doc[d].version \in VersionsOf(l)
  BY DEF VersionsOf
<1> HIDE DEF l, n
<1>4. n \in 1 .. n
  BY <1>1, <1>2, <1>3
<1>5. LatestVersion(l) = CHOOSE v \in 1 .. n : \A w \in 1 .. n : w <= v
  BY <1>2 DEF LatestVersion
<1>6. \A w \in 1 .. n : w <= n
  BY <1>1
<1>7. \A v \in 1 .. n : (\A w \in 1 .. n : w <= v) => v = n
  BY <1>1, <1>4
<1>8. LatestVersion(l) = n
  BY <1>4, <1>5, <1>6, <1>7
<1> QED
  BY <1>8 DEF l, n

\* A step that inserts no row leaves the versions as they are.
LEMMA SameRows ==
  ASSUME \A e \in Docs : IsRow(e)' <=> IsRow(e),
         \A e \in Docs : IsRow(e) => Chain(doc'[e]) = Chain(doc[e]),
         NEW l
  PROVE  VersionsOf(l)' = VersionsOf(l) /\ Count(l)' = Count(l)
<1>1. RowsOf(l)' = RowsOf(l)
  BY DEF RowsOf, Chain
<1>2. VersionsOf(l)' = VersionsOf(l)
  BY <1>1 DEF RowsOf, VersionsOf, Chain
<1> QED
  BY <1>1, <1>2 DEF Count

\* What keeps the rows, and the chain of every document, keeps the versions.
LEMMA ChainsKept ==
  ASSUME VersionsOK, ChainsOK, doc \in [Docs -> Document],
         \A e \in Docs : IsRow(e)' <=> IsRow(e),
         \A e \in Docs : Chain(doc'[e]) = Chain(doc[e])
  PROVE  VersionsOK' /\ ChainsOK'
<1>1. \A l \in Docs : VersionsOf(l)' = VersionsOf(l) /\ Count(l)' = Count(l)
  BY SameRows
<1>2. VersionsOK'
  BY <1>1 DEF VersionsOK
<1>3. ASSUME NEW e \in Docs PROVE ChainOK(e)'
  <2>1. ChainOK(e) /\ doc[e] \in Document
    BY DEF ChainsOK
  <2>2. /\ doc'[e].logical = doc[e].logical /\ doc'[e].version = doc[e].version
        /\ doc'[e].supersedes = doc[e].supersedes
    BY DEF Chain
  <2>3. ASSUME NEW l \in Docs, doc'[e].logical = l PROVE doc'[e].version \in 1 .. Count(l)' + 1
    BY <1>1, <2>1, <2>2, <2>3 DEF ChainOK
  <2>4. ASSUME NEW s \in Docs, doc'[e].supersedes = s
        PROVE  IsRow(s)' /\ doc'[s].logical = doc'[e].logical /\ doc'[s].version < doc'[e].version
    <3>1. IsRow(s) /\ doc[s].logical = doc[e].logical /\ doc[s].version < doc[e].version
      BY <2>1, <2>2, <2>4 DEF ChainOK
    <3>2. doc'[s].logical = doc[s].logical /\ doc'[s].version = doc[s].version
      BY DEF Chain
    <3> QED
      BY <2>2, <3>1, <3>2
  <2> QED
    BY <2>3, <2>4 DEF ChainOK
<1> QED
  BY <1>2, <1>3 DEF ChainsOK

\* A replacement computes the next version after the one it replaces.
LEMMA ReplacementVersions ==
  ASSUME Inv, NEW d \in Docs, NEW previous \in Docs, BeginReplacement(d, previous)
  PROVE  doc' \in [Docs -> Document] /\ VersionsOK' /\ ChainsOK'
<1> DEFINE l == doc[previous].logical
           n == Count(l)
<1>1. doc \in [Docs -> Document] /\ IsRow(previous) /\ doc[d].stage = "new" /\ l \in Docs
  BY DEF Inv, TypeOK, BeginReplacement, Live, Fresh, Document
<1>2. n \in Nat /\ LatestVersion(l) = n
  BY <1>1, RowsFinite, LatestIsCount DEF Inv
<1>3. /\ doc' \in [Docs -> Document]
      /\ doc'[d].stage = "received" /\ doc'[d].logical = l
      /\ doc'[d].version = n + 1 /\ doc'[d].supersedes = previous
      /\ \A e \in Docs \ {d} : doc'[e] = doc[e]
  BY <1>1, <1>2, ReplacementStep
<1>4. \A e \in Docs : IsRow(e)' <=> IsRow(e)
  BY <1>1, <1>3 DEF IsRow
<1>5. \A e \in Docs : IsRow(e) => doc'[e] = doc[e]
  BY <1>1, <1>3 DEF IsRow
<1>6. \A m \in Docs : VersionsOf(m)' = VersionsOf(m) /\ Count(m)' = Count(m)
  BY <1>4, <1>5, SameRows DEF Chain
<1>7. VersionsOK'
  BY <1>6 DEF Inv, VersionsOK
<1>8. doc[previous].version \in 1 .. n
  BY <1>1 DEF Inv, VersionsOK, VersionsOf
<1>9. ASSUME NEW e \in Docs PROVE ChainOK(e)'
  <2>1. ChainOK(e)
    BY DEF Inv, ChainsOK
  <2>2. CASE e = d
    <3>1. doc'[d].version \in 1 .. Count(l)' + 1
      BY <1>1, <1>2, <1>3, <1>6
    <3>2. IsRow(previous)' /\ doc'[previous] = doc[previous]
      BY <1>1, <1>4, <1>5
    <3>3. doc[previous].version < n + 1
      BY <1>2, <1>8
    <3> QED
      BY <1>3, <2>2, <3>1, <3>2, <3>3 DEF ChainOK
  <2>3. CASE e # d
    <3>1. doc'[e] = doc[e]
      BY <1>3, <2>3
    <3>2. \A m \in Docs : doc'[e].logical = m => doc'[e].version \in 1 .. Count(m)' + 1
      BY <1>6, <2>1, <3>1 DEF ChainOK
    <3>3. \A s \in Docs : doc'[e].supersedes = s =>
            IsRow(s)' /\ doc'[s].logical = doc'[e].logical /\ doc'[s].version < doc'[e].version
      BY <1>4, <1>5, <2>1, <3>1 DEF ChainOK
    <3> QED
      BY <3>2, <3>3 DEF ChainOK
  <2> QED
    BY <2>2, <2>3
<1> QED
  BY <1>3, <1>7, <1>9 DEF ChainsOK

\* The unique constraint admits a row only as the next version.
LEMMA InsertVersions ==
  ASSUME Inv, NEW d \in Docs, InsertRow(d)
  PROVE  doc' \in [Docs -> Document] /\ VersionsOK' /\ ChainsOK'
<1>1. doc \in [Docs -> Document] /\ doc[d] \in Document /\ ~IsRow(d) /\ ~Taken(d)
  BY DEF Inv, TypeOK, InsertRow, IsRow
<1>2. /\ doc' \in [Docs -> Document]
      /\ doc'[d].stage = "row"
      /\ \A e \in Docs \ {d} : doc'[e] = doc[e]
      /\ \A e \in Docs : Chain(doc'[e]) = Chain(doc[e])
  BY <1>1, StageStep DEF InsertRow, Stages
<1>3. \A e \in Docs : IsRow(e)' <=> (IsRow(e) \/ e = d)
  BY <1>1, <1>2 DEF IsRow
<1>4. \A e \in Docs : /\ doc'[e].logical = doc[e].logical /\ doc'[e].version = doc[e].version
                      /\ doc'[e].supersedes = doc[e].supersedes
  BY <1>2 DEF Chain
<1>5. PICK l \in Docs : l = doc[d].logical
  BY <1>1 DEF Document
<1>6. PICK v : v = doc[d].version
  OBVIOUS
<1>7. PICK n \in Nat : n = Count(l)
  BY RowsFinite
<1>8. v = n + 1
  <2>1. VersionsOf(l) = 1 .. n /\ v \in 1 .. n + 1
    BY <1>5, <1>6, <1>7 DEF Inv, VersionsOK, ChainsOK, ChainOK
  <2>2. v \notin VersionsOf(l)
    BY <1>1, <1>5, <1>6 DEF VersionsOf, Taken
  <2> QED
    BY <2>1, <2>2
<1>9. Count(l)' = n + 1
  <2>1. RowsOf(l)' = RowsOf(l) \cup {d}
    BY <1>3, <1>4, <1>5 DEF RowsOf
  <2>2. d \notin RowsOf(l)
    BY <1>1 DEF RowsOf
  <2>3. Cardinality(RowsOf(l) \cup {d}) = Cardinality(RowsOf(l)) + 1
    BY <2>2, RowsFinite, FS_AddElement
  <2> QED
    BY <1>7, <2>1, <2>3 DEF Count
<1>10. VersionsOf(l)' = 1 .. n + 1
  <2>1. VersionsOf(l)' = VersionsOf(l) \cup {v}
    BY <1>3, <1>4, <1>5, <1>6 DEF VersionsOf
  <2>2. VersionsOf(l) = 1 .. n
    BY <1>7 DEF Inv, VersionsOK
  <2> QED
    BY <1>8, <2>1, <2>2
<1>11. ASSUME NEW m \in Docs, m # l PROVE VersionsOf(m)' = VersionsOf(m) /\ Count(m)' = Count(m)
  <2>1. RowsOf(m)' = RowsOf(m)
    BY <1>3, <1>4, <1>5, <1>11 DEF RowsOf
  <2>2. VersionsOf(m)' = VersionsOf(m)
    BY <1>4, <2>1 DEF VersionsOf, RowsOf
  <2> QED
    BY <2>1, <2>2 DEF Count
<1>12. VersionsOK'
  <2> SUFFICES ASSUME NEW m \in Docs PROVE VersionsOf(m)' = 1 .. Count(m)'
    BY DEF VersionsOK
  <2>1. CASE m = l
    BY <1>9, <1>10, <2>1
  <2>2. CASE m # l
    BY <1>11, <2>2 DEF Inv, VersionsOK
  <2> QED
    BY <2>1, <2>2
<1>13. \A m \in Docs : Count(m) \in Nat /\ (Count(m)' = Count(m) \/ Count(m)' = Count(m) + 1)
  BY <1>7, <1>9, <1>11, RowsFinite
<1>14. ASSUME NEW e \in Docs PROVE ChainOK(e)'
  <2>1. ChainOK(e) /\ doc[e].version \in Nat
    BY <1>1 DEF Inv, ChainsOK, Document
  <2>2. ASSUME NEW m \in Docs, doc'[e].logical = m PROVE doc'[e].version \in 1 .. Count(m)' + 1
    <3>1. doc[e].version \in 1 .. Count(m) + 1
      BY <1>4, <2>1, <2>2 DEF ChainOK
    <3> QED
      BY <1>4, <1>13, <2>1, <3>1
  <2>3. \A s \in Docs : doc'[e].supersedes = s =>
          IsRow(s)' /\ doc'[s].logical = doc'[e].logical /\ doc'[s].version < doc'[e].version
    BY <1>3, <1>4, <2>1 DEF ChainOK
  <2> QED
    BY <2>2, <2>3 DEF ChainOK
<1> QED
  BY <1>2, <1>12, <1>14 DEF ChainsOK

-----------------------------------------------------------------------------
(***************************************************************************)
(* The invariant is inductive                                              *)
(***************************************************************************)
\* The names of the steps that leave every document alone.
OtherStep ==
  \/ CaseStep
  \/ \E p \in Purgers : StartPurge(p) \/ CrashPurge(p)
  \/ \E p \in Purgers, d \in Docs : DeleteContent(p, d) \/ RefuseDelete(p, d)

LEMMA OtherKeepsDocuments ==
  ASSUME OtherStep
  PROVE  doc' = doc
BY DEF OtherStep, CaseStep, CommitRequest, DayPasses, SetAutomatic, StartPurge, CrashPurge, DeleteContent, RefuseDelete

\* Documents: their type and their versions, in every step.
LEMMA DocumentsKept ==
  ASSUME Inv, [Next]_vars
  PROVE  doc' \in [Docs -> Document] /\ VersionsOK' /\ ChainsOK'
<1>1. doc \in [Docs -> Document] /\ VersionsOK /\ ChainsOK
  BY DEF Inv, TypeOK
<1>2. ASSUME NEW d \in Docs, NEW s \in Stages \ {"row"}, ~IsRow(d), Stage(d, s)
      PROVE  doc' \in [Docs -> Document] /\ VersionsOK' /\ ChainsOK'
  <2>1. /\ doc' \in [Docs -> Document]
        /\ doc'[d].stage = s
        /\ \A e \in Docs \ {d} : doc'[e] = doc[e]
        /\ \A e \in Docs : Chain(doc'[e]) = Chain(doc[e])
    BY <1>1, <1>2, StageStep
  <2>2. \A e \in Docs : IsRow(e)' <=> IsRow(e)
    BY <1>2, <2>1 DEF IsRow
  <2> QED
    BY <1>1, <2>1, <2>2, ChainsKept
<1>3. ASSUME doc' = doc PROVE doc' \in [Docs -> Document] /\ VersionsOK' /\ ChainsOK'
  BY <1>1, <1>3, ChainsKept DEF IsRow
<1>4. ASSUME NEW d \in Docs, BeginUpload(d)
      PROVE  doc' \in [Docs -> Document] /\ VersionsOK' /\ ChainsOK'
  BY <1>2, <1>4 DEF BeginUpload, Fresh, IsRow, Stages
<1>5. ASSUME NEW d \in Docs, NEW previous \in Docs, BeginReplacement(d, previous)
      PROVE  doc' \in [Docs -> Document] /\ VersionsOK' /\ ChainsOK'
  BY <1>5, ReplacementVersions
<1>6. ASSUME NEW d \in Docs, RefuseUpload(d) \/ StoreContent(d) \/ LoseUpload(d)
      PROVE  doc' \in [Docs -> Document] /\ VersionsOK' /\ ChainsOK'
  BY <1>2, <1>6 DEF RefuseUpload, StoreContent, LoseUpload, IsRow, Stages
<1>7. ASSUME NEW d \in Docs, InsertRow(d)
      PROVE  doc' \in [Docs -> Document] /\ VersionsOK' /\ ChainsOK'
  BY <1>7, InsertVersions
<1>8. ASSUME NEW d \in Docs, ArchiveAttachment(d)
      PROVE  doc' \in [Docs -> Document] /\ VersionsOK' /\ ChainsOK'
  BY <1>1, <1>8, DeleteStep, ChainsKept DEF IsRow
<1>9. ASSUME NEW p \in Purgers, CommitPurge(p)
      PROVE  doc' \in [Docs -> Document] /\ VersionsOK' /\ ChainsOK'
  BY <1>1, <1>9, MarkStep, ChainsKept DEF IsRow, CommitPurge
<1>10. ASSUME OtherStep PROVE doc' \in [Docs -> Document] /\ VersionsOK' /\ ChainsOK'
  BY <1>3, <1>10, OtherKeepsDocuments
<1>11. CASE UNCHANGED vars
  BY <1>3, <1>11 DEF vars
<1> QED
  BY <1>4, <1>5, <1>6, <1>7, <1>8, <1>9, <1>10, <1>11
  DEF Next, DocumentStep, PurgeProgress, PurgeFault, OtherStep

\* No step takes a row away, and the history only grows.
LEMMA RowsStay ==
  ASSUME Inv, [Next]_vars
  PROVE  /\ \A e \in Docs : IsRow(e) => IsRow(e)'
         /\ wasDue \subseteq wasDue'
<1>1. doc \in [Docs -> Document]
  BY DEF Inv, TypeOK
<1>2. ASSUME NEW d \in Docs, NEW s \in Stages, Stage(d, s), ~IsRow(d)
      PROVE  \A e \in Docs : IsRow(e) => IsRow(e)'
  BY <1>1, <1>2, StageStep DEF IsRow
<1>3. ASSUME DocumentStep PROVE \A e \in Docs : IsRow(e) => IsRow(e)'
  <2>1. ASSUME NEW d \in Docs, BeginUpload(d) \/ RefuseUpload(d) \/ StoreContent(d)
                                 \/ InsertRow(d) \/ LoseUpload(d)
        PROVE  \A e \in Docs : IsRow(e) => IsRow(e)'
    BY <1>2, <2>1 DEF BeginUpload, Fresh, RefuseUpload, StoreContent, InsertRow, LoseUpload,
                      IsRow, Stages
  <2>2. ASSUME NEW d \in Docs, NEW previous \in Docs, BeginReplacement(d, previous)
        PROVE  \A e \in Docs : IsRow(e) => IsRow(e)'
    BY <1>1, <2>2 DEF BeginReplacement, Fresh, IsRow
  <2>3. ASSUME NEW d \in Docs, ArchiveAttachment(d)
        PROVE  \A e \in Docs : IsRow(e) => IsRow(e)'
    BY <1>1, <2>3, DeleteStep DEF IsRow
  <2> QED
    BY <1>3, <2>1, <2>2, <2>3 DEF DocumentStep
<1>4. ASSUME NEW p \in Purgers, CommitPurge(p) PROVE \A e \in Docs : IsRow(e) => IsRow(e)'
  BY <1>1, <1>4, MarkStep DEF IsRow, CommitPurge
<1>5. ASSUME OtherStep \/ UNCHANGED vars PROVE \A e \in Docs : IsRow(e) => IsRow(e)'
  BY <1>5, OtherKeepsDocuments DEF IsRow, vars
<1>6. \A e \in Docs : IsRow(e) => IsRow(e)'
  BY <1>3, <1>4, <1>5 DEF Next, PurgeProgress, PurgeFault, OtherStep
<1>7. wasDue \subseteq wasDue'
  BY DEF Next, Remember, vars
<1> QED
  BY <1>6, <1>7

\* One content of a purge is dealt with: deleted, or refused by the store.
LEMMA PurgeStep ==
  ASSUME TypeOK, NEW p \in Purgers, NEW d \in Docs, Purging(p), NEW gone \in SUBSET {d},
         purge' = [purge EXCEPT ![p] = [todo |-> purge[p].todo \ {d},
                                        done |-> purge[p].done \cup gone]]
  PROVE  /\ purge' \in [Purgers -> Purge \cup {None}]
         /\ purge'[p] = [todo |-> purge[p].todo \ {d}, done |-> purge[p].done \cup gone]
         /\ \A q \in Purgers \ {p} : purge'[q] = purge[q]
<1>1. purge[p] \in Purge
  BY DEF TypeOK, Purging
<1>2. [todo |-> purge[p].todo \ {d}, done |-> purge[p].done \cup gone] \in Purge
  BY <1>1 DEF Purge
<1> QED
  BY <1>2 DEF TypeOK

\* The two steps of a purge on one content, in that form.
LEMMA PurgeStepForm ==
  ASSUME TypeOK, NEW p \in Purgers, NEW d \in Docs
  PROVE  /\ DeleteContent(p, d) =>
              purge' = [purge EXCEPT ![p] = [todo |-> purge[p].todo \ {d},
                                             done |-> purge[p].done \cup {d}]]
         /\ RefuseDelete(p, d) =>
              purge' = [purge EXCEPT ![p] = [todo |-> purge[p].todo \ {d},
                                             done |-> purge[p].done \cup {}]]
<1>1. ASSUME Purging(p)
      PROVE  /\ [purge[p] EXCEPT !.todo = @ \ {d}, !.done = @ \cup {d}]
                  = [todo |-> purge[p].todo \ {d}, done |-> purge[p].done \cup {d}]
             /\ [purge[p] EXCEPT !.todo = @ \ {d}]
                  = [todo |-> purge[p].todo \ {d}, done |-> purge[p].done \cup {}]
  <2>1. purge[p] \in Purge
    BY <1>1 DEF TypeOK, Purging
  <2>2. ASSUME NEW r \in Purge, NEW a \in SUBSET Docs, NEW b \in SUBSET Docs
        PROVE  /\ [r EXCEPT !.todo = a, !.done = b] = [todo |-> a, done |-> b]
               /\ [r EXCEPT !.todo = a] = [todo |-> a, done |-> r.done]
    <3> DEFINE x == [r EXCEPT !.todo = a, !.done = b]
               y == [r EXCEPT !.todo = a]
    <3>1. x \in Purge /\ x.todo = a /\ x.done = b
      BY DEF Purge
    <3>2. y \in Purge /\ y.todo = a /\ y.done = r.done
      BY DEF Purge
    <3>3. \A q \in Purge : q = [todo |-> q.todo, done |-> q.done]
      BY DEF Purge
    <3> HIDE DEF x, y
    <3>4. x = [todo |-> a, done |-> b] /\ y = [todo |-> a, done |-> r.done]
      BY <3>1, <3>2, <3>3
    <3> QED
      BY <3>4 DEF x, y
  <2>3. /\ purge[p].todo \ {d} \in SUBSET Docs
        /\ purge[p].done \cup {d} \in SUBSET Docs
        /\ purge[p].done \cup {} = purge[p].done
    BY <2>1 DEF Purge
  <2> QED
    BY <2>1, <2>2, <2>3
<1> QED
  BY <1>1 DEF DeleteContent, RefuseDelete, Turn

\* Types of everything but the documents, in every step.
LEMMA RestTyped ==
  ASSUME Inv, [Next]_vars
  PROVE  /\ status' \in {"DRAFT", "SENT", "ARCHIVED"}
         /\ retention' \in Dates
         /\ today' \in 0 .. LastDay
         /\ automatic' \in BOOLEAN
         /\ pending' \subseteq Write
         /\ store' \subseteq Docs
         /\ faults' \in 0 .. MaxFaults
         /\ wasDue' \subseteq Docs
<1> DEFINE Columns ==
      /\ status' \in {"DRAFT", "SENT", "ARCHIVED"}
      /\ retention' \in Dates
      /\ today' \in 0 .. LastDay
      /\ automatic' \in BOOLEAN
<1>1. /\ status \in {"DRAFT", "SENT", "ARCHIVED"}
      /\ retention \in Dates
      /\ today \in 0 .. LastDay /\ LastDay \in Nat
      /\ automatic \in BOOLEAN
  BY DatesAssumption DEF Inv, TypeOK
<1>2. /\ store \subseteq Docs /\ faults \in 0 .. MaxFaults /\ MaxFaults \in Nat
      /\ pending \subseteq Write /\ wasDue \subseteq Docs
  BY FaultsAssumption DEF Inv, TypeOK
<1>3. UNCHANGED columns => Columns
  BY <1>1 DEF columns
<1>4. pending' \subseteq Write /\ wasDue' \subseteq Docs
  BY <1>2 DEF Next, Remember, vars
<1>5. CASE DocumentStep
  <2>1. UNCHANGED columns /\ UNCHANGED faults /\ store' \subseteq Docs
    BY <1>2, <1>5 DEF DocumentStep, BeginUpload, BeginReplacement, RefuseUpload,
                      StoreContent, InsertRow, LoseUpload, ArchiveAttachment
  <2> QED
    BY <1>2, <1>3, <1>4, <2>1
<1>6. CASE CaseStep
  <2>1. UNCHANGED <<store, faults>>
    BY <1>6 DEF CaseStep, CommitRequest, DayPasses, SetAutomatic
  <2>2. ASSUME NEW w \in Write, CommitRequest(w) PROVE Columns
    <3>1. w.status \in {"SENT", "ARCHIVED"} /\ (w.retention = Kept \/ w.retention \in Dates)
      BY DEF Write
    <3> QED
      BY <1>1, <2>2, <3>1 DEF CommitRequest
  <2>3. ASSUME DayPasses PROVE Columns
    BY <1>1, <2>3 DEF DayPasses
  <2>4. ASSUME NEW on \in BOOLEAN, SetAutomatic(on) PROVE Columns
    BY <1>1, <2>4 DEF SetAutomatic
  <2> QED
    BY <1>2, <1>4, <1>6, <2>1, <2>2, <2>3, <2>4 DEF CaseStep
<1>7. ASSUME NEW p \in Purgers, PurgeProgress(p) \/ PurgeFault(p)
      PROVE  UNCHANGED columns /\ store' \subseteq Docs /\ faults' \in 0 .. MaxFaults
  <2>1. PurgeProgress(p) => UNCHANGED columns /\ store' \subseteq Docs /\ UNCHANGED faults
    BY <1>2 DEF PurgeProgress, StartPurge, DeleteContent, CommitPurge
  <2>2. PurgeFault(p) =>
          UNCHANGED columns /\ UNCHANGED store /\ faults < MaxFaults /\ faults' = faults + 1
    BY DEF PurgeFault, CrashPurge, RefuseDelete
  <2> QED
    BY <1>2, <1>7, <2>1, <2>2
<1>8. CASE \E p \in Purgers : PurgeProgress(p) \/ PurgeFault(p)
  BY <1>3, <1>4, <1>7, <1>8
<1>9. CASE UNCHANGED vars
  BY <1>2, <1>3, <1>4, <1>9 DEF vars
<1> QED
  BY <1>5, <1>6, <1>8, <1>9 DEF Next

\* The types of the purges under way.
LEMMA PurgeTyped ==
  ASSUME Inv, [Next]_vars
  PROVE  purge' \in [Purgers -> Purge \cup {None}]
<1>1. TypeOK /\ purge \in [Purgers -> Purge \cup {None}]
  BY DEF Inv, TypeOK
<1>2. ASSUME NEW p \in Purgers, NEW d \in Docs, DeleteContent(p, d) \/ RefuseDelete(p, d)
      PROVE  purge' \in [Purgers -> Purge \cup {None}]
  <2>1. \E gone \in SUBSET {d} :
          purge' = [purge EXCEPT ![p] = [todo |-> purge[p].todo \ {d},
                                         done |-> purge[p].done \cup gone]]
    <3>1. {d} \in SUBSET {d} /\ {} \in SUBSET {d}
      OBVIOUS
    <3>2. CASE DeleteContent(p, d)
      BY <1>1, <3>1, <3>2, PurgeStepForm
    <3>3. CASE RefuseDelete(p, d)
      BY <1>1, <3>1, <3>3, PurgeStepForm
    <3> QED
      BY <1>2, <3>2, <3>3
  <2>2. Purging(p)
    BY <1>2 DEF DeleteContent, RefuseDelete, Turn
  <2> QED
    BY <1>1, <2>1, <2>2, PurgeStep
<1>3. ASSUME NEW p \in Purgers, StartPurge(p) PROVE purge' \in [Purgers -> Purge \cup {None}]
  <2>1. [todo |-> Eligible, done |-> {}] \in Purge
    BY DEF Purge, Eligible
  <2> QED
    BY <1>1, <1>3, <2>1 DEF StartPurge
<1>4. ASSUME NEW p \in Purgers, CommitPurge(p) \/ CrashPurge(p)
      PROVE  purge' \in [Purgers -> Purge \cup {None}]
  BY <1>1, <1>4 DEF CommitPurge, CrashPurge
<1>5. ASSUME DocumentStep \/ CaseStep \/ UNCHANGED vars PROVE purge' = purge
  BY <1>5 DEF DocumentStep, CaseStep, vars, BeginUpload, BeginReplacement, RefuseUpload, StoreContent,
              InsertRow, LoseUpload, ArchiveAttachment, CommitRequest, DayPasses, SetAutomatic
<1> QED
  BY <1>1, <1>2, <1>3, <1>4, <1>5 DEF Next, PurgeProgress, PurgeFault

\* What one document must satisfy with respect to the store.
StoredOK(e) ==
  /\ doc[e].purged => doc[e].deleted /\ IsRow(e) /\ e \notin store
  /\ doc[e].stage = "stored" => e \in store
  /\ IsRow(e) => e \in store \/ e \in wasDue

\* What one purge must satisfy.
PurgeOK(p) ==
  Purging(p) => /\ \A d \in purge[p].todo \cup purge[p].done : IsRow(d) /\ d \in wasDue
                /\ purge[p].done \cap store = {}

\* An upload keeps rows and store in agreement.
LEMMA UploadKeepsStore ==
  ASSUME Inv, [Next]_vars, NEW d \in Docs,
         \/ BeginUpload(d) \/ RefuseUpload(d) \/ StoreContent(d) \/ InsertRow(d) \/ LoseUpload(d)
         \/ \E previous \in Docs : BeginReplacement(d, previous)
  PROVE  StoreOK' /\ PurgesOK'
<1>1. doc \in [Docs -> Document] /\ store \subseteq Docs /\ purge \in [Purgers -> Purge \cup {None}]
  BY DEF Inv, TypeOK
<1>2. (\A e \in Docs : StoredOK(e)) /\ (\A p \in Purgers : PurgeOK(p))
  BY DEF Inv, StoreOK, StoredOK, PurgesOK, PurgeOK
<1>3. ~IsRow(d) /\ UNCHANGED purge
  BY DEF BeginUpload, BeginReplacement, RefuseUpload, StoreContent, InsertRow, LoseUpload, Fresh, IsRow
<1>4. store' = store \/ store' = store \cup {d}
  BY DEF BeginUpload, BeginReplacement, RefuseUpload, StoreContent, InsertRow, LoseUpload
<1>5. ~doc[d].purged
  BY <1>2, <1>3 DEF StoredOK
<1>6. /\ \A e \in Docs \ {d} : doc'[e] = doc[e]
      /\ Marks(doc'[d]) = Marks(doc[d])
      /\ doc'[d].stage \in {"stored", "row"} => d \in store'
  <2>1. ASSUME NEW s \in Stages, Stage(d, s)
        PROVE  /\ \A e \in Docs \ {d} : doc'[e] = doc[e]
               /\ Marks(doc'[d]) = Marks(doc[d])
               /\ doc'[d].stage = s
    BY <1>1, <2>1, StageStep
  <2>2. CASE BeginUpload(d) \/ RefuseUpload(d) \/ LoseUpload(d)
    BY <2>1, <2>2 DEF BeginUpload, RefuseUpload, LoseUpload, Stages
  <2>3. CASE StoreContent(d)
    BY <2>1, <2>3 DEF StoreContent, Stages
  <2>4. CASE InsertRow(d)
    BY <1>2, <2>1, <2>4 DEF InsertRow, StoredOK, Stages
  <2>5. ASSUME NEW previous \in Docs, BeginReplacement(d, previous)
        PROVE  /\ \A e \in Docs \ {d} : doc'[e] = doc[e]
               /\ Marks(doc'[d]) = Marks(doc[d])
               /\ doc'[d].stage = "received"
    <3>1. IsRow(previous)
      BY <2>5 DEF BeginReplacement, Live
    <3>2. LatestVersion(doc[previous].logical) \in Nat
      BY <1>1, <3>1, LatestIsCount, RowsFinite DEF Inv
    <3> QED
      BY <1>1, <2>5, <3>2, ReplacementStep
  <2> QED
    BY <2>2, <2>3, <2>4, <2>5
<1>7. wasDue \subseteq wasDue'
  BY RowsStay
<1>8. ASSUME NEW e \in Docs PROVE StoredOK(e)'
  <2>1. CASE e = d
    BY <1>5, <1>6, <2>1 DEF StoredOK, Marks, IsRow
  <2>2. CASE e # d
    BY <1>2, <1>4, <1>6, <1>7, <2>2 DEF StoredOK, IsRow
  <2> QED
    BY <2>1, <2>2
<1>9. ASSUME NEW p \in Purgers PROVE PurgeOK(p)'
  <2> SUFFICES ASSUME Purging(p)
               PROVE  /\ \A e \in purge[p].todo \cup purge[p].done : IsRow(e)' /\ e \in wasDue'
                      /\ purge[p].done \cap store' = {}
    BY <1>3 DEF PurgeOK, Purging
  <2>1. /\ \A e \in purge[p].todo \cup purge[p].done : IsRow(e) /\ e \in wasDue
        /\ purge[p].done \cap store = {}
    BY <1>2 DEF PurgeOK
  <2>2. purge[p].todo \cup purge[p].done \subseteq Docs
    BY <1>1 DEF Purging, Purge
  <2>3. \A e \in purge[p].todo \cup purge[p].done : e # d
    BY <1>3, <2>1
  <2> QED
    BY <1>4, <1>6, <1>7, <2>1, <2>2, <2>3 DEF IsRow
<1> QED
  BY <1>8, <1>9 DEF StoreOK, StoredOK, PurgesOK, PurgeOK

\* A purge marks only what it deleted, and deletes only what was due.
LEMMA PurgeKeepsStore ==
  ASSUME Inv, [Next]_vars, NEW p \in Purgers, PurgeProgress(p) \/ PurgeFault(p)
  PROVE  StoreOK' /\ PurgesOK'
<1>1. /\ TypeOK
      /\ doc \in [Docs -> Document]
      /\ store \subseteq Docs
      /\ purge \in [Purgers -> Purge \cup {None}]
  BY DEF Inv, TypeOK
<1>2. (\A e \in Docs : StoredOK(e)) /\ (\A q \in Purgers : PurgeOK(q))
  BY DEF Inv, StoreOK, StoredOK, PurgesOK, PurgeOK
<1>3. HistoryOK
  BY DEF Inv
<1>4. wasDue \subseteq wasDue'
  BY RowsStay
<1>5. \A e \in Docs : IsRow(e) => IsRow(e)'
  BY RowsStay
<1>6. ASSUME NEW q \in Purgers, Purging(q)
      PROVE  /\ \A e \in purge[q].todo \cup purge[q].done :
                   e \in Docs /\ IsRow(e) /\ e \in wasDue
             /\ purge[q].done \cap store = {}
  BY <1>1, <1>2, <1>6 DEF PurgeOK, Purging, Purge
<1>7. CASE StartPurge(p)
  <2>1. Eligible # {} /\ UNCHANGED <<doc, store>>
    BY <1>7 DEF StartPurge
  <2>2. /\ purge'[p] = [todo |-> Eligible, done |-> {}]
        /\ \A q \in Purgers \ {p} : purge'[q] = purge[q]
    BY <1>1, <1>7 DEF StartPurge
  <2>3. \A e \in Eligible : e \in Docs /\ IsRow(e) /\ e \in wasDue
    BY <1>3 DEF Eligible, HistoryOK
  <2>4. \A e \in Docs : StoredOK(e)'
    BY <1>2, <1>4, <2>1 DEF StoredOK, IsRow
  <2>5. PurgeOK(p)'
    BY <1>4, <1>5, <2>2, <2>3 DEF PurgeOK
  <2>6. \A q \in Purgers \ {p} : PurgeOK(q)'
    BY <1>4, <1>5, <1>6, <2>1, <2>2 DEF PurgeOK, Purging
  <2> QED
    BY <2>4, <2>5, <2>6 DEF StoreOK, StoredOK, PurgesOK, PurgeOK
<1>8. ASSUME NEW d \in Docs, DeleteContent(p, d) PROVE StoreOK' /\ PurgesOK'
  <2>1. Purging(p) /\ d \in purge[p].todo /\ store' = store \ {d} /\ doc' = doc
    BY <1>8 DEF DeleteContent, Turn
  <2>2. /\ purge'[p] = [todo |-> purge[p].todo \ {d}, done |-> purge[p].done \cup {d}]
        /\ \A q \in Purgers \ {p} : purge'[q] = purge[q]
    <3>1. {d} \in SUBSET {d}
      OBVIOUS
    <3>2. purge' = [purge EXCEPT ![p] = [todo |-> purge[p].todo \ {d},
                                         done |-> purge[p].done \cup {d}]]
      BY <1>1, <1>8, PurgeStepForm
    <3> QED
      BY <1>1, <2>1, <3>1, <3>2, PurgeStep
  <2>3. IsRow(d) /\ d \in wasDue
    BY <1>6, <2>1
  <2>4. \A e \in Docs : StoredOK(e)'
    BY <1>2, <1>4, <2>1, <2>3 DEF StoredOK, IsRow
  <2>5. PurgeOK(p)'
    <3>1. purge'[p].todo \cup purge'[p].done \subseteq purge[p].todo \cup purge[p].done
      BY <2>1, <2>2
    <3>2. purge'[p].done \cap store' = {}
      BY <1>6, <2>1, <2>2
    <3> QED
      BY <1>4, <1>5, <1>6, <2>1, <3>1, <3>2 DEF PurgeOK
  <2>6. \A q \in Purgers \ {p} : PurgeOK(q)'
    BY <1>4, <1>5, <1>6, <2>1, <2>2 DEF PurgeOK, Purging
  <2> QED
    BY <2>4, <2>5, <2>6 DEF StoreOK, StoredOK, PurgesOK, PurgeOK
<1>9. ASSUME NEW d \in Docs, RefuseDelete(p, d) PROVE StoreOK' /\ PurgesOK'
  <2>1. Purging(p) /\ UNCHANGED <<store, doc>>
    BY <1>9 DEF RefuseDelete, Turn
  <2>2. /\ purge'[p] = [todo |-> purge[p].todo \ {d}, done |-> purge[p].done]
        /\ \A q \in Purgers \ {p} : purge'[q] = purge[q]
    <3>1. {} \in SUBSET {d} /\ purge[p].done \cup {} = purge[p].done
      OBVIOUS
    <3>2. purge' = [purge EXCEPT ![p] = [todo |-> purge[p].todo \ {d},
                                         done |-> purge[p].done \cup {}]]
      BY <1>1, <1>9, PurgeStepForm
    <3> QED
      BY <1>1, <2>1, <3>1, <3>2, PurgeStep
  <2>3. \A e \in Docs : StoredOK(e)'
    BY <1>2, <1>4, <2>1 DEF StoredOK, IsRow
  <2>4. \A q \in Purgers : PurgeOK(q)'
    BY <1>4, <1>5, <1>6, <2>1, <2>2 DEF PurgeOK, Purging
  <2> QED
    BY <2>3, <2>4 DEF StoreOK, StoredOK, PurgesOK, PurgeOK
<1>10. CASE CommitPurge(p)
  <2>1. Purging(p) /\ MarkPurged(p) /\ UNCHANGED store
    BY <1>10 DEF CommitPurge
  <2>2. purge'[p] = None /\ \A q \in Purgers \ {p} : purge'[q] = purge[q]
    BY <1>1, <1>10 DEF CommitPurge
  <2>3. /\ \A e \in Docs : doc'[e].stage = doc[e].stage
        /\ \A e \in Docs \ purge[p].done : doc'[e] = doc[e]
        /\ \A e \in purge[p].done \cap Docs : doc'[e].deleted /\ doc'[e].purged
    BY <1>1, <2>1, MarkStep
  <2>4. ASSUME NEW e \in Docs PROVE StoredOK(e)'
    <3>1. CASE e \in purge[p].done
      BY <1>2, <1>4, <1>6, <2>1, <2>3, <3>1 DEF StoredOK, IsRow
    <3>2. CASE e \notin purge[p].done
      BY <1>2, <1>4, <2>1, <2>3, <3>2 DEF StoredOK, IsRow
    <3> QED
      BY <3>1, <3>2
  <2>5. \A q \in Purgers : PurgeOK(q)'
    BY <1>4, <1>5, <1>6, <2>1, <2>2 DEF PurgeOK, Purging
  <2> QED
    BY <2>4, <2>5 DEF StoreOK, StoredOK, PurgesOK, PurgeOK
<1>11. CASE CrashPurge(p)
  <2>1. UNCHANGED <<doc, store>>
    BY <1>11 DEF CrashPurge
  <2>2. purge'[p] = None /\ \A q \in Purgers \ {p} : purge'[q] = purge[q]
    BY <1>1, <1>11 DEF CrashPurge
  <2>3. \A e \in Docs : StoredOK(e)'
    BY <1>2, <1>4, <2>1 DEF StoredOK, IsRow
  <2>4. \A q \in Purgers : PurgeOK(q)'
    BY <1>4, <1>5, <1>6, <2>1, <2>2 DEF PurgeOK, Purging
  <2> QED
    BY <2>3, <2>4 DEF StoreOK, StoredOK, PurgesOK, PurgeOK
<1> QED
  BY <1>7, <1>8, <1>9, <1>10, <1>11 DEF PurgeProgress, PurgeFault

\* A user's archiving, and the steps of the case, disturb neither.
LEMMA OthersKeepStore ==
  ASSUME Inv, [Next]_vars,
         (\E d \in Docs : ArchiveAttachment(d)) \/ CaseStep \/ UNCHANGED vars
  PROVE  StoreOK' /\ PurgesOK'
<1>1. doc \in [Docs -> Document] /\ purge \in [Purgers -> Purge \cup {None}]
  BY DEF Inv, TypeOK
<1>2. (\A e \in Docs : StoredOK(e)) /\ (\A q \in Purgers : PurgeOK(q))
  BY DEF Inv, StoreOK, StoredOK, PurgesOK, PurgeOK
<1>3. UNCHANGED <<store, purge>>
  BY DEF ArchiveAttachment, CaseStep, CommitRequest, DayPasses, SetAutomatic, vars
<1>4. wasDue \subseteq wasDue' /\ (\A e \in Docs : IsRow(e) => IsRow(e)')
  BY RowsStay
<1>5. ASSUME NEW e \in Docs PROVE StoredOK(e)'
  <2>1. ASSUME NEW d \in Docs, ArchiveAttachment(d) PROVE StoredOK(e)'
    <3>1. IsRow(d) /\ ~doc[d].deleted
      BY <2>1 DEF ArchiveAttachment, Live
    <3>2. /\ doc'[d].deleted /\ doc'[d].purged = doc[d].purged
          /\ doc'[d].stage = doc[d].stage
          /\ \A f \in Docs \ {d} : doc'[f] = doc[f]
      BY <1>1, <2>1, DeleteStep
    <3>3. CASE e = d
      BY <1>2, <1>3, <1>4, <3>1, <3>2, <3>3 DEF StoredOK, IsRow
    <3>4. CASE e # d
      BY <1>2, <1>3, <1>4, <3>2, <3>4 DEF StoredOK, IsRow
    <3> QED
      BY <3>3, <3>4
  <2>2. ASSUME CaseStep \/ UNCHANGED vars PROVE StoredOK(e)'
    <3>1. doc' = doc
      BY <2>2, OtherKeepsDocuments DEF OtherStep, vars
    <3> QED
      BY <1>2, <1>3, <1>4, <3>1 DEF StoredOK, IsRow
  <2> QED
    BY <2>1, <2>2
<1>6. ASSUME NEW q \in Purgers PROVE PurgeOK(q)'
  <2> SUFFICES ASSUME Purging(q)
               PROVE  /\ \A e \in purge[q].todo \cup purge[q].done : IsRow(e)' /\ e \in wasDue'
                      /\ purge[q].done \cap store = {}
    BY <1>3 DEF PurgeOK, Purging
  <2>1. purge[q].todo \cup purge[q].done \subseteq Docs
    BY <1>1 DEF Purging, Purge
  <2> QED
    BY <1>2, <1>4, <2>1 DEF PurgeOK
<1> QED
  BY <1>5, <1>6 DEF StoreOK, StoredOK, PurgesOK, PurgeOK

\* The history learns of every row of a case that is due.
LEMMA HistoryKept ==
  ASSUME Inv, [Next]_vars
  PROVE  HistoryOK'
<1>1. CASE Next
  <2>1. wasDue' = wasDue \cup {d \in Docs : IsRow(d)' /\ CaseDue'}
    BY <1>1 DEF Next, Remember
  <2> QED
    BY <2>1 DEF HistoryOK
<1>2. CASE UNCHANGED vars
  BY <1>2 DEF Inv, HistoryOK, CaseDue, IsRow, vars, columns
<1> QED
  BY <1>1, <1>2

\* Once a sending has checked the list, its documents stay rows.
LEMMA SentKept ==
  ASSUME Inv, [Next]_vars
  PROVE  SentWithDocuments'
<1> DEFINE Listed == \A use \in Required : \E d \in Docs : IsRow(d) /\ PurposeOf[d] = use
<1>1. Listed => Listed'
  BY RowsStay
<1>2. SentWithDocuments = (status # "DRAFT" \/ pending # {} => Listed)
  BY DEF SentWithDocuments
<1>3. CASE status # "DRAFT" \/ pending # {}
  <2>1. Listed
    BY <1>2, <1>3 DEF Inv
  <2> QED
    BY <1>1, <2>1 DEF SentWithDocuments
<1>4. CASE status = "DRAFT" /\ pending = {}
  <2>1. status' = "DRAFT"
    <3>1. CASE DocumentStep \/ UNCHANGED vars \/ \E p \in Purgers : PurgeProgress(p) \/ PurgeFault(p)
      BY <1>4, <3>1 DEF DocumentStep, PurgeProgress, PurgeFault, BeginUpload, BeginReplacement,
         RefuseUpload, StoreContent, InsertRow, LoseUpload, ArchiveAttachment, StartPurge,
         DeleteContent, CommitPurge, CrashPurge, RefuseDelete, vars, columns
    <3>2. CASE CaseStep
      BY <1>4, <3>2 DEF CaseStep, CommitRequest, DayPasses, SetAutomatic
    <3> QED
      BY <3>1, <3>2 DEF Next
  <2>2. ASSUME NEW w \in Write, MayRead(w)' PROVE Listed'
    <3>1. Required \subseteq PresentPurposes'
      BY <2>1, <2>2 DEF MayRead, MaySend, MayProcess, MayArchive, MayRetain
    <3> QED
      BY <3>1 DEF PresentPurposes, Live
  <2>3. pending' # {} => \E w \in Write : MayRead(w)'
    BY <1>4 DEF Next, Remember, vars
  <2> QED
    BY <2>1, <2>2, <2>3 DEF SentWithDocuments
<1> QED
  BY <1>3, <1>4

\* Before the first upload.
LEMMA InitHolds == Init => Inv
<1> SUFFICES ASSUME Init PROVE Inv
  OBVIOUS
<1>1. \A d \in Docs : /\ doc[d].stage = "new" /\ doc[d].logical = d /\ doc[d].version = 1
                      /\ doc[d].supersedes = None /\ doc[d].purged = FALSE
  BY DEF Init
<1>2. \A d \in Docs : ~IsRow(d)
  BY <1>1 DEF IsRow
<1>3. \A l \in Docs : RowsOf(l) = {} /\ VersionsOf(l) = {}
  BY <1>2 DEF RowsOf, VersionsOf
<1>4. \A l \in Docs : Count(l) = 0
  BY <1>3, FS_EmptySet DEF Count
<1>5. VersionsOK
  BY <1>3, <1>4 DEF VersionsOK
<1>6. ChainsOK
  BY <1>1, <1>4, MaxDocsAssumption DEF ChainsOK, ChainOK, Docs
<1>7. StoreOK /\ HistoryOK /\ PurgesOK
  BY <1>1, <1>2 DEF Init, StoreOK, HistoryOK, PurgesOK, Purging
<1>8. doc \in [Docs -> Document]
  BY DEF Init, Document, Stages
<1>9. TypeOK /\ SentWithDocuments
  <2>1. /\ status = "DRAFT" /\ retention \in Dates /\ today \in 0 .. LastDay
        /\ automatic \in BOOLEAN /\ pending = {} /\ wasDue = {}
    <3>1. None \in Dates /\ 0 \in 0 .. LastDay
      BY DatesAssumption DEF Dates
    <3>2. /\ status = "DRAFT" /\ retention = None /\ today = 0
          /\ automatic = FALSE /\ pending = {} /\ wasDue = {}
      BY DEF Init
    <3> QED
      BY <3>1, <3>2
  <2>2. store \subseteq Docs /\ purge \in [Purgers -> Purge \cup {None}]
    BY DEF Init
  <2>3. faults \in 0 .. MaxFaults
    BY FaultsAssumption DEF Init
  <2> QED
    BY <1>1, <1>8, <2>1, <2>2, <2>3 DEF TypeOK, SentWithDocuments
<1> QED
  BY <1>5, <1>6, <1>7, <1>9 DEF Inv

\* Every step keeps every part.
LEMMA NextKeepsInv == Inv /\ [Next]_vars => Inv'
<1> SUFFICES ASSUME Inv, [Next]_vars PROVE Inv'
  OBVIOUS
<1>1. doc' \in [Docs -> Document] /\ VersionsOK' /\ ChainsOK'
  BY DocumentsKept
<1>2. StoreOK' /\ PurgesOK'
  BY UploadKeepsStore, PurgeKeepsStore, OthersKeepStore DEF Next, DocumentStep
<1>3. TypeOK'
  <2>1. (\A d \in Docs : doc[d].purged => doc[d].deleted)'
    BY <1>2 DEF StoreOK
  <2> QED
    BY <1>1, <2>1, RestTyped, PurgeTyped DEF TypeOK
<1>4. HistoryOK' /\ SentWithDocuments'
  BY HistoryKept, SentKept
<1> QED
  BY <1>1, <1>2, <1>3, <1>4 DEF Inv

-----------------------------------------------------------------------------
(***************************************************************************)
(* Results                                                                 *)
(***************************************************************************)
\* The invariant of a case's documents, for any number of uploads, of purges
\* and of faults, and any list of required uses.
THEOREM DocumentsInvariant == Spec => []Inv
<1>1. Init => Inv
  BY InitHolds
<1>2. Inv /\ [Next]_vars => Inv'
  BY NextKeepsInv
<1> QED
  BY <1>1, <1>2, PTL DEF Spec

\* Type correctness of documents, store and purges.
THEOREM DocumentsTyping == Spec => []TypeOK
<1>1. Inv => TypeOK
  BY DEF Inv
<1> QED
  BY <1>1, DocumentsInvariant, PTL

\* No content is lost before the row has been that of an archived case whose
\* retention was over, whatever stale requests then do to the case.
THEOREM KeptTheorem == Spec => []KeptUntilDue
<1>1. Inv => KeptUntilDue
  BY DEF Inv, StoreOK, KeptUntilDue, Readable
<1> QED
  BY <1>1, DocumentsInvariant, PTL

\* What is called purged is gone.
THEOREM PurgedTheorem == Spec => []PurgedIsGone
<1>1. Inv => PurgedIsGone
  BY DEF Inv, StoreOK, PurgedIsGone
<1> QED
  BY <1>1, DocumentsInvariant, PTL

\* The versions of a document are 1, 2, ... and each replaces an older one.
THEOREM VersionsTheorem == Spec => []VersionHistory
<1>1. ASSUME Inv PROVE VersionHistory
  <2> SUFFICES ASSUME NEW d \in Docs, IsRow(d)
               PROVE  /\ VersionsOf(doc[d].logical) = 1 .. Count(doc[d].logical)
                      /\ doc[d].supersedes # None =>
                           /\ IsRow(doc[d].supersedes)
                           /\ doc[doc[d].supersedes].logical = doc[d].logical
                           /\ doc[doc[d].supersedes].version < doc[d].version
    BY DEF VersionHistory, Count, RowsOf
  <2>1. ChainOK(d) /\ doc[d].logical \in Docs /\ doc[d].supersedes \in Docs \cup {None}
    BY <1>1 DEF Inv, TypeOK, ChainsOK, Document
  <2> QED
    BY <1>1, <2>1 DEF Inv, VersionsOK, ChainOK
<1> QED
  BY <1>1, DocumentsInvariant, PTL

\* A case that was sent had a document for each use on its list.
THEOREM SentTheorem == Spec => []SentWithDocuments
<1>1. Inv => SentWithDocuments
  BY DEF Inv
<1> QED
  BY <1>1, DocumentsInvariant, PTL

=============================================================================
