-------------------------- MODULE IsoLibraryProofs --------------------------
(***************************************************************************)
(* Proofs about the ISO library, for any number of uploads, downloads,     *)
(* deletes and crashes, any names and sizes and any limit.                 *)
(***************************************************************************)
EXTENDS IsoLibrary, FiniteSetTheorems, TLAPS

\* Names that no URL download asks for.
OwnNames == UploadNames \ DownloadNames

\* Steps between creating the file and deciding about it.
Holding == {"copy", "recheck", "insert", "remove"}

\* Which steps are whose, and which names; a recorded transfer is over.
WriterInv ==
    /\ \A w \in Uploaders :
          at[w] \in {"idle", "limit", "open", "copy", "recheck", "insert", "remove", "done"}
    /\ \A w \in Downloaders : name[w] \in DownloadNames \cup {NoName}
    /\ \A n \in Names :
          row[n] # NoWriter => at[row[n]] \in {"finish", "done"} /\ name[row[n]] = n

\* A name that no delete has spoilt: whoever transfers it owns the file at the path,
\* at most one delete of it is under way, and the row stays until that one is done.
Deleting(d, n) == del[d].at # "idle" /\ del[d].name = n
Owned(n) ==
    /\ \A w \in Writers : at[w] \in Holding /\ name[w] = n => file[n] = w
    /\ row[n] # NoWriter =>
          file[n] = row[n] \/ \E d \in Deleters : Deleting(d, n) /\ del[d].at = "row"
    /\ \A d \in Deleters : Deleting(d, n) => row[n] # NoWriter
    /\ \A d, e \in Deleters : Deleting(d, n) /\ Deleting(e, n) => d = e
FileInv == \A n \in OwnNames \ spoilt : Owned(n)

\* While transfers do not overlap: the one that is under way has read a sum that is
\* not too low, and goes on to InsertISO only if its own bytes fit.
LimitInv ==
    ~overlap =>
        /\ \A v, w \in Writers : at[v] \in UnderWay /\ at[w] \in UnderWay => v = w
        /\ \A w \in Writers : at[w] \in UnderWay => TotalSize <= total[w]
        /\ \A w \in Writers : at[w] = "insert" => total[w] + size[w] <= MaxTotalBytes
        /\ TotalSize <= MaxTotalBytes

-----------------------------------------------------------------------------
\* WriterInv is preserved: a row is written by a writer that ends there, and removed by
\* a delete; an upload never reaches a step of the downloads.
LEMMA WriterStep == TypeOK /\ WriterInv /\ [Next]_vars => WriterInv'
<1> SUFFICES ASSUME TypeOK, WriterInv, [Next]_vars PROVE WriterInv'
  OBVIOUS
<1> USE WritersAssumption
    DEF TypeOK, WriterInv, Writers, Names, fileVars, writerVars, ghostVars, Go
<1>1. ASSUME NEW w \in Uploaders, NEW n \in UploadNames, NEW s \in Sizes, UploadISO(w, n, s)
      PROVE  WriterInv'
  BY <1>1 DEF UploadISO
<1>2. ASSUME NEW w \in Downloaders, NEW n \in DownloadNames, NEW s \in Sizes,
             DownloadISOFromURL(w, n, s)
      PROVE  WriterInv'
  BY <1>2 DEF DownloadISOFromURL
<1>3. ASSUME NEW w \in Downloaders, CheckInProgress(w) \/ Track(w) PROVE WriterInv'
  BY <1>3 DEF CheckInProgress, Track
<1>4. ASSUME NEW w \in Writers, CheckLimit(w) PROVE WriterInv'
  BY <1>4 DEF CheckLimit, Refuse
<1>5. ASSUME NEW w \in Writers, StatPath(w) \/ LookupOrphan(w) \/ CleanOrphan(w) PROVE WriterInv'
  BY <1>5 DEF StatPath, LookupOrphan, CleanOrphan
<1>6. ASSUME NEW w \in Writers, OpenFile(w) PROVE WriterInv'
  BY <1>6 DEF OpenFile, Refuse
<1>7. ASSUME NEW w \in Writers, Copy(w) PROVE WriterInv'
  BY <1>7 DEF Copy, Abandon
<1>8. ASSUME NEW w \in Writers, Recheck(w) PROVE WriterInv'
  BY <1>8 DEF Recheck
<1>9. ASSUME NEW w \in Writers, InsertISO(w) PROVE WriterInv'
  BY <1>9 DEF InsertISO
<1>10. ASSUME NEW w \in Writers, RemovePath(w) PROVE WriterInv'
  BY <1>10 DEF RemovePath, Refuse
<1>11. ASSUME NEW w \in Writers, FailRemoves(w) \/ MarkFailed(w) \/ MarkComplete(w) PROVE WriterInv'
  BY <1>11 DEF FailRemoves, MarkFailed, MarkComplete
<1>12. ASSUME NEW d \in Deleters, NEW n \in Names, LookupISO(d, n) PROVE WriterInv'
  BY <1>12 DEF LookupISO
<1>13. ASSUME NEW d \in Deleters, RemoveFile(d) \/ DeleteRow(d) PROVE WriterInv'
  BY <1>13 DEF RemoveFile, DeleteRow
<1>14. CASE Restart
  BY <1>14 DEF Restart
<1>15. CASE UNCHANGED vars
  BY <1>15 DEF vars
<1> QED BY <1>1, <1>2, <1>3, <1>4, <1>5, <1>6, <1>7, <1>8, <1>9, <1>10, <1>11, <1>12, <1>13,
           <1>14, <1>15 DEF Next, Work

-----------------------------------------------------------------------------
\* What a step may do to the recorded bytes.
BytesKept == RecordedBytes' \subseteq RecordedBytes
BytesInserted(w) == RecordedBytes' = RecordedBytes \cup ({name[w]} \X (1..size[w]))

\* The recorded bytes grow only by InsertISO, and then by one transfer: the size of a
\* transfer is not changed once it is recorded.
LEMMA BytesStep ==
    ASSUME TypeOK, WriterInv, [Next]_vars
    PROVE  BytesKept \/ \E w \in Writers : InsertISO(w) /\ BytesInserted(w)
<1> USE WritersAssumption DEF TypeOK, WriterInv, Writers, Names, fileVars, writerVars, ghostVars
<1> DEFINE Unsized == \A n \in Names : row[n] # NoWriter => size'[row[n]] = size[row[n]]
<1>1. ASSUME UNCHANGED row, Unsized PROVE BytesKept
  BY <1>1 DEF BytesKept, RecordedBytes, Recorded
<1>2. ASSUME NEW w \in Writers, NEW s, at[w] = "idle", size' = [size EXCEPT ![w] = s],
             UNCHANGED row
      PROVE  BytesKept
  <2>1. \A n \in Names : row[n] # NoWriter => row[n] # w
    BY <1>2
  <2>2. Unsized
    BY <1>2, <2>1
  <2> QED BY <1>1, <1>2, <2>2
<1>3. ASSUME NEW d \in Deleters, UNCHANGED size,
             row' = row \/ row' = [row EXCEPT ![del[d].name] = NoWriter]
      PROVE  BytesKept
  <2>1. \A n \in Names : row'[n] # NoWriter => row'[n] = row[n]
    BY <1>3
  <2> QED BY <1>3, <2>1 DEF BytesKept, RecordedBytes, Recorded
<1>4. ASSUME NEW w \in Writers, InsertISO(w) PROVE BytesKept \/ BytesInserted(w)
  <2>1. CASE UNCHANGED row
    BY <1>1, <1>4, <2>1 DEF InsertISO
  <2>2. CASE row[name[w]] = NoWriter /\ row' = [row EXCEPT ![name[w]] = w]
    <3>1. name[w] \in Names /\ UNCHANGED size
      BY <1>4 DEF InsertISO
    <3>2. Recorded' = Recorded \cup {name[w]} /\ name[w] \notin Recorded /\ row'[name[w]] = w
      BY <2>2, <3>1 DEF Recorded
    <3>3. \A n \in Recorded : row'[n] = row[n]
      BY <2>2, <3>2 DEF Recorded
    <3> QED BY <3>1, <3>2, <3>3 DEF BytesInserted, RecordedBytes
  <2> QED BY <1>4, <2>1, <2>2 DEF InsertISO
<1>5. CASE \E w \in Uploaders, n \in UploadNames, s \in Sizes : UploadISO(w, n, s)
  <2>1. PICK w \in Writers, s \in Sizes :
           at[w] = "idle" /\ size' = [size EXCEPT ![w] = s] /\ UNCHANGED row
    BY <1>5 DEF UploadISO
  <2> QED BY <1>2, <2>1
<1>6. CASE \E w \in Downloaders, n \in DownloadNames, s \in Sizes : DownloadISOFromURL(w, n, s)
  <2>1. PICK w \in Writers, s \in Sizes :
           at[w] = "idle" /\ size' = [size EXCEPT ![w] = s] /\ UNCHANGED row
    BY <1>6 DEF DownloadISOFromURL
  <2> QED BY <1>2, <2>1
<1>7. CASE \E w \in Downloaders : CheckInProgress(w) \/ Track(w)
  <2>1. UNCHANGED <<row, size>>
    BY <1>7 DEF CheckInProgress, Track
  <2> QED BY <1>1, <2>1
<1>8. CASE \E w \in Writers : (Work(w) /\ ~InsertISO(w)) \/ Copy(w)
  <2>1. UNCHANGED <<row, size>>
    BY <1>8 DEF Work, CheckLimit, StatPath, LookupOrphan, CleanOrphan, OpenFile, Copy, Recheck,
                RemovePath, FailRemoves, MarkFailed, MarkComplete
  <2> QED BY <1>1, <2>1
<1>9. CASE \E d \in Deleters, n \in Names : LookupISO(d, n)
  <2>1. UNCHANGED <<row, size>>
    BY <1>9 DEF LookupISO
  <2> QED BY <1>1, <2>1
<1>10. CASE \E d \in Deleters : RemoveFile(d) \/ DeleteRow(d)
  <2>1. PICK d \in Deleters : RemoveFile(d) \/ DeleteRow(d)
    BY <1>10
  <2>2. UNCHANGED size /\ (row' = row \/ row' = [row EXCEPT ![del[d].name] = NoWriter])
    BY <2>1 DEF RemoveFile, DeleteRow
  <2> QED BY <1>3, <2>2
<1>11. CASE Restart \/ UNCHANGED vars
  <2>1. UNCHANGED <<row, size>>
    BY <1>11 DEF Restart, vars
  <2> QED BY <1>1, <2>1
<1> QED BY <1>4, <1>5, <1>6, <1>7, <1>8, <1>9, <1>10, <1>11 DEF Next

\* The bytes of one transfer.
LEMMA TransferBytes ==
    ASSUME NEW n, NEW k \in Nat
    PROVE  IsFiniteSet({n} \X (1..k)) /\ Cardinality({n} \X (1..k)) = k
<1>1. IsFiniteSet({n}) /\ Cardinality({n}) = 1
  BY FS_Singleton
<1>2. IsFiniteSet(1..k) /\ Cardinality(1..k) = k
  BY FS_Interval
<1>3. /\ IsFiniteSet({n} \X (1..k))
      /\ Cardinality({n} \X (1..k)) = Cardinality({n}) * Cardinality(1..k)
  BY <1>1, <1>2, FS_Product
<1> QED BY <1>1, <1>2, <1>3

\* There are finitely many recorded bytes.
BytesInv == IsFiniteSet(RecordedBytes)

\* How the sum of sizes moves.
LEMMA TotalSizeStep ==
    ASSUME TypeOK, WriterInv, BytesInv, [Next]_vars
    PROVE  /\ BytesInv' /\ TotalSize \in Nat /\ TotalSize' \in Nat
           /\ \/ TotalSize' <= TotalSize
              \/ \E w \in Writers : InsertISO(w) /\ TotalSize' <= TotalSize + size[w]
<1>1. TotalSize \in Nat
  BY FS_CardinalityType DEF BytesInv, TotalSize
<1>2. CASE BytesKept
  <2>1. IsFiniteSet(RecordedBytes') /\ Cardinality(RecordedBytes') <= Cardinality(RecordedBytes)
    BY <1>2, FS_Subset DEF BytesKept, BytesInv
  <2>2. Cardinality(RecordedBytes') \in Nat
    BY <2>1, FS_CardinalityType
  <2> QED BY <1>1, <2>1, <2>2 DEF BytesInv, TotalSize
<1>3. CASE \E w \in Writers : InsertISO(w) /\ BytesInserted(w)
  <2>1. PICK w \in Writers : InsertISO(w) /\ BytesInserted(w)
    BY <1>3
  <2> DEFINE bytes == {name[w]} \X (1..size[w])
  <2>2. size[w] \in Nat
    BY DEF TypeOK
  <2>3. IsFiniteSet(bytes) /\ Cardinality(bytes) = size[w]
    BY <2>2, TransferBytes
  <2> HIDE DEF bytes
  <2>4. RecordedBytes' = RecordedBytes \cup bytes
    BY <2>1 DEF BytesInserted, bytes
  <2>5. IsFiniteSet(RecordedBytes) /\ IsFiniteSet(RecordedBytes \cap bytes)
    BY FS_Intersection DEF BytesInv
  <2>6. Cardinality(RecordedBytes \cap bytes) \in Nat
    BY <2>5, FS_CardinalityType
  <2>7. /\ IsFiniteSet(RecordedBytes \cup bytes)
        /\ Cardinality(RecordedBytes \cup bytes)
             = Cardinality(RecordedBytes) + Cardinality(bytes) - Cardinality(RecordedBytes \cap bytes)
    BY <2>3, <2>5, FS_Union
  <2>8. Cardinality(RecordedBytes \cup bytes) \in Nat
    BY <2>7, FS_CardinalityType
  <2>9. PICK was \in Nat, both \in Nat, is \in Nat :
           /\ was = TotalSize /\ is = TotalSize' /\ is = was + size[w] - both
    BY <1>1, <2>3, <2>4, <2>6, <2>7, <2>8 DEF TotalSize
  <2>10. TotalSize' <= TotalSize + size[w]
    BY <2>2, <2>9
  <2> QED BY <1>1, <2>1, <2>4, <2>7, <2>9, <2>10 DEF BytesInv
<1> QED BY <1>2, <1>3, BytesStep

-----------------------------------------------------------------------------
\* Type correctness: every step that needs a name has one.
LEMMA TypeStep ==
    ASSUME TypeOK, WriterInv, BytesInv, [Next]_vars
    PROVE  TypeOK'
<1>0. TotalSize \in Nat
  BY TotalSizeStep
<1> USE WritersAssumption, SizesAssumption, RestartsAssumption
    DEF TypeOK, Writers, Names, Steps, fileVars, writerVars, ghostVars, Go, IdleDelete
<1>1. ASSUME NEW w \in Uploaders, NEW n \in UploadNames, NEW s \in Sizes, UploadISO(w, n, s)
      PROVE  TypeOK'
  BY <1>1 DEF UploadISO
<1>2. ASSUME NEW w \in Downloaders, NEW n \in DownloadNames, NEW s \in Sizes,
             DownloadISOFromURL(w, n, s)
      PROVE  TypeOK'
  BY <1>2 DEF DownloadISOFromURL
<1>3. ASSUME NEW w \in Downloaders, CheckInProgress(w) \/ Track(w) PROVE TypeOK'
  BY <1>3 DEF CheckInProgress, Track
<1>4. ASSUME NEW w \in Writers, CheckLimit(w) PROVE TypeOK'
  <2>1. overlap' \in BOOLEAN
    BY <1>4, Zenon DEF CheckLimit
  <2>2. total' \in [Writers -> Nat]
    BY <1>0, <1>4 DEF CheckLimit
  <2>3. at' \in [Writers -> Steps] /\ at[w] = "limit" /\ \A v \in Writers \ {w} : at'[v] = at[v]
    BY <1>4 DEF CheckLimit, Refuse
  <2>4. UNCHANGED <<fileVars, name, size, dl, del, spoilt, restarts>>
    BY <1>4 DEF CheckLimit
  <2> QED BY <2>1, <2>2, <2>3, <2>4
<1>5. ASSUME NEW w \in Writers, StatPath(w) \/ LookupOrphan(w) \/ CleanOrphan(w) PROVE TypeOK'
  BY <1>5 DEF StatPath, LookupOrphan, CleanOrphan
<1>6. ASSUME NEW w \in Writers, OpenFile(w) PROVE TypeOK'
  BY <1>6 DEF OpenFile, Refuse
<1>7. ASSUME NEW w \in Writers, Copy(w) \/ Recheck(w) PROVE TypeOK'
  BY <1>7 DEF Copy, Abandon, Recheck
<1>8. ASSUME NEW w \in Writers, InsertISO(w) PROVE TypeOK'
  BY <1>8 DEF InsertISO
<1>9. ASSUME NEW w \in Writers, RemovePath(w) PROVE TypeOK'
  BY <1>9 DEF RemovePath, Refuse
<1>10. ASSUME NEW w \in Writers, FailRemoves(w) PROVE TypeOK'
  BY <1>10 DEF FailRemoves
<1>11. ASSUME NEW w \in Writers, MarkFailed(w) \/ MarkComplete(w) PROVE TypeOK'
  <2>1. dl' \in [Downloaders -> {"none", "downloading", "complete", "error"}]
    BY <1>11 DEF MarkFailed, MarkComplete
  <2> QED BY <1>11, <2>1 DEF MarkFailed, MarkComplete
<1>12. ASSUME NEW d \in Deleters, NEW n \in Names, LookupISO(d, n) PROVE TypeOK'
  BY <1>12 DEF LookupISO
<1>13. ASSUME NEW d \in Deleters, RemoveFile(d) \/ DeleteRow(d) PROVE TypeOK'
  BY <1>13 DEF RemoveFile, DeleteRow
<1>14. CASE Restart
  <2>1. spoilt' \in SUBSET Names
    BY <1>14 DEF Restart
  <2> QED BY <1>14, <2>1 DEF Restart
<1>15. CASE UNCHANGED vars
  BY <1>15 DEF vars
<1> QED BY <1>1, <1>2, <1>3, <1>4, <1>5, <1>6, <1>7, <1>8, <1>9, <1>10, <1>11, <1>12, <1>13,
           <1>14, <1>15 DEF Next, Work

\* Nothing is recorded at first.
LEMMA LibraryInit == Init => TypeOK /\ WriterInv /\ BytesInv /\ FileInv /\ LimitInv
<1> SUFFICES ASSUME Init PROVE TypeOK /\ WriterInv /\ BytesInv /\ FileInv /\ LimitInv
  OBVIOUS
<1>1. TypeOK
  <2>1. overlap \in BOOLEAN /\ spoilt \in SUBSET Names
    BY Zenon DEF Init
  <2>2. restarts \in 0..MaxRestarts
    BY RestartsAssumption DEF Init
  <2>3. /\ at \in [Writers -> Steps] /\ name \in [Writers -> Names \cup {NoName}]
        /\ size \in [Writers -> Nat] /\ total \in [Writers -> Nat]
        /\ \A w \in Writers : at[w] = "idle"
    BY DEF Init, Steps
  <2>4. /\ del \in [Deleters -> [at : {"idle", "remove", "row"}, name : Names \cup {NoName}]]
        /\ \A d \in Deleters : del[d].at = "idle"
    BY DEF Init, IdleDelete
  <2>5. /\ file \in [Names -> Writers \cup {NoWriter}] /\ row \in [Names -> Writers \cup {NoWriter}]
        /\ dl \in [Downloaders -> {"none", "downloading", "complete", "error"}]
    BY DEF Init
  <2> QED BY <2>1, <2>2, <2>3, <2>4, <2>5 DEF TypeOK
<1>2. WriterInv
  BY WritersAssumption DEF Init, WriterInv, Names, Writers
<1>3. RecordedBytes = {}
  BY DEF Init, RecordedBytes, Recorded
<1>4. BytesInv /\ TotalSize = 0
  BY <1>3, FS_EmptySet DEF BytesInv, TotalSize
<1>5. FileInv
  BY DEF Init, FileInv, Owned, OwnNames, Names, Deleting, Holding, IdleDelete
<1>6. LimitInv
  BY <1>4, SizesAssumption DEF Init, LimitInv, UnderWay
<1> QED BY <1>1, <1>2, <1>4, <1>5, <1>6

\* What the two proofs below rest on.
LEMMA LibraryInvariant == Spec => [](TypeOK /\ WriterInv /\ BytesInv)
<1>1. TypeOK /\ WriterInv /\ BytesInv /\ [Next]_vars => (TypeOK /\ WriterInv /\ BytesInv)'
  BY TypeStep, WriterStep, TotalSizeStep
<1> QED BY <1>1, LibraryInit, PTL DEF Spec

\* The library keeps its types, and the sum of sizes is a number.
THEOREM TypeCorrect == Spec => []TypeOK
BY LibraryInvariant, PTL

-----------------------------------------------------------------------------
\* LimitInv is preserved: the sum can only have fallen since it was read, but for the
\* one transfer that is under way.
LEMMA LimitStep ==
    ASSUME TypeOK, WriterInv, BytesInv, LimitInv, [Next]_vars
    PROVE  LimitInv'
<1>1. /\ TotalSize \in Nat /\ TotalSize' \in Nat
      /\ \/ TotalSize' <= TotalSize
         \/ \E w \in Writers : InsertISO(w) /\ TotalSize' <= TotalSize + size[w]
  BY TotalSizeStep
<1> USE SizesAssumption DEF TypeOK, UnderWay, fileVars, writerVars, ghostVars, Go
<1>2. ASSUME NEW w \in Writers, InsertISO(w) PROVE LimitInv'
  <2>1. /\ at[w] = "insert" /\ at'[w] \notin UnderWay /\ \A v \in Writers \ {w} : at'[v] = at[v]
        /\ UNCHANGED <<total, size, overlap>>
    BY <1>2 DEF InsertISO
  <2>2. TotalSize' <= TotalSize + size[w]
    <3>1. size[w] \in Nat /\ \A v \in Writers : InsertISO(v) => v = w
      BY <1>2, <2>1 DEF InsertISO
    <3> QED BY <1>1, <3>1
  <2>3. ASSUME ~overlap'
        PROVE  TotalSize' <= MaxTotalBytes /\ \A v \in Writers : at'[v] \notin UnderWay
    <3>1. total[w] \in Nat /\ size[w] \in Nat
      OBVIOUS
    <3>2. TotalSize <= total[w] /\ total[w] + size[w] <= MaxTotalBytes
      BY <2>1, <2>3 DEF LimitInv
    <3>3. \A v \in Writers \ {w} : at[v] \notin UnderWay
      BY <2>1, <2>3 DEF LimitInv
    <3> QED BY <1>1, <2>1, <2>2, <3>1, <3>2, <3>3
  <2> QED BY <2>1, <2>3 DEF LimitInv
<1>3. ASSUME TotalSize' <= TotalSize, UNCHANGED overlap,
             \A w \in Writers : at'[w] \in UnderWay =>
                /\ at[w] \in UnderWay /\ total'[w] = total[w] /\ size'[w] = size[w]
                /\ at'[w] = "insert" => at[w] = "insert" \/ total[w] + size[w] <= MaxTotalBytes
      PROVE  LimitInv'
  <2> SUFFICES ASSUME ~overlap PROVE LimitInv'
    BY <1>3 DEF LimitInv
  <2>1. TotalSize' <= MaxTotalBytes
    BY <1>1, <1>3 DEF LimitInv
  <2>2. \A w \in Writers : at'[w] \in UnderWay => TotalSize' <= total'[w]
    BY <1>1, <1>3 DEF LimitInv
  <2>3. \A w \in Writers : at'[w] = "insert" => total'[w] + size'[w] <= MaxTotalBytes
    BY <1>3 DEF LimitInv
  <2>4. \A v, w \in Writers : at'[v] \in UnderWay /\ at'[w] \in UnderWay => v = w
    BY <1>3 DEF LimitInv
  <2> QED BY <2>1, <2>2, <2>3, <2>4 DEF LimitInv
<1>4. SUFFICES ASSUME TotalSize' <= TotalSize, \A w \in Writers : ~InsertISO(w) PROVE LimitInv'
  BY <1>1, <1>2
<1>5. ASSUME NEW w \in Writers, CheckLimit(w) PROVE LimitInv'
  <2>1. /\ UNCHANGED size /\ total'[w] = TotalSize /\ at'[w] # "insert"
        /\ \A v \in Writers \ {w} : at'[v] = at[v]
        /\ ~overlap' => ~overlap /\ \A v \in Writers : at[v] \notin UnderWay
    BY <1>5 DEF CheckLimit, Refuse
  <2> SUFFICES ASSUME ~overlap' PROVE LimitInv'
    BY DEF LimitInv
  <2>2. \A v \in Writers : at'[v] \in UnderWay => v = w
    BY <2>1
  <2>3. TotalSize' <= MaxTotalBytes /\ TotalSize' <= total'[w]
    BY <1>1, <1>4, <2>1 DEF LimitInv
  <2> QED BY <2>1, <2>2, <2>3 DEF LimitInv
<1>6. CASE \E w \in Uploaders, n \in UploadNames, s \in Sizes : UploadISO(w, n, s)
  BY <1>3, <1>4, <1>6 DEF UploadISO, Writers
<1>7. CASE \E w \in Downloaders, n \in DownloadNames, s \in Sizes : DownloadISOFromURL(w, n, s)
  BY <1>3, <1>4, <1>7 DEF DownloadISOFromURL, Writers
<1>8. CASE \E w \in Downloaders : CheckInProgress(w) \/ Track(w)
  BY <1>3, <1>4, <1>8 DEF CheckInProgress, Track, Writers
<1>9. ASSUME NEW w \in Writers, Recheck(w) PROVE LimitInv'
  BY <1>3, <1>4, <1>9 DEF Recheck
<1>10. ASSUME NEW w \in Writers,
              \/ StatPath(w) \/ LookupOrphan(w) \/ CleanOrphan(w) \/ OpenFile(w) \/ Copy(w)
              \/ RemovePath(w) \/ FailRemoves(w) \/ MarkFailed(w) \/ MarkComplete(w)
       PROVE  LimitInv'
  BY <1>3, <1>4, <1>10 DEF StatPath, LookupOrphan, CleanOrphan, OpenFile, Copy, RemovePath,
                           FailRemoves, MarkFailed, MarkComplete, Refuse, Abandon
<1>11. CASE \E d \in Deleters : RemoveFile(d) \/ DeleteRow(d) \/ \E n \in Names : LookupISO(d, n)
  BY <1>3, <1>4, <1>11 DEF LookupISO, RemoveFile, DeleteRow
<1>12. CASE Restart
  BY <1>3, <1>4, <1>12 DEF Restart
<1>13. CASE UNCHANGED vars
  BY <1>3, <1>4, <1>13 DEF vars
<1> QED BY <1>4, <1>5, <1>6, <1>7, <1>8, <1>9, <1>10, <1>11, <1>12, <1>13 DEF Next, Work

\* The storage limit holds for files of any size as long as no two transfers overlap.
THEOREM StorageLimitHoldsAlways == Spec => []StorageLimitHolds
<1>1. TypeOK /\ WriterInv /\ BytesInv /\ LimitInv /\ [Next]_vars => LimitInv'
  BY LimitStep
<1>2. LimitInv => StorageLimitHolds
  BY DEF LimitInv, StorageLimitHolds
<1> QED BY <1>1, <1>2, LibraryInit, LibraryInvariant, PTL DEF Spec

-----------------------------------------------------------------------------
\* FileInv is preserved: a writer creates the file where there is none and removes only
\* a file it holds; a delete takes a file that no writer holds.
LEMMA FileStep ==
    ASSUME TypeOK, WriterInv, FileInv, [Next]_vars
    PROVE  FileInv'
<1> SUFFICES ASSUME NEW n \in OwnNames, n \notin spoilt' PROVE Owned(n)'
  BY DEF FileInv
<1> USE WritersAssumption
    DEF TypeOK, Writers, Names, OwnNames, fileVars, writerVars, ghostVars, Go, Deleting
<1>1. n \in Names /\ n # NoName /\ \A w \in Writers : name[w] = n => w \in Uploaders
  BY DEF WriterInv
<1>2. row[n] # NoWriter => row[n] \in Writers /\ at[row[n]] \notin Holding
  BY <1>1 DEF WriterInv, Holding
<1>3. ASSUME n \notin spoilt, file'[n] = file[n], row'[n] = row[n], UNCHANGED del,
             \A w \in Writers : at'[w] \in Holding /\ name'[w] = n
                => at[w] \in Holding /\ name[w] = n
      PROVE  Owned(n)'
  BY <1>3 DEF FileInv, Owned
<1>4. ASSUME NEW w \in Uploaders, NEW m \in UploadNames, NEW s \in Sizes, UploadISO(w, m, s)
      PROVE  Owned(n)'
  BY <1>3, <1>4 DEF UploadISO, Holding
<1>5. ASSUME NEW w \in Downloaders, NEW m \in DownloadNames, NEW s \in Sizes,
             DownloadISOFromURL(w, m, s)
      PROVE  Owned(n)'
  BY <1>3, <1>5 DEF DownloadISOFromURL, Holding
<1>6. ASSUME NEW w \in Downloaders, CheckInProgress(w) \/ Track(w) PROVE Owned(n)'
  BY <1>3, <1>6 DEF CheckInProgress, Track, Holding
<1>7. ASSUME NEW w \in Writers,
             \/ CheckLimit(w) \/ StatPath(w) \/ LookupOrphan(w) \/ Copy(w) \/ Recheck(w)
             \/ MarkFailed(w) \/ MarkComplete(w)
      PROVE  Owned(n)'
  BY <1>3, <1>7 DEF CheckLimit, Refuse, StatPath, LookupOrphan, Copy, Abandon, Recheck,
                    MarkFailed, MarkComplete, Holding
<1>8. ASSUME NEW w \in Writers, CleanOrphan(w) \/ FailRemoves(w) PROVE Owned(n)'
  <2>1. name[w] # n
    BY <1>1, <1>8 DEF WriterInv, CleanOrphan, FailRemoves
  <2>2. file'[n] = file[n]
    BY <1>1, <1>8, <2>1 DEF CleanOrphan, FailRemoves
  <2> QED BY <1>3, <1>8, <2>2 DEF CleanOrphan, FailRemoves, Holding
<1>9. ASSUME NEW w \in Writers, OpenFile(w) PROVE Owned(n)'
  <2>1. CASE name[w] # n \/ UNCHANGED file
    <3>1. file'[n] = file[n]
      BY <1>1, <1>9, <2>1 DEF OpenFile
    <3> QED BY <1>3, <1>9, <2>1, <3>1 DEF OpenFile, Refuse, Holding
  <2>2. CASE name[w] = n /\ ~UNCHANGED file
    <3>1. /\ file[n] = NoWriter /\ file'[n] = w /\ UNCHANGED <<row, name, del, spoilt>>
          /\ at' = [at EXCEPT ![w] = "copy"]
      BY <1>1, <1>9, <2>2 DEF OpenFile
    <3>2. Owned(n)
      BY <3>1 DEF FileInv
    <3>3. \A v \in Writers : ~(at[v] \in Holding /\ name[v] = n)
      BY <3>1, <3>2 DEF Owned
    <3>4. row[n] # NoWriter => \E d \in Deleters : Deleting(d, n) /\ del[d].at = "row"
      BY <3>1, <3>2 DEF Owned
    <3> QED BY <3>1, <3>2, <3>3, <3>4 DEF Owned
  <2> QED BY <2>1, <2>2
<1>10. ASSUME NEW w \in Writers, InsertISO(w) PROVE Owned(n)'
  <2>1. CASE name[w] # n \/ UNCHANGED row
    <3>1. row'[n] = row[n]
      BY <1>1, <1>10, <2>1 DEF InsertISO
    <3> QED BY <1>3, <1>10, <3>1 DEF InsertISO, Holding
  <2>2. CASE name[w] = n /\ ~UNCHANGED row
    <3>1. /\ at[w] = "insert" /\ row[n] = NoWriter /\ row'[n] = w
          /\ UNCHANGED <<file, name, del, spoilt>>
          /\ \A v \in Writers : at'[v] \in Holding => at[v] \in Holding
      BY <1>1, <1>10, <2>2 DEF InsertISO, Holding
    <3>2. Owned(n)
      BY <3>1 DEF FileInv
    <3>3. file[n] = w
      BY <2>2, <3>1, <3>2 DEF Owned, Holding
    <3> QED BY <3>1, <3>2, <3>3 DEF Owned
  <2> QED BY <2>1, <2>2
<1>11. ASSUME NEW w \in Writers, RemovePath(w) PROVE Owned(n)'
  <2>1. CASE name[w] # n
    <3>1. file'[n] = file[n]
      BY <1>1, <1>11, <2>1 DEF RemovePath
    <3> QED BY <1>3, <1>11, <3>1 DEF RemovePath, Refuse, Holding
  <2>2. CASE name[w] = n
    <3>1. /\ at[w] = "remove" /\ file'[n] = NoWriter /\ UNCHANGED <<row, name, del, spoilt>>
          /\ at'[w] \notin Holding /\ \A v \in Writers \ {w} : at'[v] = at[v]
      BY <1>1, <1>11, <2>2 DEF RemovePath, Refuse, Holding
    <3>2. Owned(n)
      BY <3>1 DEF FileInv
    <3>3. file[n] = w /\ at[w] \in Holding
      BY <2>2, <3>1, <3>2 DEF Owned, Holding
    <3>4. \A v \in Writers : ~(at'[v] \in Holding /\ name'[v] = n)
      BY <3>1, <3>2, <3>3 DEF Owned
    <3>5. row[n] # w
      BY <1>2, <3>3
    <3> QED BY <3>1, <3>2, <3>3, <3>4, <3>5 DEF Owned
  <2> QED BY <2>1, <2>2
<1>12. ASSUME NEW d \in Deleters, NEW m \in Names, LookupISO(d, m) PROVE Owned(n)'
  <2>1. UNCHANGED <<file, row, at, name>> /\ n \notin spoilt
    BY <1>12 DEF LookupISO
  <2>2. Owned(n)
    BY <2>1 DEF FileInv
  <2>3. /\ del[d].at = "idle" /\ row[m] # NoWriter
        /\ del' = [del EXCEPT ![d] = [at |-> "remove", name |-> m]]
        /\ m = n => \A e \in Deleters : ~Deleting(e, n)
    BY <1>12 DEF LookupISO, GetISO
  <2>4. ASSUME NEW e \in Deleters
        PROVE  /\ e # d => del'[e] = del[e]
               /\ Deleting(d, n)' <=> m = n
               /\ del'[d].at = "remove"
    BY <2>3
  <2> HIDE DEF Deleting
  <2>5. \A e \in Deleters \ {d} : Deleting(e, n)' <=> Deleting(e, n)
    BY <2>4 DEF Deleting
  <2>6. \A e \in Deleters : Deleting(e, n)' => row[n] # NoWriter
    BY <2>2, <2>3, <2>4, <2>5 DEF Owned
  <2>7. \A e, f \in Deleters : Deleting(e, n)' /\ Deleting(f, n)' => e = f
    BY <2>2, <2>3, <2>4, <2>5 DEF Owned
  <2>8. ASSUME NEW e \in Deleters, Deleting(e, n), del[e].at = "row"
        PROVE  Deleting(e, n)' /\ del'[e].at = "row"
    BY <2>3, <2>4, <2>5, <2>8
  <2> QED BY <2>1, <2>2, <2>6, <2>7, <2>8 DEF Owned
<1>13. ASSUME NEW d \in Deleters, RemoveFile(d) PROVE Owned(n)'
  <2>1. UNCHANGED <<row, at, name>> /\ n \notin spoilt /\ del[d].at = "remove"
    BY <1>13 DEF RemoveFile
  <2>2. Owned(n)
    BY <2>1 DEF FileInv
  <2>3. CASE file' = [file EXCEPT ![del[d].name] = NoWriter] /\ del' = [del EXCEPT ![d].at = "row"]
    <3>1. \A e \in Deleters : /\ Deleting(e, n)' <=> Deleting(e, n)
                              /\ e # d => del'[e] = del[e]
                              /\ del'[d].at = "row"
      BY <2>1, <2>3
    <3>2. CASE del[d].name # n
      <4>1. file'[n] = file[n]
        BY <1>1, <2>3, <3>2
      <4> HIDE DEF Deleting
      <4>2. ~Deleting(d, n)
        BY <3>2 DEF Deleting
      <4> QED BY <2>1, <2>2, <3>1, <4>1, <4>2 DEF Owned
    <3>3. CASE del[d].name = n
      <4>1. Deleting(d, n)
        BY <2>1, <3>3
      <4> HIDE DEF Deleting
      <4>2. row[n] # NoWriter /\ file[n] = row[n]
        BY <2>1, <2>2, <4>1 DEF Owned
      <4>3. \A w \in Writers : ~(at[w] \in Holding /\ name[w] = n)
        BY <1>2, <2>2, <4>2 DEF Owned
      <4> QED BY <2>1, <2>2, <3>1, <4>1, <4>2, <4>3 DEF Owned
    <3> QED BY <3>2, <3>3
  <2>4. CASE UNCHANGED file /\ del' = [del EXCEPT ![d] = IdleDelete]
    <3>1. \A e \in Deleters : /\ Deleting(e, n)' => Deleting(e, n)
                              /\ del[e].at = "row" => del'[e] = del[e]
      BY <2>1, <2>4 DEF IdleDelete
    <3> QED BY <2>1, <2>2, <2>4, <3>1 DEF Owned
  <2> QED BY <1>13, <2>3, <2>4 DEF RemoveFile
<1>14. ASSUME NEW d \in Deleters, DeleteRow(d) PROVE Owned(n)'
  <2>1. /\ UNCHANGED <<file, at, name>> /\ n \notin spoilt
        /\ del[d].at = "row" /\ del' = [del EXCEPT ![d] = IdleDelete]
    BY <1>14 DEF DeleteRow
  <2>2. Owned(n)
    BY <2>1 DEF FileInv
  <2>3. \A e \in Deleters : /\ Deleting(e, n)' <=> (Deleting(e, n) /\ e # d)
                            /\ e # d => del'[e] = del[e]
    BY <2>1 DEF IdleDelete
  <2>4. CASE del[d].name # n
    <3>1. row'[n] = row[n] /\ ~Deleting(d, n)
      BY <1>1, <1>14, <2>4 DEF DeleteRow
    <3> HIDE DEF Deleting
    <3> QED BY <2>1, <2>2, <2>3, <3>1 DEF Owned
  <2>5. CASE del[d].name = n
    <3>1. row'[n] = NoWriter /\ Deleting(d, n)
      BY <1>1, <1>14, <2>1, <2>5 DEF DeleteRow
    <3> HIDE DEF Deleting
    <3>2. \A e \in Deleters : ~Deleting(e, n)'
      BY <2>2, <2>3, <3>1 DEF Owned
    <3> QED BY <2>1, <2>2, <3>1, <3>2 DEF Owned
  <2> QED BY <2>4, <2>5
<1>15. CASE Restart
  <2>1. /\ UNCHANGED <<file, row>> /\ n \notin spoilt
        /\ \A w \in Writers : at'[w] \notin Holding
        /\ \A d \in Deleters : ~Deleting(d, n)' /\ ~(Deleting(d, n) /\ del[d].at = "row")
    BY <1>15 DEF Restart, IdleDelete, Holding
  <2>2. Owned(n)
    BY <2>1 DEF FileInv
  <2> HIDE DEF Deleting
  <2> QED BY <2>1, <2>2 DEF Owned
<1>16. CASE UNCHANGED vars
  BY <1>3, <1>16 DEF vars
<1> QED BY <1>4, <1>5, <1>6, <1>7, <1>8, <1>9, <1>10, <1>11, <1>12, <1>13, <1>14, <1>15,
           <1>16 DEF Next, Work

\* A recorded file is at its path, whatever uploads, deletes and crashes came before.
THEOREM RecordedFileIsThereHolds == Spec => []RecordedFileIsThere
<1>1. TypeOK /\ WriterInv /\ BytesInv /\ FileInv /\ [Next]_vars => FileInv'
  BY FileStep
<1>2. TypeOK /\ FileInv => RecordedFileIsThere
  <2> SUFFICES ASSUME TypeOK, FileInv, NEW n \in UploadNames \ DownloadNames,
                      row[n] # NoWriter, n \notin spoilt, file[n] # row[n]
               PROVE  \E d \in Deleters : del[d] = [at |-> "row", name |-> n]
    BY DEF RecordedFileIsThere
  <2>1. PICK d \in Deleters : Deleting(d, n) /\ del[d].at = "row"
    BY DEF FileInv, Owned, OwnNames
  <2>2. del[d] = [at |-> "row", name |-> n]
    BY <2>1 DEF TypeOK, Deleting
  <2> QED BY <2>2
<1> QED BY <1>1, <1>2, LibraryInit, LibraryInvariant, PTL DEF Spec

-----------------------------------------------------------------------------
\* A tracker that says "downloading" has its goroutine behind it: only performISODownload
\* takes it out of that status again, and while it says so CheckInProgress refuses the name.
TrackedDownloadRuns ==
    \A w \in Downloaders :
        dl[w] = "downloading" => at[w] \notin {"idle", "asked", "tracked", "done"}

\* TrackedDownloadRuns: none of the error paths of a download, and no crash, leaves a
\* tracker behind that would refuse its name for ever.
THEOREM TrackedDownloadRunsHolds == Spec => []TrackedDownloadRuns
<1> USE WritersAssumption
    DEF TypeOK, TrackedDownloadRuns, Writers, fileVars, writerVars, ghostVars, Go
<1>1. Init => TrackedDownloadRuns
  BY DEF Init
<1>2. TypeOK /\ WriterInv /\ TrackedDownloadRuns /\ [Next]_vars => TrackedDownloadRuns'
  <2> SUFFICES ASSUME TypeOK, WriterInv, TrackedDownloadRuns, [Next]_vars
               PROVE  TrackedDownloadRuns'
    OBVIOUS
  <2>1. ASSUME NEW w \in Uploaders, NEW n \in UploadNames, NEW s \in Sizes, UploadISO(w, n, s)
        PROVE  TrackedDownloadRuns'
    BY <2>1 DEF UploadISO
  <2>2. ASSUME NEW w \in Downloaders, NEW n \in DownloadNames, NEW s \in Sizes,
               DownloadISOFromURL(w, n, s)
        PROVE  TrackedDownloadRuns'
    BY <2>2 DEF DownloadISOFromURL
  <2>3. ASSUME NEW w \in Downloaders, CheckInProgress(w) \/ Track(w) PROVE TrackedDownloadRuns'
    BY <2>3 DEF CheckInProgress, Track
  <2>4. ASSUME NEW w \in Writers, CheckLimit(w) \/ OpenFile(w) \/ RemovePath(w)
        PROVE  TrackedDownloadRuns'
    BY <2>4 DEF CheckLimit, OpenFile, RemovePath, Refuse
  <2>5. ASSUME NEW w \in Writers, StatPath(w) \/ LookupOrphan(w) \/ CleanOrphan(w)
        PROVE  TrackedDownloadRuns'
    BY <2>5 DEF StatPath, LookupOrphan, CleanOrphan
  <2>6. ASSUME NEW w \in Writers, Copy(w) \/ Recheck(w) \/ InsertISO(w)
        PROVE  TrackedDownloadRuns'
    BY <2>6 DEF Copy, Abandon, Recheck, InsertISO
  <2>7. ASSUME NEW w \in Writers, FailRemoves(w) \/ MarkFailed(w) \/ MarkComplete(w)
        PROVE  TrackedDownloadRuns'
    BY <2>7 DEF FailRemoves, MarkFailed, MarkComplete, WriterInv
  <2>8. ASSUME NEW d \in Deleters, NEW n \in Names, LookupISO(d, n) PROVE TrackedDownloadRuns'
    BY <2>8 DEF LookupISO
  <2>9. ASSUME NEW d \in Deleters, RemoveFile(d) \/ DeleteRow(d) PROVE TrackedDownloadRuns'
    BY <2>9 DEF RemoveFile, DeleteRow
  <2>10. CASE Restart
    BY <2>10 DEF Restart
  <2>11. CASE UNCHANGED vars
    BY <2>11 DEF vars
  <2> QED BY <2>1, <2>2, <2>3, <2>4, <2>5, <2>6, <2>7, <2>8, <2>9, <2>10, <2>11
          DEF Next, Work
<1> QED BY <1>1, <1>2, LibraryInvariant, PTL DEF Spec
=============================================================================
