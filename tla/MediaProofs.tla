----------------------------- MODULE MediaProofs -----------------------------
(***************************************************************************)
(* Theorems about Media: for any listings, files and requests, a medium    *)
(* has its file and a file its medium, as far as failures allow.           *)
(***************************************************************************)
EXTENDS Media, FiniteSetTheorems, TLAPS

-----------------------------------------------------------------------------
(* The inductive invariant: one request at a time works on a new key, and  *)
(* what it has done so far is still true when its next await returns.      *)

UploadAlone ==
    \A r, s \in Uploaders :
       upload[r].at \in Uploading /\ upload[s].file = upload[r].file => r = s

UploadStage ==
    \A r \in Uploaders :
       /\ upload[r].at \in Uploading => position[upload[r].file] = NoRow
       /\ upload[r].at \in {"count", "insert"} => upload[r].file \in stored

RemovalStage ==
    \A r \in Uploaders : upload[r].at = "deleteRow" =>
       upload[r].file \notin stored \/ <<upload[r].file, "removal">> \in failed

MediaInv == UploadAlone /\ UploadStage /\ RemovalStage /\ RowHasFile /\ NoOrphanFile

-----------------------------------------------------------------------------
\* A count of rows that leaves a file out is below NoRow, so it is a position.
LEMMA CountIsPosition ==
    ASSUME NEW l, NEW f \in Files, position[f] = NoRow
    PROVE  Cardinality(Rows(l)) \in 0 .. NoRow - 1
<1>1. Rows(l) \subseteq Files \ {f}
  BY DEF Rows
<1>2. IsFiniteSet(Files \ {f}) /\ Cardinality(Files \ {f}) = Cardinality(Files) - 1
  BY FS_RemoveElement, MediaAssumption
<1>3. Cardinality(Rows(l)) <= Cardinality(Files \ {f}) /\ IsFiniteSet(Rows(l))
  BY <1>1, <1>2, FS_Subset
<1>4. Cardinality(Rows(l)) \in Nat /\ Cardinality(Files) \in Nat
  BY <1>3, FS_CardinalityType, MediaAssumption
<1> QED
  BY <1>2, <1>3, <1>4 DEF NoRow

\* The first position is a position as soon as there is a file.
LEMMA NoRowNat == NoRow \in Nat /\ (Files # {} => 0 \in 0 .. NoRow - 1)
<1>1. NoRow \in Nat
  BY FS_CardinalityType, MediaAssumption DEF NoRow
<1>2. ASSUME Files # {} PROVE NoRow # 0
  BY <1>2, FS_EmptySet, MediaAssumption DEF NoRow
<1> QED
  BY <1>1, <1>2

\* What MediaTypeOK says of a request.
Request == {Free} \cup [at : Uploading \cup Removing, file : Files, position : 0 .. NoRow - 1]

\* A request at an await has a file and a position.
LEMMA RequestShape ==
    ASSUME MediaTypeOK, NEW r \in Uploaders, upload[r] # Free
    PROVE  /\ upload[r].file \in Files
           /\ upload[r].position \in 0 .. NoRow - 1
           /\ upload[r].at \in Uploading \cup Removing
           /\ upload[r] = [at |-> upload[r].at, file |-> upload[r].file, position |-> upload[r].position]
BY DEF MediaTypeOK

\* A request that has moved on is a request.
LEMMA MovedOn ==
    ASSUME MediaTypeOK, NEW r \in Uploaders, NEW s \in Uploading \cup Removing,
           NEW t \in Uploading \cup Removing, GoOn(r, s, t)
    PROVE  /\ upload' \in [Uploaders -> Request]
           /\ upload[r] # Free /\ upload[r].file \in Files
           /\ upload'[r].at = t
           /\ \A q \in Uploaders : q # r => upload'[q] = upload[q]
           /\ \A q \in Uploaders : upload'[q].file = upload[q].file
<1>1. upload \in [Uploaders -> Request]
  BY DEF MediaTypeOK, Request
<1>2. upload[r] # Free
  BY DEF GoOn, Free, Uploading, Removing
<1>3. upload' = [upload EXCEPT ![r] = [upload[r] EXCEPT !.at = t]]
  BY <1>1 DEF GoOn
<1>4. [upload[r] EXCEPT !.at = t]
        = [at |-> t, file |-> upload[r].file, position |-> upload[r].position]
  <2> DEFINE u == upload[r]
  <2>1. u = [at |-> u.at, file |-> u.file, position |-> u.position]
    BY <1>2, RequestShape
  <2> HIDE DEF u
  <2>2. [u EXCEPT !.at = t] = [at |-> t, file |-> u.file, position |-> u.position]
    BY <2>1
  <2> QED
    BY <2>2 DEF u
<1>5. [upload[r] EXCEPT !.at = t] \in Request
  BY <1>2, <1>4, RequestShape DEF Request
<1>6. upload' \in [Uploaders -> Request]
  BY <1>1, <1>3, <1>5
<1>7. upload'[r] = [upload[r] EXCEPT !.at = t]
  BY <1>1, <1>3
<1>8. upload'[r].at = t /\ upload'[r].file = upload[r].file
  BY <1>4, <1>7
<1>9. \A q \in Uploaders : q # r => upload'[q] = upload[q]
  BY <1>1, <1>3
<1> QED
  BY <1>2, <1>6, <1>8, <1>9, RequestShape

\* The await of a request that is not free.
LEMMA AwaitIsBusy ==
    ASSUME NEW r, upload[r].at \in Uploading \cup Removing PROVE upload[r] # Free
BY DEF Free, Uploading, Removing

\* A request that has ended is free.
LEMMA Ended ==
    ASSUME MediaTypeOK, NEW r \in Uploaders, upload' = [upload EXCEPT ![r] = Free]
    PROVE  /\ upload' \in [Uploaders -> Request]
           /\ upload'[r] = Free
           /\ \A s \in Uploaders : s # r => upload'[s] = upload[s]
BY DEF MediaTypeOK, Request

\* The end of a request leaves each upload alone on its key.
LEMMA EndedAlone ==
    ASSUME MediaTypeOK, UploadAlone, NEW r \in Uploaders, upload' = [upload EXCEPT ![r] = Free]
    PROVE  UploadAlone'
<1>1. Free.at \notin Uploading /\ Free.file \notin Files
  BY MediaAssumption DEF Free, Uploading
<1>2. \A s \in Uploaders : upload[s].at \in Uploading => upload[s].file \in Files
  BY AwaitIsBusy, RequestShape
<1> QED
  BY <1>1, <1>2, Ended DEF UploadAlone

\* A request that begins on a file is alone in having changed.
LEMMA Begun ==
    ASSUME MediaTypeOK, NEW r \in Uploaders, NEW f \in Files, NEW t \in {"upload", "removeFile"},
           upload' = [upload EXCEPT ![r] = [Free EXCEPT !.at = t, !.file = f]]
    PROVE  /\ upload' \in [Uploaders -> Request]
           /\ upload'[r].at = t /\ upload'[r].file = f
           /\ \A s \in Uploaders : s # r => upload'[s] = upload[s]
<1>1. [Free EXCEPT !.at = t, !.file = f] = [at |-> t, file |-> f, position |-> 0]
  <2>1. [[at |-> "idle", file |-> NoFile, position |-> 0] EXCEPT !.at = t]
          = [at |-> t, file |-> NoFile, position |-> 0]
    OBVIOUS
  <2>2. [[at |-> t, file |-> NoFile, position |-> 0] EXCEPT !.file = f]
          = [at |-> t, file |-> f, position |-> 0]
    OBVIOUS
  <2> QED
    BY <2>1, <2>2 DEF Free
<1>2. 0 \in 0 .. NoRow - 1
  BY NoRowNat
<1>3. [at |-> t, file |-> f, position |-> 0] \in Request
  BY <1>2 DEF Request, Uploading, Removing
<1>4. upload \in [Uploaders -> Request]
  BY DEF MediaTypeOK, Request
<1> DEFINE next == [at |-> t, file |-> f, position |-> 0]
<1>5. next.at = t /\ next.file = f /\ next \in Request /\ upload' = [upload EXCEPT ![r] = next]
  BY <1>1, <1>3
<1> HIDE DEF next
<1> QED
  BY <1>4, <1>5

\* The count gives a position.
LEMMA RowsCounted ==
    ASSUME MediaTypeOK, UploadStage, NEW r \in Uploaders, CountRows(r)
    PROVE  /\ upload' \in [Uploaders -> Request]
           /\ upload[r].file \in Files
           /\ upload'[r].at = "insert"
           /\ \A q \in Uploaders : q # r => upload'[q] = upload[q]
           /\ \A q \in Uploaders : upload'[q].file = upload[q].file
<1> DEFINE n == Cardinality(Rows(Album[upload[r].file]))
           next == [at |-> "insert", file |-> upload[r].file, position |-> n]
<1>1. upload \in [Uploaders -> Request]
  BY DEF MediaTypeOK, Request
<1>2. upload[r] # Free /\ upload[r].at \in Uploading
  BY DEF CountRows, Free, Uploading
<1>3. upload[r].file \in Files
  BY <1>2, RequestShape
<1>4. n \in 0 .. NoRow - 1
  BY <1>2, <1>3, CountIsPosition DEF UploadStage
<1>5. next \in Request
  BY <1>3, <1>4 DEF Request, Uploading
<1>6. upload' = [upload EXCEPT ![r] = [upload[r] EXCEPT !.at = "insert", !.position = n]]
  BY <1>1 DEF CountRows
<1> HIDE DEF n
<1>7. [upload[r] EXCEPT !.at = "insert", !.position = n] = next
  <2> DEFINE u == upload[r]
  <2>1. u = [at |-> u.at, file |-> u.file, position |-> u.position]
    BY <1>2, RequestShape
  <2> HIDE DEF u
  <2>2. [u EXCEPT !.at = "insert"] = [at |-> "insert", file |-> u.file, position |-> u.position]
    BY <2>1
  <2>3. [[at |-> "insert", file |-> u.file, position |-> u.position] EXCEPT !.position = n]
          = [at |-> "insert", file |-> u.file, position |-> n]
    OBVIOUS
  <2> QED
    BY <2>2, <2>3 DEF u
<1>8. upload' = [upload EXCEPT ![r] = next]
  BY <1>6, <1>7
<1>9. upload'[r] = next /\ \A q \in Uploaders : q # r => upload'[q] = upload[q]
  BY <1>1, <1>8
<1>10. upload' \in [Uploaders -> Request]
  BY <1>1, <1>5, <1>8
<1> QED
  BY <1>3, <1>9, <1>10

-----------------------------------------------------------------------------
\* No file, no row, no request.
LEMMA MediaInitially == MediaInit => MediaTypeOK /\ MediaInv
<1> SUFFICES ASSUME MediaInit PROVE MediaTypeOK /\ MediaInv
  OBVIOUS
<1>1. MediaTypeOK
  BY NoRowNat DEF MediaInit, MediaTypeOK
<1>2. \A r \in Uploaders : upload[r] = Free
  BY DEF MediaInit
<1>3. Free.at \notin Uploading \cup Removing
  BY DEF Free, Uploading, Removing
<1>4. UploadAlone /\ UploadStage /\ RemovalStage
  BY <1>2, <1>3 DEF UploadAlone, UploadStage, RemovalStage, Uploading, Removing
<1>5. RowHasFile /\ NoOrphanFile
  BY DEF MediaInit, RowHasFile, NoOrphanFile
<1> QED
  BY <1>1, <1>4, <1>5 DEF MediaInv

\* Every action keeps the types and the invariant.
LEMMA MediaStep == MediaTypeOK /\ MediaInv /\ [MediaNext]_mediaVars => MediaTypeOK' /\ MediaInv'
<1> SUFFICES ASSUME MediaTypeOK, MediaInv, [MediaNext]_mediaVars PROVE MediaTypeOK' /\ MediaInv'
  OBVIOUS
<1> USE DEF MediaInv
<1>1. ASSUME NEW r \in Uploaders, NEW f \in Files, AddToListing(r, f) PROVE MediaTypeOK' /\ MediaInv'
  <2>1. /\ upload' \in [Uploaders -> Request]
        /\ upload'[r].at = "upload" /\ upload'[r].file = f
        /\ \A s \in Uploaders : s # r => upload'[s] = upload[s]
    BY <1>1, Begun DEF AddToListing
  <2>2. Album[f] \in Albums
    BY MediaAssumption
  <2>3. UNCHANGED <<stored, position, failed, thinned>>
    BY <1>1 DEF AddToListing
  <2>4. MediaTypeOK'
    BY <1>1, <2>1, <2>2, <2>3 DEF MediaTypeOK, Request, AddToListing
  <2>5. /\ upload[r].at \notin Uploading \cup Removing /\ upload[r].at # "deleteRow"
        /\ position[f] = NoRow /\ f \notin stored
        /\ \A s \in Uploaders : upload[s].file # f
    BY <1>1 DEF AddToListing, Free, Uploading, Removing
  <2>6. UploadAlone'
    BY <2>1, <2>5 DEF UploadAlone
  <2>7. UploadStage' /\ RemovalStage'
    BY <2>1, <2>3, <2>5 DEF UploadStage, RemovalStage, NoRow
  <2>8. RowHasFile'
    BY <2>1, <2>3, <2>5 DEF RowHasFile, NoRow
  <2>9. NoOrphanFile'
    BY <2>1, <2>3, <2>5 DEF NoOrphanFile, NoRow
  <2> QED
    BY <2>4, <2>6, <2>7, <2>8, <2>9
<1>2. ASSUME NEW r \in Uploaders, NEW f \in Files, RemoveMedium(r, f) PROVE MediaTypeOK' /\ MediaInv'
  <2>1. /\ upload' \in [Uploaders -> Request]
        /\ upload'[r].at = "removeFile" /\ upload'[r].file = f
        /\ \A s \in Uploaders : s # r => upload'[s] = upload[s]
    BY <1>2, Begun DEF RemoveMedium
  <2>2. UNCHANGED <<stored, position, failed, crowded, thinned>>
    BY <1>2 DEF RemoveMedium
  <2>3. MediaTypeOK'
    BY <2>1, <2>2 DEF MediaTypeOK, Request
  <2>4. upload[r].at \notin Uploading \cup Removing /\ position[f] # NoRow
    BY <1>2 DEF RemoveMedium, Free, Uploading, Removing
  <2>5. UploadAlone'
    BY <2>1, <2>4 DEF UploadAlone, UploadStage, Uploading
  <2>6. UploadStage' /\ RemovalStage'
    BY <2>1, <2>2 DEF UploadStage, RemovalStage, Uploading, NoRow
  <2>7. RowHasFile'
    BY <2>1, <2>2, <2>4 DEF RowHasFile, NoRow
  <2>8. NoOrphanFile'
    BY <2>1, <2>2, <2>4 DEF NoOrphanFile, NoRow
  <2> QED
    BY <2>3, <2>5, <2>6, <2>7, <2>8
<1>3. ASSUME NEW r \in Uploaders, StoreFile(r) PROVE MediaTypeOK' /\ MediaInv'
  <2> DEFINE f == upload[r].file
  <2>1. /\ upload' \in [Uploaders -> Request]
        /\ f \in Files
        /\ upload'[r].at = "count"
        /\ \A q \in Uploaders : q # r => upload'[q] = upload[q]
        /\ \A q \in Uploaders : upload'[q].file = upload[q].file
    BY <1>3, MovedOn DEF StoreFile, Uploading
  <2>2. /\ upload[r].at = "upload" /\ stored' = stored \cup {f}
        /\ UNCHANGED <<position, failed, crowded, thinned>>
    BY <1>3 DEF StoreFile, GoOn
  <2>3. MediaTypeOK'
    BY <2>1, <2>2 DEF MediaTypeOK, Request
  <2>4. \A s \in Uploaders : s # r => upload[s].file # f
    BY <2>2 DEF UploadAlone, Uploading
  <2> HIDE DEF f
  <2>5. UploadAlone'
    BY <2>1, <2>2 DEF UploadAlone, Uploading
  <2>6. UploadStage' /\ RemovalStage'
    BY <2>1, <2>2, <2>4 DEF UploadStage, RemovalStage, Uploading, NoRow, f
  <2>7. RowHasFile'
    BY <2>1, <2>2 DEF RowHasFile, Removing, NoRow
  <2>8. NoOrphanFile'
    BY <2>1, <2>2 DEF NoOrphanFile, Uploading, NoRow, f
  <2> QED
    BY <2>3, <2>5, <2>6, <2>7, <2>8
<1>4. ASSUME NEW r \in Uploaders, CountRows(r) PROVE MediaTypeOK' /\ MediaInv'
  <2>1. /\ upload' \in [Uploaders -> Request]
        /\ upload'[r].at = "insert"
        /\ \A q \in Uploaders : q # r => upload'[q] = upload[q]
        /\ \A q \in Uploaders : upload'[q].file = upload[q].file
    BY <1>4, RowsCounted
  <2>2. upload[r].at = "count" /\ UNCHANGED <<stored, position, failed, crowded, thinned>>
    BY <1>4 DEF CountRows
  <2>3. MediaTypeOK'
    BY <2>1, <2>2 DEF MediaTypeOK, Request
  <2>4. UploadAlone'
    BY <2>1, <2>2 DEF UploadAlone, Uploading
  <2>5. UploadStage' /\ RemovalStage'
    BY <2>1, <2>2 DEF UploadStage, RemovalStage, Uploading, NoRow
  <2>6. RowHasFile' /\ NoOrphanFile'
    BY <2>1, <2>2 DEF RowHasFile, NoOrphanFile, Uploading, Removing, NoRow
  <2> QED
    BY <2>3, <2>4, <2>5, <2>6
<1>5. ASSUME NEW r \in Uploaders, InsertRow(r) PROVE MediaTypeOK' /\ MediaInv'
  <2> DEFINE f == upload[r].file
  <2>1. /\ upload' \in [Uploaders -> Request]
        /\ upload'[r] = Free
        /\ \A s \in Uploaders : s # r => upload'[s] = upload[s]
    BY <1>5, Ended DEF InsertRow, Done
  <2>2. /\ upload[r].at = "insert" /\ position' = [position EXCEPT ![f] = upload[r].position]
        /\ UNCHANGED <<stored, failed, crowded, thinned>>
    BY <1>5 DEF InsertRow, Done
  <2>3. f \in Files /\ upload[r].position \in 0 .. NoRow - 1
    BY <2>2, RequestShape, AwaitIsBusy DEF Uploading
  <2>4. upload[r].position \in 0 .. NoRow /\ upload[r].position # NoRow
    BY <2>3, NoRowNat
  <2>5. MediaTypeOK'
    BY <2>1, <2>2, <2>3, <2>4 DEF MediaTypeOK, Request
  <2>6. f \in stored /\ \A s \in Uploaders : s # r => upload[s].file # f
    BY <2>2 DEF UploadAlone, UploadStage, Uploading
  <2>7. /\ \A g \in Files : g # f => position'[g] = position[g]
        /\ position'[f] # NoRow
    BY <2>2, <2>3, <2>4 DEF MediaTypeOK
  <2>8. Free.at \notin Uploading \cup Removing
    BY DEF Free, Uploading, Removing
  <2>9. UploadAlone'
    BY <1>5, EndedAlone DEF InsertRow, Done
  <2>10. \A s \in Uploaders \ {r} : upload[s] # Free => upload[s].file \in Files \ {f}
    BY <2>6, RequestShape
  <2>11. UploadStage'
    BY <2>1, <2>2, <2>7, <2>8, <2>10, AwaitIsBusy DEF UploadStage, Uploading, NoRow
  <2>12. RemovalStage'
    BY <2>1, <2>2, <2>8 DEF RemovalStage, Removing
  <2> HIDE DEF f
  <2>13. RowHasFile'
    BY <2>1, <2>2, <2>6, <2>7 DEF RowHasFile, Removing, NoRow
  <2>14. NoOrphanFile'
    BY <2>1, <2>2, <2>3, <2>7 DEF NoOrphanFile, Uploading, NoRow, f, MediaTypeOK
  <2> QED
    BY <2>5, <2>9, <2>11, <2>12, <2>13, <2>14
<1>6. ASSUME NEW r \in Uploaders, RemoveFile(r) PROVE MediaTypeOK' /\ MediaInv'
  <2> DEFINE f == upload[r].file
  <2>1. /\ upload' \in [Uploaders -> Request]
        /\ f \in Files
        /\ upload'[r].at = "deleteRow"
        /\ \A q \in Uploaders : q # r => upload'[q] = upload[q]
        /\ \A q \in Uploaders : upload'[q].file = upload[q].file
    BY <1>6, MovedOn DEF RemoveFile, Removing
  <2>2. /\ upload[r].at = "removeFile" /\ stored' = stored \ {f}
        /\ UNCHANGED <<position, failed, crowded, thinned>>
    BY <1>6 DEF RemoveFile, GoOn
  <2>3. MediaTypeOK'
    BY <2>1, <2>2 DEF MediaTypeOK, Request
  <2>4. \A s \in Uploaders : upload[s].at \in Uploading => upload[s].file # f
    BY <2>2 DEF UploadAlone, Uploading
  <2> HIDE DEF f
  <2>5. UploadAlone'
    BY <2>1, <2>2 DEF UploadAlone, Uploading
  <2>6. UploadStage' /\ RemovalStage'
    BY <2>1, <2>2, <2>4 DEF UploadStage, RemovalStage, Uploading, NoRow, f
  <2>7. RowHasFile'
    BY <2>1, <2>2 DEF RowHasFile, Removing, NoRow, f
  <2>8. NoOrphanFile'
    BY <2>1, <2>2 DEF NoOrphanFile, Uploading, NoRow
  <2> QED
    BY <2>3, <2>5, <2>6, <2>7, <2>8
<1>7. ASSUME NEW r \in Uploaders, RemoveFileSwallowed(r) PROVE MediaTypeOK' /\ MediaInv'
  <2> DEFINE f == upload[r].file
  <2>1. /\ upload' \in [Uploaders -> Request]
        /\ f \in Files
        /\ upload'[r].at = "deleteRow"
        /\ \A q \in Uploaders : q # r => upload'[q] = upload[q]
        /\ \A q \in Uploaders : upload'[q].file = upload[q].file
    BY <1>7, MovedOn DEF RemoveFileSwallowed, Removing
  <2>2. /\ upload[r].at = "removeFile" /\ failed' = failed \cup {<<f, "removal">>}
        /\ UNCHANGED <<stored, position, crowded, thinned>>
    BY <1>7 DEF RemoveFileSwallowed, GoOn
  <2>3. MediaTypeOK'
    BY <2>1, <2>2 DEF MediaTypeOK, Request
  <2> HIDE DEF f
  <2>4. UploadAlone'
    BY <2>1, <2>2 DEF UploadAlone, Uploading
  <2>5. UploadStage' /\ RemovalStage'
    BY <2>1, <2>2 DEF UploadStage, RemovalStage, Uploading, NoRow, f
  <2>6. RowHasFile'
    BY <2>1, <2>2 DEF RowHasFile, Removing, NoRow
  <2>7. NoOrphanFile'
    BY <2>1, <2>2 DEF NoOrphanFile, Uploading, NoRow
  <2> QED
    BY <2>3, <2>4, <2>5, <2>6, <2>7
<1>8. ASSUME NEW r \in Uploaders, DeleteRow(r) PROVE MediaTypeOK' /\ MediaInv'
  <2> DEFINE f == upload[r].file
  <2>1. /\ upload' \in [Uploaders -> Request]
        /\ upload'[r] = Free
        /\ \A s \in Uploaders : s # r => upload'[s] = upload[s]
    BY <1>8, Ended DEF DeleteRow, Done
  <2>2. /\ upload[r].at = "deleteRow" /\ position' = [position EXCEPT ![f] = NoRow]
        /\ thinned' = thinned \cup {Album[f]}
        /\ UNCHANGED <<stored, failed, crowded>>
    BY <1>8 DEF DeleteRow, Done
  <2>3. f \in Files /\ Album[f] \in Albums
    BY <2>2, RequestShape, AwaitIsBusy, MediaAssumption DEF Removing
  <2>4. MediaTypeOK'
    BY <2>1, <2>2, <2>3, NoRowNat DEF MediaTypeOK, Request
  <2>5. /\ \A g \in Files : g # f => position'[g] = position[g]
        /\ position'[f] = NoRow
    BY <2>2, <2>3 DEF MediaTypeOK
  <2>6. f \notin stored \/ <<f, "removal">> \in failed
    BY <2>2 DEF RemovalStage
  <2>7. Free.at \notin Uploading \cup Removing
    BY DEF Free, Uploading, Removing
  <2>8. UploadAlone'
    BY <1>8, EndedAlone DEF DeleteRow, Done
  <2>9. \A s \in Uploaders : upload[s] # Free => upload[s].file \in Files
    BY RequestShape
  <2>10. UploadStage'
    BY <2>1, <2>2, <2>5, <2>7, <2>9, AwaitIsBusy DEF UploadStage, Uploading, NoRow
  <2>11. RemovalStage'
    BY <2>1, <2>2, <2>7 DEF RemovalStage, Removing
  <2> HIDE DEF f
  <2>12. RowHasFile'
    BY <2>1, <2>2, <2>5 DEF RowHasFile, Removing, NoRow, f
  <2>13. NoOrphanFile'
    BY <2>1, <2>2, <2>5, <2>6 DEF NoOrphanFile, Uploading, NoRow, MediaTypeOK
  <2> QED
    BY <2>4, <2>8, <2>10, <2>11, <2>12, <2>13
<1>9. ASSUME NEW r \in Uploaders, Fails(r) PROVE MediaTypeOK' /\ MediaInv'
  <2> DEFINE f == upload[r].file
  <2>1. /\ upload' \in [Uploaders -> Request]
        /\ upload'[r] = Free
        /\ \A s \in Uploaders : s # r => upload'[s] = upload[s]
    BY <1>9, Ended DEF Fails
  <2>2. /\ upload[r] # Free /\ failed' = failed \cup {<<f, Phase(r)>>}
        /\ UNCHANGED <<position, crowded, thinned>>
    BY <1>9 DEF Fails
  <2>3. /\ f \in Files /\ upload[r].at \in Uploading \cup Removing
        /\ \/ upload[r].at \in Uploading /\ Phase(r) = "upload"
           \/ upload[r].at \in Removing /\ Phase(r) = "removal"
    BY <2>2, RequestShape DEF Phase, Uploading, Removing
  <2>4. \/ stored' = stored
        \/ upload[r].at = "upload" /\ stored' = stored \cup {f}
        \/ upload[r].at = "removeFile" /\ stored' = stored \ {f}
    BY <1>9 DEF Fails
  <2>5. MediaTypeOK'
    BY <2>1, <2>2, <2>3, <2>4 DEF MediaTypeOK, Request
  <2>6. Free.at \notin Uploading \cup Removing
    BY DEF Free, Uploading, Removing
  <2>7. UploadAlone'
    BY <1>9, EndedAlone DEF Fails
  <2>8. \A s \in Uploaders \ {r} :
           /\ upload[s].at \in Uploading => upload[s].file # f
           /\ upload[r].at \in Uploading => upload[s].file # f
    BY DEF UploadAlone
  <2> HIDE DEF f
  <2>9. UploadStage'
    BY <2>1, <2>2, <2>4, <2>6, <2>8 DEF UploadStage, Uploading, NoRow
  <2>10. RemovalStage'
    BY <2>1, <2>2, <2>4, <2>6, <2>8 DEF RemovalStage, Removing, Uploading
  <2>11. RowHasFile'
    BY <2>1, <2>2, <2>3, <2>4 DEF RowHasFile, Uploading, Removing, NoRow, f
  <2>12. NoOrphanFile'
    BY <2>1, <2>2, <2>3, <2>4 DEF NoOrphanFile, Uploading, Removing, NoRow, f
  <2> QED
    BY <2>5, <2>7, <2>9, <2>10, <2>11, <2>12
<1>10. CASE UNCHANGED mediaVars
  BY <1>10 DEF mediaVars, MediaTypeOK, UploadAlone, UploadStage, RemovalStage, RowHasFile,
               NoOrphanFile, NoRow
<1> QED
  BY <1>1, <1>2, <1>3, <1>4, <1>5, <1>6, <1>7, <1>8, <1>9, <1>10 DEF MediaNext

-----------------------------------------------------------------------------
\* The types of Media, and the stages of its requests, in every reachable
\* state: an upload is alone on its key and has no row before its last await.
THEOREM MediaInvariance == MediaSpec => [](MediaTypeOK /\ MediaInv)
<1>1. MediaInit => MediaTypeOK /\ MediaInv
  BY MediaInitially
<1>2. MediaTypeOK /\ MediaInv /\ [MediaNext]_mediaVars => (MediaTypeOK /\ MediaInv)'
  BY MediaStep
<1> QED
  BY <1>1, <1>2, PTL DEF MediaSpec

\* No medium is shown without its file, but while or after a removal: for any
\* number of listings, files and crossing requests, whichever of them fail.
THEOREM MediumKeepsItsFile == MediaSpec => []RowHasFile
<1>1. MediaTypeOK /\ MediaInv => RowHasFile
  BY DEF MediaInv
<1> QED
  BY <1>1, MediaInvariance, PTL

\* No file is left in the store without a medium, but by a failure.
THEOREM FileKeepsItsMedium == MediaSpec => []NoOrphanFile
<1>1. MediaTypeOK /\ MediaInv => NoOrphanFile
  BY DEF MediaInv
<1> QED
  BY <1>1, MediaInvariance, PTL

-----------------------------------------------------------------------------
(* The counts: while one upload at a time works on a listing, what it has  *)
(* counted is still the number of its rows.                                *)

OneUpload ==
    \A r, s \in Uploaders :
       /\ upload[r].at \in Uploading /\ upload[s].at \in Uploading
       /\ Album[upload[r].file] = Album[upload[s].file] /\ Album[upload[r].file] \notin crowded
       => r = s

RoomLeft ==
    \A r \in Uploaders :
       upload[r].at \in Uploading /\ Album[upload[r].file] \notin crowded => BelowQuota(upload[r].file)

Quiet(l) == l \notin crowded \cup thinned

InOrder ==
    /\ \A l \in Albums : Quiet(l) => \A f \in Rows(l) : position[f] < Cardinality(Rows(l))
    /\ \A r \in Uploaders : upload[r].at = "insert" /\ Quiet(Album[upload[r].file]) =>
          upload[r].position = Cardinality(Rows(Album[upload[r].file]))

CountsInv == OneUpload /\ RoomLeft /\ QuotaKept /\ InOrder /\ PositionsDistinct

\* The rows of a listing, and those of one kind, can be counted.
LEMMA RowsFinite ==
    ASSUME NEW l, NEW k
    PROVE  /\ IsFiniteSet(Rows(l)) /\ Cardinality(Rows(l)) \in Nat
           /\ IsFiniteSet({g \in Rows(l) : Kind[g] = k}) /\ Cardinality({g \in Rows(l) : Kind[g] = k}) \in Nat
<1>1. Rows(l) \subseteq Files /\ {g \in Rows(l) : Kind[g] = k} \subseteq Files
  BY DEF Rows
<1>2. IsFiniteSet(Rows(l)) /\ IsFiniteSet({g \in Rows(l) : Kind[g] = k})
  BY <1>1, FS_Subset, MediaAssumption
<1> QED
  BY <1>2, FS_CardinalityType

LEMMA CountsInitially == MediaInit => CountsInv
<1> SUFFICES ASSUME MediaInit PROVE CountsInv
  OBVIOUS
<1>1. \A r \in Uploaders : upload[r].at \notin Uploading
  BY DEF MediaInit, Free, Uploading
<1>2. \A l : Rows(l) = {}
  BY DEF MediaInit, Rows
<1>3. QuotaKept
  <2> SUFFICES ASSUME NEW l \in Albums, NEW k \in DOMAIN MaxOf
               PROVE  Cardinality({f \in Rows(l) : Kind[f] = k}) <= MaxOf[k]
    BY DEF QuotaKept
  <2>1. {f \in Rows(l) : Kind[f] = k} = {}
    BY <1>2
  <2>2. Cardinality({f \in Rows(l) : Kind[f] = k}) = 0
    BY <2>1, FS_EmptySet
  <2> QED
    BY <2>2, MediaAssumption
<1>4. InOrder /\ PositionsDistinct
  BY <1>1, <1>2 DEF InOrder, PositionsDistinct, Uploading
<1> QED
  BY <1>1, <1>3, <1>4 DEF CountsInv, OneUpload, RoomLeft

\* A step that leaves the rows alone, starts no upload, and counts the rows if
\* it counts anything.
LEMMA QuietStep ==
    ASSUME CountsInv, position' = position, crowded' = crowded, thinned' = thinned,
           \A s \in Uploaders : upload'[s].at \in Uploading =>
              upload[s].at \in Uploading /\ upload'[s].file = upload[s].file,
           \A s \in Uploaders : upload'[s].at = "insert" =>
              \/ upload'[s] = upload[s]
              \/ upload'[s].position = Cardinality(Rows(Album[upload'[s].file]))
    PROVE  CountsInv'
<1>1. \A l : Rows(l)' = Rows(l)
  BY DEF Rows, NoRow
<1>2. QuotaKept' /\ PositionsDistinct'
  BY <1>1 DEF CountsInv, QuotaKept, PositionsDistinct
<1>3. \A f : BelowQuota(f)' <=> BelowQuota(f)
  BY <1>1 DEF BelowQuota
<1>4. OneUpload'
  BY DEF CountsInv, OneUpload
<1>5. \A r \in Uploaders :
         upload'[r].at \in Uploading /\ Album[upload'[r].file] \notin crowded => BelowQuota(upload'[r].file)
  BY DEF CountsInv, RoomLeft
<1>6. RoomLeft'
  BY <1>1, <1>5 DEF RoomLeft, BelowQuota
<1>7. \A l : Quiet(l)' <=> Quiet(l)
  BY DEF Quiet
<1>8. \A l \in Albums : Quiet(l) => \A f \in Rows(l) : position[f] < Cardinality(Rows(l))
  BY DEF CountsInv, InOrder
<1>9. \A r \in Uploaders : upload'[r].at = "insert" /\ Quiet(Album[upload'[r].file]) =>
          upload'[r].position = Cardinality(Rows(Album[upload'[r].file]))
  BY DEF CountsInv, InOrder, Uploading
<1>10. InOrder'
  BY <1>1, <1>7, <1>8, <1>9 DEF InOrder
<1> QED
  BY <1>2, <1>4, <1>6, <1>10 DEF CountsInv

\* An upload that starts alone on its listing has room.
LEMMA CountsAdd ==
    ASSUME MediaTypeOK, CountsInv, NEW r \in Uploaders, NEW f \in Files, AddToListing(r, f)
    PROVE  CountsInv'
<1>1. /\ upload'[r].at = "upload" /\ upload'[r].file = f
      /\ \A s \in Uploaders : s # r => upload'[s] = upload[s]
  BY Begun DEF AddToListing
<1>2. position' = position /\ thinned' = thinned /\ BelowQuota(f) /\ crowded \subseteq crowded'
  BY DEF AddToListing
<1>3. \A s \in Uploaders : upload[s].at \in Uploading /\ Album[upload[s].file] = Album[f] =>
         Album[f] \in crowded'
  BY DEF AddToListing
<1>4. \A l : Rows(l)' = Rows(l)
  BY <1>2 DEF Rows, NoRow
<1>5. QuotaKept' /\ PositionsDistinct'
  BY <1>2, <1>4 DEF CountsInv, QuotaKept, PositionsDistinct
<1>6. OneUpload'
  BY <1>1, <1>2, <1>3 DEF CountsInv, OneUpload
<1>7. \A s \in Uploaders :
         upload'[s].at \in Uploading /\ Album[upload'[s].file] \notin crowded' => BelowQuota(upload'[s].file)
  BY <1>1, <1>2 DEF CountsInv, RoomLeft
<1>8. RoomLeft'
  BY <1>4, <1>7 DEF RoomLeft, BelowQuota
<1>9. \A l : Quiet(l)' => Quiet(l)
  BY <1>2 DEF Quiet
<1>10. \A s \in Uploaders : upload'[s].at = "insert" => upload'[s] = upload[s]
  BY <1>1
<1>11. \A l \in Albums : Quiet(l)' => \A g \in Rows(l) : position[g] < Cardinality(Rows(l))
  BY <1>9 DEF CountsInv, InOrder
<1>12. \A s \in Uploaders : \A m : upload'[s].at = "insert" /\ Album[upload'[s].file] = m /\ Quiet(m)' =>
          upload'[s].position = Cardinality(Rows(m))
  BY <1>9, <1>10 DEF CountsInv, InOrder
<1>13. InOrder'
  BY <1>2, <1>4, <1>11, <1>12 DEF InOrder, Quiet
<1> QED
  BY <1>5, <1>6, <1>8, <1>13 DEF CountsInv

\* The row goes into the room the upload saw, at the position it counted.
LEMMA CountsInsert ==
    ASSUME MediaTypeOK, MediaInv, CountsInv, NEW r \in Uploaders, InsertRow(r)
    PROVE  CountsInv'
<1> PICK f : f = upload[r].file
  OBVIOUS
<1> PICK l : l = Album[f]
  OBVIOUS
<1>1. /\ upload'[r] = Free
      /\ \A s \in Uploaders : s # r => upload'[s] = upload[s]
  BY Ended DEF InsertRow, Done
<1>2. /\ upload[r].at = "insert" /\ upload[r].at \in Uploading
      /\ position' = [position EXCEPT ![f] = upload[r].position]
      /\ crowded' = crowded /\ thinned' = thinned
  BY DEF InsertRow, Done, Uploading
<1>3. f \in Files /\ upload[r].position \in 0 .. NoRow - 1 /\ l \in Albums
  BY <1>2, RequestShape, AwaitIsBusy, MediaAssumption
<1>4. upload[r].position # NoRow /\ position[f] = NoRow
  BY <1>2, <1>3, NoRowNat DEF MediaInv, UploadStage
<1>5. /\ \A g \in Files : g # f => position'[g] = position[g]
      /\ position'[f] = upload[r].position
  BY <1>2, <1>3 DEF MediaTypeOK
<1>6. Quiet(l) => upload[r].position = Cardinality(Rows(l))
  BY <1>2 DEF CountsInv, InOrder
<1>7. l \notin crowded => BelowQuota(f)
  BY <1>2 DEF CountsInv, RoomLeft
<1>8. \A s \in Uploaders : s # r /\ upload[s].at \in Uploading /\ Album[upload[s].file] = l => l \in crowded
  BY <1>2 DEF CountsInv, OneUpload
<1>9. Free.at \notin Uploading
  BY DEF Free, Uploading
<1>10. f \notin Rows(l) /\ Rows(l)' = Rows(l) \cup {f} /\ \A m : m # l => Rows(m)' = Rows(m)
  BY <1>3, <1>4, <1>5 DEF Rows, NoRow
<1>11. Cardinality(Rows(l)') = Cardinality(Rows(l)) + 1
  BY <1>10, RowsFinite, FS_AddElement
<1>12. QuotaKept'
  <2> SUFFICES ASSUME NEW m \in Albums, m \notin crowded, NEW k \in DOMAIN MaxOf
               PROVE  Cardinality({g \in Rows(m)' : Kind[g] = k}) <= MaxOf[k]
    BY <1>2 DEF QuotaKept
  <2>1. Cardinality({g \in Rows(m) : Kind[g] = k}) <= MaxOf[k]
    BY DEF CountsInv, QuotaKept
  <2>2. CASE m # l \/ Kind[f] # k
    <3>1. {g \in Rows(m)' : Kind[g] = k} = {g \in Rows(m) : Kind[g] = k}
      BY <2>2, <1>10
    <3> QED
      BY <2>1, <3>1
  <2>3. CASE m = l /\ Kind[f] = k
    <3> DEFINE S == {g \in Rows(l) : Kind[g] = k}
    <3>1. {g \in Rows(m)' : Kind[g] = k} = S \cup {f} /\ f \notin S
      BY <2>3, <1>10
    <3>2. Cardinality(S) < MaxOf[k]
      BY <2>3, <1>7 DEF BelowQuota
    <3>3. IsFiniteSet(S) /\ Cardinality(S) \in Nat
      BY RowsFinite
    <3> HIDE DEF S
    <3>4. Cardinality(S \cup {f}) = Cardinality(S) + 1
      BY <3>1, <3>3, FS_AddElement
    <3>5. MaxOf[k] \in Nat
      BY MediaAssumption
    <3>6. Cardinality(S \cup {f}) <= MaxOf[k]
      BY <3>2, <3>3, <3>4, <3>5
    <3> QED
      BY <3>1, <3>6
  <2> QED
    BY <2>2, <2>3
<1>13. PositionsDistinct'
  <2> SUFFICES ASSUME NEW m \in Albums, m \notin crowded \cup thinned, NEW g \in Rows(m)', NEW h \in Rows(m)',
                      position'[g] = position'[h]
               PROVE  g = h
    BY <1>2 DEF PositionsDistinct
  <2>1. \A a \in Rows(m) : a \in Files /\ position[a] < Cardinality(Rows(m)) /\ position[a] \in Nat
    BY NoRowNat DEF CountsInv, InOrder, Quiet, Rows, MediaTypeOK
  <2>2. \A a, b \in Rows(m) : position[a] = position[b] => a = b
    BY DEF CountsInv, PositionsDistinct
  <2>3. CASE m # l
    <3>1. f \notin Rows(m)
      BY <1>4 DEF Rows
    <3>2. g \in Rows(m) /\ h \in Rows(m)
      BY <1>10, <2>3
    <3>3. position'[g] = position[g] /\ position'[h] = position[h]
      BY <1>5, <2>1, <3>1, <3>2
    <3> QED
      BY <2>2, <3>2, <3>3
  <2>4. CASE m = l
    <3>1. position'[f] = Cardinality(Rows(l)) /\ Cardinality(Rows(l)) \in Nat
      BY <1>5, <1>6, <2>4, RowsFinite DEF Quiet
    <3>2. \A a \in Rows(l) : position'[a] = position[a] /\ position'[a] # position'[f]
      BY <1>5, <1>10, <2>1, <2>4, <3>1
    <3> QED
      BY <1>10, <2>2, <2>4, <3>2
  <2> QED
    BY <2>3, <2>4
<1>14. \A m : Quiet(m)' <=> Quiet(m)
  BY <1>2 DEF Quiet
<1>15. \A m \in Albums : Quiet(m) => \A g \in Rows(m)' : position'[g] < Cardinality(Rows(m)')
  <2> SUFFICES ASSUME NEW m \in Albums, Quiet(m), NEW g \in Rows(m)'
               PROVE  position'[g] < Cardinality(Rows(m)')
    OBVIOUS
  <2>1. \A a \in Rows(m) : a \in Files /\ position[a] < Cardinality(Rows(m)) /\ position[a] \in Nat
    BY NoRowNat DEF CountsInv, InOrder, Rows, MediaTypeOK
  <2>2. CASE m # l
    <3>1. f \notin Rows(m)
      BY <1>4 DEF Rows
    <3> QED
      BY <1>5, <1>10, <2>1, <2>2, <3>1
  <2>3. CASE m = l
    <3>1. position'[f] = Cardinality(Rows(l)) /\ Cardinality(Rows(l)) \in Nat
      BY <1>5, <1>6, <2>3, RowsFinite
    <3>2. \A a \in Rows(l) : position'[a] = position[a]
      BY <1>5, <1>10, <2>1, <2>3
    <3>3. Cardinality(Rows(m)') = Cardinality(Rows(l)) + 1
      BY <1>11, <2>3
    <3>4. g = f \/ g \in Rows(l)
      BY <1>10, <2>3
    <3>5. g \in Rows(l) => position'[g] < Cardinality(Rows(l)) /\ position'[g] \in Nat
      BY <2>1, <2>3, <3>2
    <3> QED
      BY <3>1, <3>3, <3>4, <3>5
  <2> QED
    BY <2>2, <2>3
<1>16. \A s \in Uploaders : upload'[s].at \in Uploading =>
         s # r /\ upload'[s] = upload[s] /\ (Album[upload[s].file] = l => l \in crowded)
  BY <1>1, <1>8, <1>9
<1>17. OneUpload'
  BY <1>2, <1>16 DEF CountsInv, OneUpload
<1>18. \A g : Album[g] # l => (BelowQuota(g)' <=> BelowQuota(g))
  BY <1>10 DEF BelowQuota
<1>19. \A s \in Uploaders : upload'[s].at \in Uploading /\ Album[upload'[s].file] \notin crowded =>
         Album[upload'[s].file] # l /\ BelowQuota(upload'[s].file)
  BY <1>16 DEF CountsInv, RoomLeft
<1>20. RoomLeft'
  BY <1>2, <1>10, <1>19 DEF RoomLeft, BelowQuota
<1>21. \A s \in Uploaders : \A m : upload'[s].at = "insert" /\ Album[upload'[s].file] = m /\ Quiet(m) =>
         m # l /\ upload'[s].position = Cardinality(Rows(m))
  BY <1>16 DEF CountsInv, InOrder, Quiet, Uploading
<1>22. InOrder'
  BY <1>10, <1>14, <1>15, <1>21 DEF InOrder, Quiet
<1> QED
  BY <1>12, <1>13, <1>17, <1>20, <1>22 DEF CountsInv

\* A removal makes room, and gives up the order.
LEMMA CountsDelete ==
    ASSUME MediaTypeOK, MediaInv, CountsInv, NEW r \in Uploaders, DeleteRow(r)
    PROVE  CountsInv'
<1> PICK f : f = upload[r].file
  OBVIOUS
<1> PICK l : l = Album[f]
  OBVIOUS
<1>1. /\ upload'[r] = Free
      /\ \A s \in Uploaders : s # r => upload'[s] = upload[s]
  BY Ended DEF DeleteRow, Done
<1>2. /\ position' = [position EXCEPT ![f] = NoRow]
      /\ crowded' = crowded /\ thinned' = thinned \cup {l}
  BY DEF DeleteRow, Done
<1>3. f \in Files
  BY RequestShape, AwaitIsBusy DEF DeleteRow, Done, Removing
<1>4. /\ \A g \in Files : g # f => position'[g] = position[g]
      /\ position'[f] = NoRow
  BY <1>2, <1>3 DEF MediaTypeOK
<1>5. Free.at \notin Uploading
  BY DEF Free, Uploading
<1>6. \A m : Rows(m)' \subseteq Rows(m) /\ (m # l => Rows(m)' = Rows(m))
  BY <1>3, <1>4 DEF Rows, NoRow
<1>7. \A m, k : /\ Cardinality({g \in Rows(m)' : Kind[g] = k}) <= Cardinality({g \in Rows(m) : Kind[g] = k})
               /\ Cardinality({g \in Rows(m)' : Kind[g] = k}) \in Nat
               /\ Cardinality({g \in Rows(m) : Kind[g] = k}) \in Nat
  <2> TAKE m, k
  <2>1. {g \in Rows(m)' : Kind[g] = k} \subseteq {g \in Rows(m) : Kind[g] = k}
    BY <1>6
  <2>2. IsFiniteSet({g \in Rows(m) : Kind[g] = k})
    BY RowsFinite
  <2> QED
    BY <2>1, <2>2, FS_Subset, FS_CardinalityType
<1>8. QuotaKept'
  <2> SUFFICES ASSUME NEW m \in Albums, m \notin crowded, NEW k \in DOMAIN MaxOf
               PROVE  Cardinality({g \in Rows(m)' : Kind[g] = k}) <= MaxOf[k]
    BY <1>2 DEF QuotaKept
  <2> DEFINE old == Cardinality({g \in Rows(m) : Kind[g] = k})
             new == Cardinality({g \in Rows(m)' : Kind[g] = k})
  <2>1. old <= MaxOf[k] /\ MaxOf[k] \in Nat
    BY MediaAssumption DEF CountsInv, QuotaKept
  <2>2. new <= old /\ new \in Nat /\ old \in Nat
    BY <1>7
  <2> HIDE DEF old, new
  <2>3. new <= MaxOf[k]
    BY <2>1, <2>2
  <2> QED
    BY <2>3 DEF new
<1>9. \A s \in Uploaders : upload'[s].at \in Uploading => upload'[s] = upload[s]
  BY <1>1, <1>5
<1>10. OneUpload'
  BY <1>2, <1>9 DEF CountsInv, OneUpload
<1>11. RoomLeft'
  <2> SUFFICES ASSUME NEW s \in Uploaders, upload'[s].at \in Uploading, Album[upload'[s].file] \notin crowded
               PROVE  BelowQuota(upload[s].file)'
    BY <1>2, <1>9 DEF RoomLeft, BelowQuota
  <2> PICK a : a = upload'[s].file
    OBVIOUS
  <2>1. upload[s].at \in Uploading /\ upload[s].file = a
    BY <1>9
  <2>2. a \in Files /\ Kind[a] \in DOMAIN MaxOf /\ MaxOf[Kind[a]] \in Nat
    BY <2>1, RequestShape, AwaitIsBusy, MediaAssumption
  <2>3. Cardinality({g \in Rows(Album[a]) : Kind[g] = Kind[a]}) < MaxOf[Kind[a]]
    BY <2>1 DEF CountsInv, RoomLeft, BelowQuota
  <2>4. Cardinality({g \in Rows(Album[a])' : Kind[g] = Kind[a]}) < MaxOf[Kind[a]]
    BY <1>7, <2>2, <2>3
  <2> QED
    BY <2>4, <1>9 DEF BelowQuota
<1>12. \A m : Quiet(m)' => Quiet(m) /\ m # l /\ Rows(m)' = Rows(m)
  BY <1>2, <1>6 DEF Quiet
<1>13. \A m : m # l => \A g \in Rows(m) : position'[g] = position[g]
  BY <1>4 DEF Rows
<1>14. \A m \in Albums : Quiet(m)' => \A g \in Rows(m)' : position'[g] < Cardinality(Rows(m)')
  BY <1>12, <1>13 DEF CountsInv, InOrder
<1>15. \A s \in Uploaders : \A m : upload'[s].at = "insert" /\ Album[upload'[s].file] = m /\ Quiet(m)' =>
          upload'[s].position = Cardinality(Rows(m)')
  BY <1>9, <1>12 DEF CountsInv, InOrder, Uploading
<1>16. InOrder'
  BY <1>14, <1>15 DEF InOrder, Quiet
<1>17. PositionsDistinct'
  BY <1>2, <1>12, <1>13 DEF CountsInv, PositionsDistinct, Quiet
<1> QED
  BY <1>8, <1>10, <1>11, <1>16, <1>17 DEF CountsInv

LEMMA CountsStep == MediaTypeOK /\ MediaInv /\ CountsInv /\ [MediaNext]_mediaVars => CountsInv'
<1> SUFFICES ASSUME MediaTypeOK, MediaInv, CountsInv, [MediaNext]_mediaVars PROVE CountsInv'
  OBVIOUS
<1>1. Free.at \notin Uploading /\ Free.at # "insert"
  BY DEF Free, Uploading
<1>2. ASSUME NEW r \in Uploaders, NEW f \in Files, RemoveMedium(r, f) PROVE CountsInv'
  <2>1. /\ upload'[r].at = "removeFile" /\ \A s \in Uploaders : s # r => upload'[s] = upload[s]
    BY <1>2, Begun DEF RemoveMedium
  <2> QED
    BY <1>2, <2>1, QuietStep DEF RemoveMedium, Uploading
<1>3. ASSUME NEW r \in Uploaders, StoreFile(r) PROVE CountsInv'
  <2>1. /\ upload'[r].at = "count" /\ upload[r].at = "upload"
        /\ \A s \in Uploaders : s # r => upload'[s] = upload[s]
        /\ \A s \in Uploaders : upload'[s].file = upload[s].file
    BY <1>3, MovedOn DEF StoreFile, GoOn, Uploading
  <2> QED
    BY <1>3, <2>1, QuietStep DEF StoreFile, Uploading
<1>4. ASSUME NEW r \in Uploaders, CountRows(r) PROVE CountsInv'
  <2> DEFINE n == Cardinality(Rows(Album[upload[r].file]))
  <2>1. /\ upload'[r].at = "insert" /\ upload[r].at = "count"
        /\ \A s \in Uploaders : s # r => upload'[s] = upload[s]
        /\ \A s \in Uploaders : upload'[s].file = upload[s].file
    BY <1>4, RowsCounted DEF CountRows, MediaInv
  <2>2. upload'[r].position = n
    <3>1. upload[r] # Free
      BY <2>1, AwaitIsBusy DEF Uploading
    <3> DEFINE u == upload[r]
    <3>2. u = [at |-> u.at, file |-> u.file, position |-> u.position]
      BY <3>1, RequestShape
    <3>3. upload'[r] = [u EXCEPT !.at = "insert", !.position = n]
      BY <1>4 DEF CountRows, MediaTypeOK
    <3> HIDE DEF u, n
    <3>4. [u EXCEPT !.at = "insert"] = [at |-> "insert", file |-> u.file, position |-> u.position]
      BY <3>2
    <3>5. [[at |-> "insert", file |-> u.file, position |-> u.position] EXCEPT !.position = n]
            = [at |-> "insert", file |-> u.file, position |-> n]
      OBVIOUS
    <3> QED
      BY <3>3, <3>4, <3>5
  <2> QED
    BY <1>4, <2>1, <2>2, QuietStep DEF CountRows, Uploading
<1>5. ASSUME NEW r \in Uploaders, RemoveFile(r) \/ RemoveFileSwallowed(r) PROVE CountsInv'
  <2>1. /\ upload'[r].at = "deleteRow" /\ \A s \in Uploaders : s # r => upload'[s] = upload[s]
    BY <1>5, MovedOn DEF RemoveFile, RemoveFileSwallowed, Removing
  <2> QED
    BY <1>5, <2>1, QuietStep DEF RemoveFile, RemoveFileSwallowed, Uploading
<1>6. ASSUME NEW r \in Uploaders, Fails(r) PROVE CountsInv'
  <2>1. upload'[r] = Free /\ \A s \in Uploaders : s # r => upload'[s] = upload[s]
    BY <1>6, Ended DEF Fails
  <2> QED
    BY <1>1, <1>6, <2>1, QuietStep DEF Fails
<1>7. CASE UNCHANGED mediaVars
  BY <1>7, QuietStep DEF mediaVars
<1> QED
  BY <1>2, <1>3, <1>4, <1>5, <1>6, <1>7, CountsAdd, CountsInsert, CountsDelete DEF MediaNext

\* A listing keeps to its quota of photos and of videos for any numbers of
\* each, as long as no two uploads to it are in flight at once.
THEOREM QuotaHolds == MediaSpec => []QuotaKept
<1>1. CountsInv => QuotaKept
  BY DEF CountsInv
<1> QED
  BY <1>1, CountsInitially, CountsStep, MediaInvariance, PTL DEF MediaSpec

\* The position an upload counted is its own, as long as nothing was removed
\* from the listing and no two uploads to it were in flight at once.
THEOREM PositionsAreOwn == MediaSpec => []PositionsDistinct
<1>1. CountsInv => PositionsDistinct
  BY DEF CountsInv
<1> QED
  BY <1>1, CountsInitially, CountsStep, MediaInvariance, PTL DEF MediaSpec

=============================================================================
