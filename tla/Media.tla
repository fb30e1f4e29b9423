-------------------------------- MODULE Media --------------------------------
(***************************************************************************)
(* The photos and videos of a listing (src/src/media): a row of            *)
(* listing_media and a file in the object store, written and removed one   *)
(* after the other without a transaction over the two.                     *)
(*                                                                         *)
(* An upload counts the rows of its kind, stores the file under a new key, *)
(* counts the rows again for the position and inserts the row; a removal   *)
(* removes the file, then the row.  Requests interleave at every await and *)
(* may fail at each.                                                       *)
(***************************************************************************)
EXTENDS Naturals, FiniteSets

CONSTANTS
    Albums,     \* listings that have media
    Files,      \* storage keys; an upload draws a new one
    Album,      \* Album[f]: the listing file f is uploaded to
    Kind,       \* Kind[f]: "photo" or "video"
    MaxOf,      \* MaxOf[k]: files of kind k a listing may have
    Uploaders,  \* concurrent HTTP requests
    NoFile      \* not a key

ASSUME MediaAssumption ==
    /\ IsFiniteSet(Files)
    /\ Album \in [Files -> Albums]
    /\ Kind \in [Files -> DOMAIN MaxOf]
    /\ MaxOf \in [DOMAIN MaxOf -> Nat]
    /\ NoFile \notin Files

VARIABLES
    stored,     \* keys present in the object store
    position,   \* ListingMedia.position of the row of a key, NoRow when there is none
    upload,     \* what each request is doing: the await it is about to perform, its file,
                \* the position it has counted
    failed,     \* <<f, phase>>: an upload or a removal of file f failed half way (history)
    crowded,    \* listings to which two uploads were in flight at once (history)
    thinned     \* listings that have lost a row (history)

mediaVars == <<stored, position, upload, failed, crowded, thinned>>

NoRow == Cardinality(Files)  \* positions are counts: below it
Free == [at |-> "idle", file |-> NoFile, position |-> 0]
Uploading == {"upload", "count", "insert"}
Removing == {"removeFile", "deleteRow"}
Phase(r) == IF upload[r].at \in Uploading THEN "upload" ELSE "removal"

Rows(l) == {f \in Files : position[f] # NoRow /\ Album[f] = l}

MediaInit ==
    /\ stored = {}
    /\ position = [f \in Files |-> NoRow]
    /\ upload = [r \in Uploaders |-> Free]
    /\ failed = {}
    /\ crowded = {}
    /\ thinned = {}

-----------------------------------------------------------------------------
\* Mutation of BelowQuota: the quota is passed by one.
BelowQuotaOrAtIt(f) == Cardinality({g \in Rows(Album[f]) : Kind[g] = Kind[f]}) <= MaxOf[Kind[f]]

\* assertQuota.
BelowQuota(f) == Cardinality({g \in Rows(Album[f]) : Kind[g] = Kind[f]}) < MaxOf[Kind[f]]

\* POST /listings/:id/media by the seller, up to assertQuota.
AddToListing(r, f) ==
    /\ upload[r] = Free
    /\ position[f] = NoRow /\ f \notin stored
    /\ \A s \in Uploaders : upload[s].file # f
    /\ <<f, "upload">> \notin failed /\ <<f, "removal">> \notin failed
    /\ BelowQuota(f)
    /\ upload' = [upload EXCEPT ![r] = [Free EXCEPT !.at = "upload", !.file = f]]
    /\ crowded' = IF \E s \in Uploaders : /\ upload[s].at \in Uploading
                                          /\ Album[upload[s].file] = Album[f]
                  THEN crowded \cup {Album[f]} ELSE crowded
    /\ UNCHANGED <<stored, position, failed, thinned>>

GoOn(r, s, t) ==
    /\ upload[r].at = s
    /\ upload' = [upload EXCEPT ![r].at = t]

Done(r, s) ==
    /\ upload[r].at = s
    /\ upload' = [upload EXCEPT ![r] = Free]

\* Mutation of StoreFile: the upload is not awaited, and is lost.
StoreFileUnawaited(r) ==
    /\ GoOn(r, "upload", "count")
    /\ UNCHANGED <<stored, position, failed, crowded, thinned>>

StoreFile(r) ==
    /\ GoOn(r, "upload", "count")
    /\ stored' = stored \cup {upload[r].file}
    /\ UNCHANGED <<position, failed, crowded, thinned>>

\* Mutation of CountRows: the position of a photo counts the photos alone.
CountRowsOfKind(r) ==
    /\ upload[r].at = "count"
    /\ LET f == upload[r].file IN
       upload' = [upload EXCEPT ![r].at = "insert",
                     ![r].position = Cardinality({g \in Rows(Album[f]) : Kind[g] = Kind[f]})]
    /\ UNCHANGED <<stored, position, failed, crowded, thinned>>

CountRows(r) ==
    /\ upload[r].at = "count"
    /\ upload' = [upload EXCEPT ![r].at = "insert",
                                ![r].position = Cardinality(Rows(Album[upload[r].file]))]
    /\ UNCHANGED <<stored, position, failed, crowded, thinned>>

InsertRow(r) ==
    /\ Done(r, "insert")
    /\ position' = [position EXCEPT ![upload[r].file] = upload[r].position]
    /\ UNCHANGED <<stored, failed, crowded, thinned>>

\* DELETE /listings/:id/media/:mediaId by the seller: the row is read.
RemoveMedium(r, f) ==
    /\ upload[r] = Free
    /\ position[f] # NoRow
    /\ upload' = [upload EXCEPT ![r] = [Free EXCEPT !.at = "removeFile", !.file = f]]
    /\ UNCHANGED <<stored, position, failed, crowded, thinned>>

\* Mutation of RemoveFile: the row goes first, and nothing remembers the key.
RemoveRowFirst(r) ==
    /\ GoOn(r, "removeFile", "deleteRow")
    /\ position' = [position EXCEPT ![upload[r].file] = NoRow]
    /\ UNCHANGED <<stored, failed, crowded, thinned>>

\* Both drivers accept a key that is already gone.
RemoveFile(r) ==
    /\ GoOn(r, "removeFile", "deleteRow")
    /\ stored' = stored \ {upload[r].file}
    /\ UNCHANGED <<position, failed, crowded, thinned>>

\* The S3 driver logs a failed deletion and lets the request go on.
RemoveFileSwallowed(r) ==
    /\ GoOn(r, "removeFile", "deleteRow")
    /\ failed' = failed \cup {<<upload[r].file, "removal">>}
    /\ UNCHANGED <<stored, position, crowded, thinned>>

\* The row may be gone: of two removals of one medium, the second answers 500.
DeleteRow(r) ==
    /\ Done(r, "deleteRow")
    /\ position' = [position EXCEPT ![upload[r].file] = NoRow]
    /\ thinned' = thinned \cup {Album[upload[r].file]}
    /\ UNCHANGED <<stored, failed, crowded>>

\* The await throws, or the process stops: the store may have taken the file.
Fails(r) ==
    /\ upload[r] # Free
    /\ upload' = [upload EXCEPT ![r] = Free]
    /\ failed' = failed \cup {<<upload[r].file, Phase(r)>>}
    /\ \/ stored' = stored
       \/ upload[r].at = "upload" /\ stored' = stored \cup {upload[r].file}
       \/ upload[r].at = "removeFile" /\ stored' = stored \ {upload[r].file}
    /\ UNCHANGED <<position, crowded, thinned>>

MediaNext ==
    \E r \in Uploaders :
       \/ \E f \in Files : AddToListing(r, f) \/ RemoveMedium(r, f)
       \/ StoreFile(r) \/ CountRows(r) \/ InsertRow(r)
       \/ RemoveFile(r) \/ RemoveFileSwallowed(r) \/ DeleteRow(r)
       \/ Fails(r)

MediaSpec == MediaInit /\ [][MediaNext]_mediaVars

-----------------------------------------------------------------------------
(* Properties.                                                             *)

MediaTypeOK ==
    /\ stored \subseteq Files
    /\ position \in [Files -> 0 .. NoRow]
    /\ upload \in [Uploaders -> {Free} \cup [at : Uploading \cup Removing, file : Files,
                                             position : 0 .. NoRow - 1]]
    /\ failed \subseteq Files \X {"upload", "removal"}
    /\ crowded \subseteq Albums /\ thinned \subseteq Albums

\* A medium of a listing has its file, except while a removal is between its
\* two steps or after one that failed there: whatever fails of an upload, the
\* listing never shows a broken picture.
RowHasFile ==
    \A f \in Files : position[f] # NoRow =>
       \/ f \in stored
       \/ \E r \in Uploaders : upload[r].file = f /\ upload[r].at \in Removing
       \/ <<f, "removal">> \in failed

\* A file in the store belongs to a medium or to an upload under way: it is
\* left behind only by an upload that failed or a deletion the driver
\* swallowed, never by two requests crossing.
NoOrphanFile ==
    \A f \in stored :
       \/ position[f] # NoRow
       \/ \E r \in Uploaders : upload[r].file = f /\ upload[r].at \in Uploading
       \/ <<f, "upload">> \in failed \/ <<f, "removal">> \in failed

\* A listing keeps to its number of photos and of videos, unless two uploads
\* to it were in flight at once.
QuotaKept ==
    \A l \in Albums \ crowded : \A k \in DOMAIN MaxOf :
       Cardinality({f \in Rows(l) : Kind[f] = k}) <= MaxOf[k]

\* Media that are only ever added one at a time keep the order of their
\* uploads; a removal, or a second upload in flight, can give one position
\* to two of them.
PositionsDistinct ==
    \A l \in Albums \ (crowded \cup thinned) : \A f, g \in Rows(l) :
       position[f] = position[g] => f = g

=============================================================================
