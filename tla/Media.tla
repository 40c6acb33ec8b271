------------------------------- MODULE Media -------------------------------
(***************************************************************************)
(* AttachmentService: a photograph is put into the object store under a    *)
(* key made of its owner and its bytes, outside any transaction, and then  *)
(* gets a row.  The row of an owner and key is unique, deleted or not.     *)
(* Holders are never removed, so that one found at the start is there.      *)
(***************************************************************************)
EXTENDS Naturals, Sequences, FiniteSets

CONSTANTS
  Holders,       \* parts, machines, work orders and notes
  Contents,     \* what the files hold
  Uploads,      \* calls of add_attachment that may be under way at once
  MaxPhotos,    \* bound: rows
  MaxStops      \* bound: uploads that end half way

ASSUME MediaAssumption == Holders # {} /\ Contents # {} /\ MaxPhotos \in Nat

VARIABLES
  photo,     \* the rows of attachment, in the order of their ids
  objects,   \* the keys in the object store
  upload,    \* the calls
  removed,   \* ghost: the rows that were ever deleted
  stops

mediaVars == <<photo, objects, upload, removed, stops>>

Keys == Holders \X Contents   \* make_r2_key

NoUpload == [pc |-> "idle", key |-> CHOOSE k \in Keys : TRUE, row |-> 0]

UploadState ==
  [pc : {"idle", "put", "insert", "created", "existing"}, key : Keys, row : 0..MaxPhotos]

\* Faulty variant: the index holds among the rows that are shown.
RowShown(key) == {n \in DOMAIN photo : photo[n].key = key /\ ~photo[n].deleted}

\* uq_attachment_owner_key: the row of the key, deleted or not.
RowOf(key) == {n \in DOMAIN photo : photo[n].key = key}

\* Faulty variant: the row is written before the object is there.
BeginInserting(u, key) ==
  /\ upload[u].pc \in {"idle", "created", "existing"}
  /\ upload' = [upload EXCEPT ![u] =
       IF RowOf(key) # {} THEN [pc |-> "existing", key |-> key, row |-> CHOOSE n \in RowOf(key) : TRUE]
       ELSE [pc |-> "insert", key |-> key, row |-> 0]]
  /\ UNCHANGED <<photo, objects, removed, stops>>

\* A row that is there is the answer: nothing is uploaded, nothing is written.
BeginUpload(u, key) ==
  /\ upload[u].pc \in {"idle", "created", "existing"}
  /\ upload' = [upload EXCEPT ![u] =
       IF RowOf(key) # {} THEN [pc |-> "existing", key |-> key, row |-> CHOOSE n \in RowOf(key) : TRUE]
       ELSE [pc |-> "put", key |-> key, row |-> 0]]
  /\ UNCHANGED <<photo, objects, removed, stops>>

PutObject(u) ==
  /\ upload[u].pc = "put"
  /\ objects' = objects \cup {upload[u].key}
  /\ upload' = [upload EXCEPT ![u].pc = "insert"]
  /\ UNCHANGED <<photo, removed, stops>>

\* ON CONFLICT DO NOTHING, then the row that won.
InsertPhoto(u) ==
  LET key == upload[u].key
  IN  /\ upload[u].pc = "insert"
      /\ IF RowOf(key) = {}
         THEN /\ Len(photo) < MaxPhotos
              /\ photo' = Append(photo, [key |-> key, deleted |-> FALSE])
              /\ upload' = [upload EXCEPT ![u].pc = "created", ![u].row = Len(photo) + 1]
         ELSE /\ upload' = [upload EXCEPT ![u].pc = "existing", ![u].row = CHOOSE n \in RowOf(key) : TRUE]
              /\ UNCHANGED photo
      /\ UNCHANGED <<objects, removed, stops>>

\* The store refuses, or the process ends: what was put stays.
StopUpload(u) ==
  /\ upload[u].pc \in {"put", "insert"} /\ stops < MaxStops
  /\ upload' = [upload EXCEPT ![u] = NoUpload]
  /\ stops' = stops + 1
  /\ UNCHANGED <<photo, objects, removed>>

SoftDelete(n) ==
  /\ n \in DOMAIN photo
  /\ photo' = [photo EXCEPT ![n].deleted = TRUE]
  /\ removed' = removed \cup {n}
  /\ UNCHANGED <<objects, upload, stops>>

Restore(n) ==
  /\ n \in DOMAIN photo
  /\ photo' = [photo EXCEPT ![n].deleted = FALSE]
  /\ UNCHANGED <<objects, upload, removed, stops>>

MediaInit ==
  /\ photo = <<>> /\ objects = {}
  /\ upload = [u \in Uploads |-> NoUpload]
  /\ removed = {} /\ stops = 0

MediaNext ==
  \/ \E u \in Uploads : \/ \E key \in Keys : BeginUpload(u, key)
                        \/ PutObject(u) \/ InsertPhoto(u) \/ StopUpload(u)
  \/ \E n \in DOMAIN photo : SoftDelete(n) \/ Restore(n)

MediaSpec == MediaInit /\ [][MediaNext]_mediaVars

-----------------------------------------------------------------------------
MediaTypeOK ==
  /\ photo \in Seq([key : Keys, deleted : BOOLEAN])
  /\ objects \subseteq Keys
  /\ upload \in [Uploads -> UploadState]
  /\ removed \subseteq DOMAIN photo

\* Every row leads to an object, that of a deleted photograph too, whatever was cut short: a
\* page never links to nothing, and a restore needs no upload.
PhotosAreStored == \A n \in DOMAIN photo : photo[n].key \in objects

\* However uploads of one file overlap, one of them made the row and all are answered with
\* it; it is listed, unless somebody deleted it.
UploadsAreListed ==
  /\ \A m, n \in DOMAIN photo : photo[m].key = photo[n].key => m = n
  /\ \A u \in Uploads :
       upload[u].pc \in {"created", "existing"} =>
         /\ upload[u].row \in DOMAIN photo /\ photo[upload[u].row].key = upload[u].key
         /\ photo[upload[u].row].deleted => upload[u].row \in removed
  /\ \A u, v \in Uploads :
       upload[u].pc = "created" /\ upload[v].pc = "created" /\ upload[u].key = upload[v].key => u = v

MediaIsSound == MediaTypeOK /\ PhotosAreStored /\ UploadsAreListed

=============================================================================
