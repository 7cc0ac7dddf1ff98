------------------------------- MODULE Assets -------------------------------
(***************************************************************************)
(* Uploading images (internal/transport/httpapi/assets.go over             *)
(* core/blob/disk.go and sqlstore/assets.go).  An upload is a sequence of  *)
(* separate reads and writes to the database and to the disk: uploads      *)
(* overlap, each step may fail, and the process may die between two.       *)
(***************************************************************************)
EXTENDS Naturals, FiniteSets

CONSTANTS
    World,       \* worlds
    Content,     \* normalized images: the SHA-256 of the re-encoded bytes
    Uploader,    \* uploads in flight at the same time
    ImageBytes,  \* size of an image
    ThumbBytes,  \* size of its thumbnail
    WorldQuota   \* TAVORA_WORLD_QUOTA_BYTES, 0 for no limit

ASSUME AssetsAssumption ==
    /\ ImageBytes \in Nat /\ ThumbBytes \in Nat /\ WorldQuota \in Nat
    /\ IsFiniteSet(Content) /\ IsFiniteSet(Uploader) /\ Uploader # {}

VARIABLES
    blobs,   \* files on disk: a content and which variant of it
    rows,    \* rows[w][c]: how many rows of assets world w has for content c
    upload   \* what each upload is doing

assetsVars == <<blobs, rows, upload>>

NoUpload == [pc |-> "idle"]
Step == {"lookup", "quota", "image", "thumbnail", "row"}

AssetsInit ==
    /\ blobs = {}
    /\ rows = [w \in World |-> [c \in Content |-> 0]]
    /\ upload = [r \in Uploader |-> NoUpload]

At(r, pc) == upload[r].pc = pc
Goto(r, pc) == upload' = [upload EXCEPT ![r].pc = pc]
Return(r) == upload' = [upload EXCEPT ![r] = NoUpload]
-----------------------------------------------------------------------------
(* uploadAsset: the member may upload, and Normalize accepted the image.   *)
Upload(r, w, c) ==
    /\ At(r, "idle")
    /\ upload' = [upload EXCEPT ![r] = [pc |-> "lookup", world |-> w, content |-> c]]
    /\ UNCHANGED <<blobs, rows>>

(* storeAsset, GetAssetBySHA256: an asset the world has is given back.     *)
LookUp(r) ==
    /\ At(r, "lookup")
    /\ IF rows[upload[r].world][upload[r].content] > 0 THEN Return(r) ELSE Goto(r, "quota")
    /\ UNCHANGED <<blobs, rows>>

(* SumAssetBytes: the column holds the image's bytes, not the thumbnail's. *)
SumAssetBytes(w) ==
    ImageBytes * Cardinality({c \in Content : rows[w][c] > 0})

(* Wrong: asks only whether the world is full already.                     *)
NotYetFull(w) == WorldQuota = 0 \/ SumAssetBytes(w) <= WorldQuota

WithinQuota(w) ==
    WorldQuota = 0 \/ SumAssetBytes(w) + ImageBytes + ThumbBytes <= WorldQuota

CheckQuota(r) ==
    /\ At(r, "quota")
    /\ IF WithinQuota(upload[r].world) THEN Goto(r, "image") ELSE Return(r)
    /\ UNCHANGED <<blobs, rows>>

(* Blobs.Put: a temporary file, synced, then renamed over the key, so the  *)
(* key has the whole content or nothing.                                   *)
PutImage(r) ==
    /\ At(r, "image")
    /\ blobs' = blobs \cup {<<upload[r].content, "image">>}
    /\ Goto(r, "thumbnail")
    /\ UNCHANGED rows

(* Wrong: goes on without the thumbnail.                                   *)
SkipThumbnail(r) ==
    /\ At(r, "thumbnail")
    /\ Goto(r, "row")
    /\ UNCHANGED <<blobs, rows>>

PutThumbnail(r) ==
    /\ At(r, "thumbnail")
    /\ blobs' = blobs \cup {<<upload[r].content, "thumbnail">>}
    /\ Goto(r, "row")
    /\ UNCHANGED rows

(* PutAsset: a row for the same content that was committed meanwhile is a  *)
(* unique violation.                                                       *)
PutAsset(r) ==
    /\ At(r, "row")
    /\ rows' = [rows EXCEPT ![upload[r].world][upload[r].content] = IF @ > 0 THEN @ ELSE 1]
    /\ Return(r)
    /\ UNCHANGED blobs

(* A step returns an error, or the client has gone away.                   *)
Fail(r) ==
    /\ ~At(r, "idle")
    /\ Return(r)
    /\ UNCHANGED <<blobs, rows>>

(* The process dies; the disk and the database stay.                       *)
Crash ==
    /\ upload' = [r \in Uploader |-> NoUpload]
    /\ UNCHANGED <<blobs, rows>>

AssetsNext ==
    \/ \E r \in Uploader, w \in World, c \in Content : Upload(r, w, c)
    \/ \E r \in Uploader :
          \/ LookUp(r) \/ CheckQuota(r) \/ PutImage(r) \/ PutThumbnail(r)
          \/ PutAsset(r) \/ Fail(r)
    \/ Crash

AssetsSpec == AssetsInit /\ [][AssetsNext]_assetsVars
-----------------------------------------------------------------------------
AssetsTypeOK ==
    /\ blobs \subseteq Content \X {"image", "thumbnail"}
    /\ rows \in [World -> [Content -> Nat]]
    /\ upload \in [Uploader -> {NoUpload} \cup [pc : Step, world : World, content : Content]]

(* "a row without a blob would be a broken image" (assets.go:171): every   *)
(* asset the database lists has its image and its thumbnail on disk,       *)
(* whatever failed or crashed on the way.                                  *)
RowHasBlobs ==
    \A w \in World, c \in Content :
        rows[w][c] > 0 => {<<c, "image">>, <<c, "thumbnail">>} \subseteq blobs

(* "the same map uploaded twice is stored once" (README.md:291), also when *)
(* the two uploads overlap.                                                *)
StoredOnce == \A w \in World, c \in Content : rows[w][c] <= 1

(* The quota is read before the upload it admits is stored (withinQuota    *)
(* runs outside PutAsset's transaction), so overlapping uploads may pass   *)
(* it, but by no more than the images of the uploads the last one overlaps. *)
OvershootBounded ==
    WorldQuota > 0 => \A w \in World :
        SumAssetBytes(w) <= WorldQuota + ImageBytes * (Cardinality(Uploader) - 1)
=============================================================================
