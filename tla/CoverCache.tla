----------------------------- MODULE CoverCache -----------------------------
(***************************************************************************)
(* Covers, scaled once and kept (covers), beside the cache of converted      *)
(* books they are partly taken from.  A device keeps a picture for ever      *)
(* under its image id, "<book>-<mtime of the cover>", so a new cover has to  *)
(* come under a new id.  One bucket of sizes stands for the three.          *)
(***************************************************************************)
EXTENDS EbookCache

CONSTANT Viewers \* requests for covers

VARIABLES
  cover,   \* cover[b]: the version of the picture beside the book, 0 if there is none
  mtime,   \* source_books.cover_mtime; 0 for an empty cover_rel_path
  shown,   \* the mtime in books.cover_image_id; 0 for a book with no cover
  image,   \* image[i]: the version of the scaled picture in the file of an image id, 0 if none
  pictures,\* cover_cache
  viewer,  \* what every request for a cover is doing
  trimming,\* the janitor: as "removing", of pictures
  behind   \* history: image ids under which an older picture was sent than they name

coverVars == <<cover, mtime, shown, image, pictures, viewer, trimming, behind>>
vars == <<ebookVars, coverVars, changes>>

ImageIds == Books \X (0 .. MaxVersion)
Gone == [at |-> "idle", id |-> <<"none", 0>>, of |-> 0]

(* Books a library holds as EPUB have a cover beside them; of the others it  *)
(* is inside, and they are not Calibre's.                                   *)
Init ==
  /\ EbookInit
  /\ cover = [b \in Books |-> IF b \in Plain THEN 1 ELSE 0]
  /\ mtime = cover /\ shown = cover
  /\ image = [i \in ImageIds |-> 0]
  /\ pictures = {} /\ behind = {}
  /\ viewer = [v \in Viewers |-> Gone]
  /\ trimming = [listed |-> {}, unlinked |-> {}]
  /\ changes = 0

(***************************************************************************)
(* Where covers come from.                                                 *)
(***************************************************************************)
ReplaceCover(b) ==
  /\ Change("cover")
  /\ b \in Plain /\ cover[b] < MaxVersion
  /\ cover' = [cover EXCEPT ![b] = @ + 1]
  /\ UNCHANGED <<ebookVars, mtime, shown, image, pictures, viewer, trimming, behind>>

(* A scan stores the mtime and resolves the book.                           *)
ScanCover(b) ==
  /\ b \in Plain /\ mtime[b] # cover[b]
  /\ mtime' = [mtime EXCEPT ![b] = cover[b]]
  /\ shown' = [shown EXCEPT ![b] = cover[b]]
  /\ UNCHANGED <<ebookVars, cover, image, pictures, viewer, trimming, behind, changes>>

(* OnConverted, after a conversion of the prewarmer's own only: a cover is    *)
(* taken out of the EPUB for a book that has none.  The book is resolved in  *)
(* a transaction of its own; should the process end in between, the next    *)
(* conversion finds a cover and leaves it at that.                           *)
RecoverCover(found) ==
  LET b == actor[Prewarmer].book
      v == Content(Prewarmer)
      recovered == found /\ b \in Convertible /\ mtime[b] = 0 /\ v # 0
  IN  /\ At(Prewarmer, "recover")
      /\ cover' = IF recovered THEN [cover EXCEPT ![b] = v] ELSE cover
      /\ mtime' = IF recovered THEN [mtime EXCEPT ![b] = v] ELSE mtime
      /\ actor' = [actor EXCEPT ![Prewarmer] = IF recovered THEN [@ EXCEPT !.at = "resolve"] ELSE Idle]
      /\ UNCHANGED <<source, copy, rows, kepubs, index, shunned, removing, given,
                     shown, image, pictures, viewer, trimming, behind, changes>>

ResolveRecovered ==
  LET b == actor[Prewarmer].book
  IN  /\ At(Prewarmer, "resolve")
      /\ shown' = [shown EXCEPT ![b] = mtime[b]]
      /\ actor' = [actor EXCEPT ![Prewarmer] = Idle]
      /\ UNCHANGED <<source, copy, rows, kepubs, index, shunned, removing, given,
                     cover, mtime, image, pictures, viewer, trimming, behind, changes>>

(* Anything else that resolves the book: a source shared, a book merged.     *)
ResolveBook(b) ==
  /\ shown[b] # mtime[b] /\ b \in Convertible
  /\ shown' = [shown EXCEPT ![b] = mtime[b]]
  /\ UNCHANGED <<ebookVars, cover, mtime, image, pictures, viewer, trimming, behind, changes>>

(***************************************************************************)
(* A request for a cover.                                                  *)
(***************************************************************************)
ImageIdOfBook(b, m) == <<b, 0>> \* seeded bug: the id is the book's
ImageId(b, m) == <<b, m>>

Moves(v, q) == viewer' = [viewer EXCEPT ![v] = q]

(* A device asks by any id it was ever told.                                *)
HandleCover(v, b, m) ==
  /\ Request
  /\ viewer[v].at = "idle" /\ m <= shown[b]
  /\ Moves(v, [at |-> "get", id |-> <<b, m>>, of |-> 0])
  /\ UNCHANGED <<ebookVars, cover, mtime, shown, image, pictures, trimming, behind>>

FileOf(v) == ImageId(viewer[v].id[1], viewer[v].id[2])

(* Cache.Get, of what coverSourcePath finds; else a placeholder is sent.     *)
Get(v) ==
  LET q == viewer[v]
  IN  /\ q.at = "get"
      /\ Moves(v, IF image[FileOf(v)] # 0 THEN [q EXCEPT !.at = "serve"]
                  ELSE IF shown[q.id[1]] # 0 THEN [q EXCEPT !.at = "render"] ELSE Gone)
      /\ UNCHANGED <<ebookVars, cover, mtime, shown, image, pictures, trimming, behind, changes>>

(* The picture is read as it is now, whatever the id says.                  *)
Render(v) ==
  /\ viewer[v].at = "render"
  /\ Moves(v, [viewer[v] EXCEPT !.at = "rename", !.of = cover[viewer[v].id[1]]])
  /\ UNCHANGED <<ebookVars, cover, mtime, shown, image, pictures, trimming, behind, changes>>

RenderFails(v) ==
  /\ viewer[v].at = "render" /\ Change("fail")
  /\ Moves(v, Gone)
  /\ UNCHANGED <<ebookVars, cover, mtime, shown, image, pictures, trimming, behind>>

Rename(v) ==
  /\ viewer[v].at = "rename"
  /\ image' = [image EXCEPT ![FileOf(v)] = viewer[v].of]
  /\ Moves(v, [viewer[v] EXCEPT !.at = "record"])
  /\ UNCHANGED <<ebookVars, cover, mtime, shown, pictures, trimming, behind, changes>>

(* A file evicted since gets no row.                                        *)
RecordPicture(v) ==
  /\ viewer[v].at = "record"
  /\ pictures' = IF image[FileOf(v)] # 0 THEN pictures \cup {FileOf(v)} ELSE pictures
  /\ Moves(v, [viewer[v] EXCEPT !.at = "serve"])
  /\ UNCHANGED <<ebookVars, cover, mtime, shown, image, trimming, behind, changes>>

Serve(v) ==
  LET id == viewer[v].id
      sent == image[FileOf(v)] \* not found, if it is 0
  IN  /\ viewer[v].at = "serve"
      /\ behind' = IF sent # 0 /\ sent < id[2] THEN behind \cup {id} ELSE behind
      /\ Moves(v, Gone)
      /\ UNCHANGED <<ebookVars, cover, mtime, shown, image, pictures, trimming, changes>>

(***************************************************************************)
(* The janitor.                                                            *)
(***************************************************************************)
EvictPictures(over) ==
  /\ Change("evict")
  /\ trimming.listed = {} /\ over # {} /\ over \subseteq pictures
  /\ Cardinality(pictures \ over) = Least(Budget, Cardinality(pictures))
  /\ trimming' = [listed |-> over, unlinked |-> {}]
  /\ UNCHANGED <<ebookVars, cover, mtime, shown, image, pictures, viewer, behind>>

UnlinkPicture(i) ==
  /\ i \in trimming.listed \ trimming.unlinked
  /\ image' = [image EXCEPT ![i] = 0]
  /\ trimming' = [trimming EXCEPT !.unlinked = @ \cup {i}]
  /\ UNCHANGED <<ebookVars, cover, mtime, shown, pictures, viewer, behind, changes>>

DeletePictureRow(i) ==
  /\ i \in trimming.unlinked
  /\ pictures' = pictures \ {i}
  /\ trimming' = [listed |-> trimming.listed \ {i}, unlinked |-> trimming.unlinked \ {i}]
  /\ UNCHANGED <<ebookVars, cover, mtime, shown, image, viewer, behind, changes>>

Crash ==
  /\ Change("crash")
  /\ EbookCrash
  /\ viewer' = [v \in Viewers |-> Gone]
  /\ trimming' = [listed |-> {}, unlinked |-> {}]
  /\ UNCHANGED <<cover, mtime, shown, image, pictures, behind>>

Next ==
  \/ EbookNext /\ UNCHANGED coverVars
  \/ \E b \in Books : ReplaceCover(b) \/ ScanCover(b) \/ ResolveBook(b)
  \/ (\E found \in BOOLEAN : RecoverCover(found)) \/ ResolveRecovered
  \/ \E v \in Viewers : \/ \E b \in Books, m \in 0 .. MaxVersion : HandleCover(v, b, m)
                         \/ Get(v) \/ Render(v) \/ RenderFails(v) \/ Rename(v) \/ RecordPicture(v) \/ Serve(v)
  \/ \E over \in SUBSET pictures : EvictPictures(over)
  \/ \E i \in ImageIds : UnlinkPicture(i) \/ DeletePictureRow(i)
  \/ Crash

Spec == Init /\ [][Next]_vars

-----------------------------------------------------------------------------
(* A device keeps a picture for as long as its image id stays, so a picture  *)
(* sent under an id is never older than the cover the id names (merge.go:    *)
(* 215-220, kobo/covers.go:50-51): not one rendered before the cover was     *)
(* replaced, not one a slower request puts in place late.  It may be newer.  *)
CoverIsAsNewAsItsId == behind = {}
=============================================================================
