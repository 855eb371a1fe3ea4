-------------------------- MODULE ImageCacheProofs --------------------------
(***************************************************************************)
(* Theorems about module ImageCache, for any number of runs, forced or     *)
(* not, and whatever the server may send.                                  *)
(***************************************************************************)
EXTENDS ImageCache, TLAPS

USE RunsAssumption, ImageAssumption

(* A file that a run writes is a file.                                      *)
LEMMA FileTyping ==
  ASSUME NEW r \in Runs \union {Before}, NEW content \in Content
  PROVE  /\ File(r, content) \in Files
         /\ File(r, content) # NoFile
         /\ File(r, content).by = r
         /\ File(r, content).content = content
BY DEF File, Files

(* A last write leaves a file whose it was, and what begins as an image     *)
(* does becomes a whole one.                                                *)
LEMMA CompletedFile ==
  ASSUME NEW r \in Runs, NEW file \in Files \union {NoFile}
  PROVE  /\ Completed(file, r) \in Files \union {NoFile}
         /\ Completed(file, r) = NoFile <=> file = NoFile
         /\ file # NoFile => Completed(file, r).by = file.by
         /\ Completed(file, r) # file => Completed(file, r).content \in {"whole", "junk"}
         /\ file # NoFile /\ HasMagic(file) => HasMagic(Completed(file, r))
<1>1. CASE file # NoFile /\ file.by = r /\ file.content \in DOMAIN Landed
  <2>1. Landed[file.content] \in Content /\ Landed[file.content] \in {"whole", "junk"}
    BY <1>1 DEF Landed, Content, Body
  <2>2. HasMagic(file) => Landed[file.content] = "whole"
    BY <1>1 DEF Landed, HasMagic
  <2>3. Completed(file, r) = File(r, Landed[file.content])
    BY <1>1 DEF Completed
  <2> QED
    BY <1>1, <2>1, <2>2, <2>3, FileTyping DEF HasMagic
<1>2. CASE ~(file # NoFile /\ file.by = r /\ file.content \in DOMAIN Landed)
  BY <1>2 DEF Completed
<1> QED
  BY <1>1, <1>2

LEMMA InitImageInv == ImageInit => ImageInv
<1> SUFFICES ASSUME ImageInit PROVE ImageInv
  OBVIOUS
<1>1. /\ image \in Files \union {NoFile}
      /\ image # NoFile => image.by = Before
  BY FileTyping DEF ImageInit, Content
<1>2. ImageTypeOK
  BY <1>1 DEF ImageInit, ImageTypeOK, Stage
<1>3. PartInv /\ OriginInv /\ CutImageHasCause
  BY <1>1 DEF ImageInit, PartInv, OriginInv, Precedes, CutImageHasCause, HasCause
<1>4. MagicInv
  BY DEF ImageInit, MagicInv, Complete
<1> QED
  BY <1>2, <1>3, <1>4 DEF ImageInv

LEMMA NextType == ImageTypeOK /\ [ImageNext]_imageVars => ImageTypeOK'
<1> SUFFICES ASSUME ImageTypeOK, [ImageNext]_imageVars PROVE ImageTypeOK'
  OBVIOUS
<1> USE DEF ImageTypeOK, fileVars, runVars, Fetch, SetPart, Stage
<1>1. ASSUME NEW r \in Runs, Look(r) PROVE ImageTypeOK'
  BY <1>1 DEF Look
<1>2. ASSUME NEW r \in Runs, ReadCached(r) PROVE ImageTypeOK'
  BY <1>2 DEF ReadCached
<1>3. ASSUME NEW r \in Runs, OpenDest(r) PROVE ImageTypeOK'
  BY <1>3 DEF OpenDest
<1>4. ASSUME NEW r \in Runs, ReadDest(r) PROVE ImageTypeOK'
  BY <1>4 DEF ReadDest
<1>5. ASSUME NEW r \in Runs, Discard(r) PROVE ImageTypeOK'
  BY <1>5 DEF Discard
<1>6. ASSUME NEW r \in Runs, Request(r) PROVE ImageTypeOK'
  BY <1>6, FileTyping, SMTT(30) DEF Request, Content, Body
<1>7. ASSUME NEW r \in Runs, StreamBreaks(r) PROVE ImageTypeOK'
  BY <1>7, FileTyping DEF StreamBreaks, Content, Body
<1>8. ASSUME NEW r \in Runs, StreamEnds(r) PROVE ImageTypeOK'
  <2>1. ASSUME NEW content \in Contents, Received(r, content) PROVE ImageTypeOK'
    <3>1. PICK written \in Content :
            /\ part' = [part EXCEPT ![r] = File(r, written)]
            /\ tainted' = (tainted \/ ~HasMagic(File(r, written)))
      BY <2>1 DEF Received, Content, Landed
    <3>2. tainted' \in BOOLEAN /\ part' \in [Runs -> Files \union {NoFile}]
      BY <3>1, FileTyping
    <3> QED
      BY <2>1, <3>1, <3>2, FileTyping DEF Received
  <2> QED
    BY <1>8, <2>1 DEF StreamEnds
<1>9. ASSUME NEW r \in Runs, Finalize(r) PROVE ImageTypeOK'
  BY <1>9 DEF Finalize
<1>10. ASSUME NEW r \in Runs, Rename(r) PROVE ImageTypeOK'
  BY <1>10 DEF Rename
<1>11. ASSUME NEW r \in Runs, Settle(r) PROVE ImageTypeOK'
  BY <1>11 DEF Settle
<1>12. ASSUME NEW r \in Runs, Reject(r) PROVE ImageTypeOK'
  BY <1>12 DEF Reject
<1>13. ASSUME NEW r \in Runs, CopyDisk(r) PROVE ImageTypeOK'
  <2>1. overlay' \in [Runs -> BOOLEAN]
    BY <1>13, Zenon DEF CopyDisk
  <2> QED
    BY <1>13, <2>1 DEF CopyDisk
<1>14. ASSUME NEW r \in Runs, Boot(r) PROVE ImageTypeOK'
  BY <1>14 DEF Boot
<1>15. ASSUME NEW r \in Runs, KillFetch(r) PROVE ImageTypeOK'
  BY <1>15 DEF KillFetch
<1>16. ASSUME NEW r \in Runs, LastWriteLands(r) PROVE ImageTypeOK'
  BY <1>16, CompletedFile DEF LastWriteLands
<1>17. CASE UNCHANGED imageVars
  BY <1>17 DEF imageVars
<1> QED
  BY <1>1, <1>2, <1>3, <1>4, <1>5, <1>6, <1>7, <1>8, <1>9, <1>10, <1>11, <1>12, <1>13,
     <1>14, <1>15, <1>16, <1>17 DEF ImageNext, FetchStep

LEMMA NextPartInv == ImageTypeOK /\ PartInv /\ [ImageNext]_imageVars => PartInv'
<1> SUFFICES ASSUME ImageTypeOK, PartInv, [ImageNext]_imageVars PROVE PartInv'
  OBVIOUS
<1> USE DEF ImageTypeOK, PartInv, Complete, fileVars, runVars, Fetch, SetPart
<1>1. ASSUME NEW r \in Runs, Look(r) \/ ReadCached(r) \/ OpenDest(r) PROVE PartInv'
  BY <1>1 DEF Look, ReadCached, OpenDest
<1>2. ASSUME NEW r \in Runs, ReadDest(r) \/ Discard(r) PROVE PartInv'
  BY <1>2 DEF ReadDest, Discard
<1>3. ASSUME NEW r \in Runs, Request(r) PROVE PartInv'
  BY <1>3, FileTyping DEF Request, Content, Body
<1>4. ASSUME NEW r \in Runs, StreamBreaks(r) PROVE PartInv'
  BY <1>4, FileTyping DEF StreamBreaks, Content, Body
<1>5. ASSUME NEW r \in Runs, StreamEnds(r) PROVE PartInv'
  <2>1. ASSUME NEW content \in Contents, content = "cut" => ~sized[r], Received(r, content)
        PROVE  PartInv'
    <3>1. PICK written \in Content :
            /\ part' = [part EXCEPT ![r] = File(r, written)]
            /\ written = "cut" => content = "cut"
      BY <2>1 DEF Received, Content, Landed
    <3> QED
      BY <2>1, <3>1, FileTyping DEF Received
  <2> QED
    BY <1>5, <2>1 DEF StreamEnds
<1>6. ASSUME NEW r \in Runs, Finalize(r) PROVE PartInv'
  BY <1>6 DEF Finalize
<1>7. ASSUME NEW r \in Runs, Rename(r) PROVE PartInv'
  BY <1>7 DEF Rename
<1>8. ASSUME NEW r \in Runs, Settle(r) \/ Reject(r) PROVE PartInv'
  BY <1>8 DEF Settle, Reject
<1>9. ASSUME NEW r \in Runs, CopyDisk(r) \/ Boot(r) PROVE PartInv'
  BY <1>9 DEF CopyDisk, Boot
<1>10. ASSUME NEW r \in Runs, KillFetch(r) PROVE PartInv'
  BY <1>10 DEF KillFetch, Over
<1>11. ASSUME NEW r \in Runs, LastWriteLands(r) PROVE PartInv'
  BY <1>11, CompletedFile DEF LastWriteLands
<1>12. CASE UNCHANGED imageVars
  BY <1>12 DEF imageVars
<1> QED
  BY <1>1, <1>2, <1>3, <1>4, <1>5, <1>6, <1>7, <1>8, <1>9, <1>10, <1>11, <1>12
     DEF ImageNext, FetchStep

(* Files come to the cache and under disks only from a run that has an      *)
(* answer, or from the cache.                                               *)
LEMMA NextOriginInv ==
  ImageTypeOK /\ PartInv /\ OriginInv /\ [ImageNext]_imageVars => OriginInv'
<1> SUFFICES ASSUME ImageTypeOK, PartInv, OriginInv, [ImageNext]_imageVars PROVE OriginInv'
  OBVIOUS
<1> USE DEF ImageTypeOK, OriginInv, Precedes, Unanswered, fileVars, runVars,
            Fetch, SetPart
<1>1. ASSUME NEW r \in Runs, Look(r) \/ ReadCached(r) \/ OpenDest(r) PROVE OriginInv'
  BY <1>1 DEF Look, ReadCached, OpenDest
<1>2. ASSUME NEW r \in Runs, ReadDest(r) \/ Discard(r) PROVE OriginInv'
  BY <1>2 DEF ReadDest, Discard
<1>3. ASSUME NEW r \in Runs, Request(r) \/ StreamBreaks(r) PROVE OriginInv'
  BY <1>3 DEF Request, StreamBreaks
<1>4. ASSUME NEW r \in Runs, StreamEnds(r) PROVE OriginInv'
  BY <1>4 DEF StreamEnds, Received
<1>5. ASSUME NEW r \in Runs, Finalize(r) PROVE OriginInv'
  BY <1>5 DEF Finalize
<1>6. ASSUME NEW r \in Runs, Rename(r) PROVE OriginInv'
  BY <1>6 DEF Rename, PartInv
<1>7. ASSUME NEW r \in Runs, Settle(r) \/ Reject(r) PROVE OriginInv'
  BY <1>7 DEF Settle, Reject
<1>8. ASSUME NEW r \in Runs, CopyDisk(r) PROVE OriginInv'
  BY <1>8 DEF CopyDisk
<1>9. ASSUME NEW r \in Runs, Boot(r) PROVE OriginInv'
  BY <1>9 DEF Boot
<1>10. ASSUME NEW r \in Runs, KillFetch(r) PROVE OriginInv'
  BY <1>10 DEF KillFetch
<1>11. ASSUME NEW r \in Runs, LastWriteLands(r) PROVE OriginInv'
  BY <1>11, CompletedFile DEF LastWriteLands
<1>12. CASE UNCHANGED imageVars
  BY <1>12 DEF imageVars
<1> QED
  BY <1>1, <1>2, <1>3, <1>4, <1>5, <1>6, <1>7, <1>8, <1>9, <1>10, <1>11, <1>12
     DEF ImageNext, FetchStep

(* `sized' of a run changes with the answer to it, and OriginInv says that  *)
(* nothing of the run is about then.                                        *)
LEMMA NextCutInv ==
  ImageInv /\ [ImageNext]_imageVars => CutImageHasCause'
<1> SUFFICES ASSUME ImageInv, [ImageNext]_imageVars PROVE CutImageHasCause'
  OBVIOUS
<1> USE DEF ImageInv, ImageTypeOK, CutImageHasCause, HasCause, fileVars, runVars,
            Fetch, SetPart, Truncated, AllReceived
<1>1. ASSUME NEW r \in Runs, Look(r) \/ ReadCached(r) \/ OpenDest(r) PROVE CutImageHasCause'
  BY <1>1 DEF Look, ReadCached, OpenDest
<1>2. ASSUME NEW r \in Runs, ReadDest(r) \/ Discard(r) PROVE CutImageHasCause'
  BY <1>2 DEF ReadDest, Discard
<1>3. ASSUME NEW r \in Runs, Request(r) PROVE CutImageHasCause'
  <2>1. ASSUME NEW file \in Files \union {NoFile}, HasCause(file), Precedes(r, file)
        PROVE  file # NoFile /\ file.content = "cut" => file.by = Before \/ ~sized'[file.by]
    <3>1. file # NoFile => file.by \in (Runs \ {r}) \union {Before}
      BY <2>1 DEF Files, Precedes
    <3>2. \A s \in Runs \ {r} : sized'[s] = sized[s]
      BY <1>3 DEF Request
    <3> QED
      BY <2>1, <3>1, <3>2
  <2>2. CASE fetch[r] = "request"
    BY <1>3, <2>1, <2>2 DEF Request, OriginInv, Precedes, Unanswered
  <2> QED
    BY <1>3, <2>2 DEF Request
<1>4. ASSUME NEW r \in Runs, StreamBreaks(r) \/ StreamEnds(r) PROVE CutImageHasCause'
  BY <1>4 DEF StreamBreaks, StreamEnds, Received
<1>5. ASSUME NEW r \in Runs, Finalize(r) PROVE CutImageHasCause'
  BY <1>5 DEF Finalize
<1>6. ASSUME NEW r \in Runs, Rename(r) PROVE CutImageHasCause'
  BY <1>6 DEF Rename, PartInv, Complete
<1>7. ASSUME NEW r \in Runs, Settle(r) \/ Reject(r) PROVE CutImageHasCause'
  BY <1>7 DEF Settle, Reject
<1>8. ASSUME NEW r \in Runs, CopyDisk(r) PROVE CutImageHasCause'
  BY <1>8 DEF CopyDisk
<1>9. ASSUME NEW r \in Runs, Boot(r) PROVE CutImageHasCause'
  BY <1>9 DEF Boot
<1>10. ASSUME NEW r \in Runs, KillFetch(r) PROVE CutImageHasCause'
  BY <1>10 DEF KillFetch
<1>11. ASSUME NEW r \in Runs, LastWriteLands(r) PROVE CutImageHasCause'
  BY <1>11, CompletedFile DEF LastWriteLands
<1>12. CASE UNCHANGED imageVars
  BY <1>12 DEF imageVars
<1> QED
  BY <1>1, <1>2, <1>3, <1>4, <1>5, <1>6, <1>7, <1>8, <1>9, <1>10, <1>11, <1>12
     DEF ImageNext, FetchStep

(* A file with the magic is not empty, so that it verifies.                 *)
LEMMA MagicVerifies == ASSUME NEW file, HasMagic(file) PROVE Verifies(file)
BY DEF HasMagic, Verifies

LEMMA NextMagicInv == ImageTypeOK /\ MagicInv /\ [ImageNext]_imageVars => MagicInv'
<1> SUFFICES ASSUME ImageTypeOK, MagicInv, [ImageNext]_imageVars PROVE MagicInv'
  OBVIOUS
<1> USE DEF ImageTypeOK, MagicInv, HasMagic, Complete, fileVars, runVars, Fetch,
            SetPart
<1>1. ASSUME NEW r \in Runs, Look(r) \/ ReadCached(r) \/ OpenDest(r) PROVE MagicInv'
  BY <1>1 DEF Look, ReadCached, OpenDest
<1>2. ASSUME NEW r \in Runs, ReadDest(r) PROVE MagicInv'
  BY <1>2, MagicVerifies DEF ReadDest
<1>3. ASSUME NEW r \in Runs, Discard(r) PROVE MagicInv'
  BY <1>3 DEF Discard
<1>4. ASSUME NEW r \in Runs, Request(r) \/ StreamBreaks(r) PROVE MagicInv'
  BY <1>4 DEF Request, StreamBreaks
<1>5. ASSUME NEW r \in Runs, StreamEnds(r) PROVE MagicInv'
  <2>1. ASSUME NEW content \in Contents, Received(r, content) PROVE MagicInv'
    <3>1. PICK written \in Content :
            /\ part' = [part EXCEPT ![r] = File(r, written)]
            /\ tainted' = (tainted \/ ~HasMagic(File(r, written)))
      BY <2>1 DEF Received, Content, Landed
    <3>2. ~tainted' => ~tainted /\ HasMagic(part'[r])
      BY <3>1
    <3> QED
      BY <2>1, <3>2 DEF Received
  <2>2. CASE fetch'[r] = "err" /\ UNCHANGED <<image, tainted>>
    BY <1>5, <2>2 DEF StreamEnds, Received
  <2> QED
    BY <1>5, <2>1, <2>2 DEF StreamEnds
<1>6. ASSUME NEW r \in Runs, Finalize(r) PROVE MagicInv'
  BY <1>6 DEF Finalize
<1>7. ASSUME NEW r \in Runs, Rename(r) PROVE MagicInv'
  BY <1>7 DEF Rename
<1>8. ASSUME NEW r \in Runs, Settle(r) PROVE MagicInv'
  BY <1>8, MagicVerifies DEF Settle
<1>9. ASSUME NEW r \in Runs, Reject(r) PROVE MagicInv'
  BY <1>9 DEF Reject
<1>10. ASSUME NEW r \in Runs, CopyDisk(r) \/ Boot(r) PROVE MagicInv'
  BY <1>10 DEF CopyDisk, Boot
<1>11. ASSUME NEW r \in Runs, KillFetch(r) PROVE MagicInv'
  BY <1>11 DEF KillFetch
<1>12. ASSUME NEW r \in Runs, LastWriteLands(r) PROVE MagicInv'
  BY <1>12, CompletedFile DEF LastWriteLands
<1>13. CASE UNCHANGED imageVars
  BY <1>13 DEF imageVars
<1> QED
  BY <1>1, <1>2, <1>3, <1>4, <1>5, <1>6, <1>7, <1>8, <1>9, <1>10, <1>11, <1>12, <1>13
     DEF ImageNext, FetchStep

-----------------------------------------------------------------------------
(* Every reachable state satisfies the inductive invariant.                 *)
THEOREM ImageInvariance == ImageSpec => []ImageInv
<1>1. ImageInv /\ [ImageNext]_imageVars => ImageInv'
  BY NextType, NextPartInv, NextOriginInv, NextCutInv, NextMagicInv DEF ImageInv
<1> QED
  BY InitImageInv, <1>1, PTL DEF ImageSpec

(* The cache, the runs and their temporary files stay within their types.   *)
THEOREM ImageTypeCorrect == ImageSpec => []ImageTypeOK
<1>1. ImageInv => ImageTypeOK
  BY DEF ImageInv
<1> QED
  BY ImageInvariance, <1>1, PTL

(* A truncated image in the cache, or under the disk of a VM, came without  *)
(* a length, was there before, or was all received and lacks its last       *)
(* write, however downloads overlap.                                        *)
THEOREM CutImagesAreExplained == ImageSpec => []CutImageHasCause
<1>1. ImageInv => CutImageHasCause
  BY DEF ImageInv
<1> QED
  BY ImageInvariance, <1>1, PTL

(* No run removes an image from under another one while every file that was *)
(* received or found begins as a qcow2 image does.                          *)
THEOREM ImagesAreKept == ImageSpec => ImageIsNotLost
<1>1. ImageInv /\ [ImageNext]_imageVars => [image # NoFile /\ ~tainted => image' # NoFile]_imageVars
  <2> SUFFICES ASSUME ImageInv, ImageNext, image # NoFile, ~tainted PROVE image' # NoFile
    BY DEF imageVars
  <2> USE DEF ImageInv, ImageTypeOK, fileVars, runVars, Fetch
  <2>1. PICK r \in Runs : FetchStep(r) \/ KillFetch(r)
    BY DEF ImageNext
  <2>2. ~Discard(r) /\ ~Reject(r)
    <3>1. fetch[r] \notin {"discard", "reject"}
      BY DEF MagicInv
    <3> QED
      BY <3>1 DEF Discard, Reject
  <2>3. CASE Rename(r)
    BY <2>3 DEF Rename
  <2>4. CASE Look(r) \/ ReadCached(r) \/ OpenDest(r) \/ ReadDest(r) \/ Request(r)
    BY <2>4 DEF Look, ReadCached, OpenDest, ReadDest, Request
  <2>5. CASE StreamBreaks(r) \/ StreamEnds(r) \/ Finalize(r) \/ Settle(r)
    BY <2>5 DEF StreamBreaks, StreamEnds, Received, Finalize, Settle
  <2>7. CASE LastWriteLands(r)
    BY <2>7, CompletedFile DEF LastWriteLands
  <2>6. CASE CopyDisk(r) \/ Boot(r) \/ KillFetch(r)
    BY <2>6 DEF CopyDisk, Boot, KillFetch
  <2> QED
    BY <2>1, <2>2, <2>3, <2>4, <2>5, <2>6, <2>7 DEF FetchStep
<1> QED
  BY ImageInvariance, <1>1, PTL DEF ImageSpec, ImageIsNotLost
=============================================================================
