----------------------------- MODULE ImageCache -----------------------------
(***************************************************************************)
(* The cached cloud image and the disks made from it: prepare_cloud_image  *)
(* (vm/src/ops.rs), ImageDownloader (vm/src/image/downloader.rs) and       *)
(* copy_disk_image (vm/src/image/disk.rs).                                 *)
(*                                                                         *)
(* Runs that need the same image share one file, which nothing locks: each *)
(* looks whether it is there, reads it, and downloads to a .part file of   *)
(* its own, which it renames over the name of the image.  A look and the   *)
(* step that relies on it are separate actions.  The hosts supported are   *)
(* Linux and macOS, where rename replaces what is there: the branch of     *)
(* finalize_download for an existing destination is never taken.           *)
(***************************************************************************)
EXTENDS VmRuns

CONSTANTS
  NoFile,       \* there is no file of that name
  Forced,       \* the runs with --force-download
  Contents      \* bound: what the server may send

VARIABLES
  image,        \* the cached image
  part,         \* the .part file of each run
  fetch,        \* where each run is
  sized,        \* the response to it had a Content-Length
  overlay,      \* its disk is an overlay on the image, not a copy
  base,         \* the image its disk is made from
  qemu_img,     \* qemu-img is installed
  (* history, for the properties only *)
  tainted       \* a file that is no qcow2 image was received or in the cache

fileVars == <<image, part>>
runVars  == <<fetch, sized, overlay, base>>
imageVars == <<fileVars, runVars, qemu_img, tainted>>

(* A whole qcow2 image; the beginning of one; something else; nothing.  A   *)
(* file may miss the last write of what was received: an image then lacks   *)
(* its end, and a short body is blank.                                      *)
Body    == {"whole", "cut", "junk", "empty"}
Landed  == [lacking |-> "whole", blank |-> "junk"]
Content == Body \union DOMAIN Landed
Files   == [by : Runs \union {Before}, content : Content]

Stage == {"start", "read", "open", "reopen", "discard", "request", "stream", "final",
          "rename", "settle", "reject", "ok", "disk", "booted", "err", "killed"}
Over  == {"booted", "err", "killed"}

ASSUME ImageAssumption ==
  /\ NoFile \notin Files
  /\ Forced \subseteq Runs
  /\ Contents \subseteq Body

File(r, content) == [by |-> r, content |-> content]

ImageTypeOK ==
  /\ image \in Files \union {NoFile}
  /\ part \in [Runs -> Files \union {NoFile}]
  /\ fetch \in [Runs -> Stage]
  /\ sized \in [Runs -> BOOLEAN]
  /\ overlay \in [Runs -> BOOLEAN]
  /\ base \in [Runs -> Files \union {NoFile}]
  /\ qemu_img \in BOOLEAN
  /\ tainted \in BOOLEAN
  /\ \A r \in Runs : fetch[r] \in {"stream", "final", "rename"} => part[r] # NoFile

(* has_qcow2_magic: the first four bytes.                                   *)
HasMagic(file) == file.content \in {"whole", "cut", "lacking"}

(* verify_image of a file that is there; `qemu-img info` takes what it does *)
(* not recognise for a raw image.                                           *)
Verifies(file) ==
  /\ file.content \notin {"empty", "blank"}
  /\ HasMagic(file) \/ qemu_img

ImageInit ==
  /\ image \in {NoFile} \union {File(Before, content) : content \in Body}
  /\ part = [r \in Runs |-> NoFile]
  /\ fetch = [r \in Runs |-> "start"]
  /\ sized = [r \in Runs |-> FALSE]
  /\ overlay = [r \in Runs |-> FALSE]
  /\ base = [r \in Runs |-> NoFile]
  /\ qemu_img \in BOOLEAN
  /\ tainted = (image # NoFile /\ ~HasMagic(image))

-----------------------------------------------------------------------------
Fetch(r, from, to) ==
  /\ fetch[r] = from
  /\ fetch' = [fetch EXCEPT ![r] = to]

SetPart(r, file) == part' = [part EXCEPT ![r] = file]

(* prepare_cloud_image: exists() of verify_image.                           *)
Look(r) ==
  /\ \/ (r \in Forced \/ image = NoFile) /\ Fetch(r, "start", "open")
     \/ r \notin Forced /\ image # NoFile /\ Fetch(r, "start", "read")
  /\ UNCHANGED <<fileVars, sized, overlay, base, qemu_img, tainted>>

(* The rest of verify_image: an error if the file is gone by now.           *)
ReadCached(r) ==
  /\ \/ image = NoFile /\ Fetch(r, "read", "err")
     \/ image # NoFile /\ Verifies(image) /\ Fetch(r, "read", "ok")
     \/ image # NoFile /\ ~Verifies(image) /\ Fetch(r, "read", "open")
  /\ UNCHANGED <<fileVars, sized, overlay, base, qemu_img, tainted>>

(* download: dest.exists().                                                 *)
OpenDest(r) ==
  /\ \/ image = NoFile /\ Fetch(r, "open", "request")
     \/ image # NoFile /\ Fetch(r, "open", "reopen")
  /\ UNCHANGED <<fileVars, sized, overlay, base, qemu_img, tainted>>

(* Had --force-download discarded what is there. *)
ReadDest_DiscardsAny(r) ==
  /\ \/ image = NoFile /\ Fetch(r, "reopen", "err")
     \/ image # NoFile /\ Verifies(image) /\ r \notin Forced /\ Fetch(r, "reopen", "ok")
     \/ image # NoFile /\ (~Verifies(image) \/ r \in Forced) /\ Fetch(r, "reopen", "discard")
  /\ UNCHANGED <<fileVars, sized, overlay, base, qemu_img, tainted>>

(* An image that verifies is taken, whether the download was forced or not. *)
(* If it is gone, so is the file that would be discarded: an error.         *)
ReadDest(r) ==
  /\ \/ image = NoFile /\ Fetch(r, "reopen", "err")
     \/ image # NoFile /\ Verifies(image) /\ Fetch(r, "reopen", "ok")
     \/ image # NoFile /\ ~Verifies(image) /\ Fetch(r, "reopen", "discard")
  /\ UNCHANGED <<fileVars, sized, overlay, base, qemu_img, tainted>>

(* Removes whatever has the name by now.                                    *)
Discard(r) ==
  /\ \/ image = NoFile /\ Fetch(r, "discard", "err")
     \/ image # NoFile /\ Fetch(r, "discard", "request")
  /\ image' = NoFile
  /\ UNCHANGED <<part, sized, overlay, base, qemu_img, tainted>>

(* The request fails, or is answered with or without a length.              *)
Request(r) ==
  \/ /\ Fetch(r, "request", "err")
     /\ UNCHANGED <<fileVars, sized, overlay, base, qemu_img, tainted>>
  \/ /\ Fetch(r, "request", "stream")
     /\ SetPart(r, File(r, "empty"))
     /\ \E has_length \in BOOLEAN : sized' = [sized EXCEPT ![r] = has_length]
     /\ UNCHANGED <<image, overlay, base, qemu_img, tainted>>

(* The connection breaks: what was received stays in the .part file.        *)
StreamBreaks(r) ==
  /\ Fetch(r, "stream", "err")
  /\ \E content \in {"empty", "cut"} : SetPart(r, File(r, content))
  /\ UNCHANGED <<image, sized, overlay, base, qemu_img, tainted>>

(* Another thread writes the file, and what it writes last is neither       *)
(* flushed nor awaited: it may come after the rename, or fail unseen.       *)
Received(r, content) ==
  /\ Fetch(r, "stream", "final")
  /\ \E written \in {content} \union {c \in DOMAIN Landed : Landed[c] = content} :
       /\ SetPart(r, File(r, written))
       /\ tainted' = (tainted \/ ~HasMagic(File(r, written)))
  /\ UNCHANGED <<image, sized, overlay, base, qemu_img>>

(* Had the length not been compared. *)
StreamEnds_NotCounted(r) == \E content \in Contents : Received(r, content)

(* Had the error been left out. *)
StreamEnds_NoError(r) ==
  \/ \E content \in Contents : (content = "cut" => ~sized[r]) /\ Received(r, content)
  \/ /\ sized[r]
     /\ "cut" \in Contents
     /\ Fetch(r, "stream", "final")
     /\ SetPart(r, NoFile)
     /\ UNCHANGED <<image, sized, overlay, base, qemu_img, tainted>>

(* The body ends; fewer bytes than announced are an error.  What counts is  *)
(* what was received, not what was written.                                 *)
StreamEnds(r) ==
  \/ \E content \in Contents : (content = "cut" => ~sized[r]) /\ Received(r, content)
  \/ /\ sized[r]
     /\ "cut" \in Contents
     /\ Fetch(r, "stream", "err")
     /\ SetPart(r, NoFile)
     /\ UNCHANGED <<image, sized, overlay, base, qemu_img, tainted>>

(* The last write reaches the file under whatever name it has by now; a     *)
(* copy of it stays what it was.  A killed run writes no more, and a write  *)
(* that fails is one that is never taken.                                   *)
Completed(file, r) ==
  IF file # NoFile /\ file.by = r /\ file.content \in DOMAIN Landed
  THEN File(r, Landed[file.content])
  ELSE file

LastWriteLands(r) ==
  /\ fetch[r] # "killed"
  /\ part' = [part EXCEPT ![r] = Completed(@, r)]
  /\ image' = Completed(image, r)
  /\ <<part', image'>> # <<part, image>>
  /\ UNCHANGED <<runVars, qemu_img, tainted>>

(* finalize_download keeps an image that verifies.                          *)
Finalize(r) ==
  /\ \/ /\ image # NoFile /\ Verifies(image)
        /\ Fetch(r, "final", "settle")
        /\ SetPart(r, NoFile)
     \/ /\ ~(image # NoFile /\ Verifies(image))
        /\ Fetch(r, "final", "rename")
        /\ UNCHANGED part
  /\ UNCHANGED <<image, sized, overlay, base, qemu_img, tainted>>

Rename(r) ==
  /\ \/ /\ Fetch(r, "rename", "settle")
        /\ image' = part[r]
     \/ Fetch(r, "rename", "err") /\ UNCHANGED image
  /\ SetPart(r, NoFile)
  /\ UNCHANGED <<sized, overlay, base, qemu_img, tainted>>

(* download verifies what is in the cache now.                              *)
Settle(r) ==
  /\ \/ image = NoFile /\ Fetch(r, "settle", "err")
     \/ image # NoFile /\ Verifies(image) /\ Fetch(r, "settle", "ok")
     \/ image # NoFile /\ ~Verifies(image) /\ Fetch(r, "settle", "reject")
  /\ UNCHANGED <<fileVars, sized, overlay, base, qemu_img, tainted>>

Reject(r) ==
  /\ Fetch(r, "reject", "err")
  /\ image' = NoFile
  /\ UNCHANGED <<part, sized, overlay, base, qemu_img, tainted>>

(* copy_disk_image: an overlay if qemu-img makes one, else a copy.  Making  *)
(* the disk may fail, and so may resizing it.                               *)
CopyDisk(r) ==
  \/ /\ image # NoFile
     /\ Fetch(r, "ok", "disk")
     /\ overlay' = [overlay EXCEPT ![r] = qemu_img /\ HasMagic(image)]
     /\ base' = [base EXCEPT ![r] = image]
     /\ UNCHANGED <<fileVars, sized, qemu_img, tainted>>
  \/ /\ image = NoFile
     /\ Fetch(r, "ok", "err")
     /\ UNCHANGED <<fileVars, sized, overlay, base, qemu_img, tainted>>
  \/ /\ image # NoFile
     /\ Fetch(r, "ok", "err")
     /\ UNCHANGED <<fileVars, sized, overlay, base, qemu_img, tainted>>

(* QEMU opens the image an overlay names, and takes qcow2 only.             *)
Boot(r) ==
  LET backing == IF overlay[r] THEN image ELSE base[r]
      bootable == backing # NoFile /\ HasMagic(backing)
  IN  /\ \/ bootable /\ Fetch(r, "disk", "booted")
         \/ ~bootable /\ Fetch(r, "disk", "err")
      /\ base' = [base EXCEPT ![r] = backing]
      /\ UNCHANGED <<fileVars, sized, overlay, qemu_img, tainted>>

(* The process of the run is killed.                                        *)
KillFetch(r) ==
  /\ fetch[r] \notin Over
  /\ fetch' = [fetch EXCEPT ![r] = "killed"]
  /\ UNCHANGED <<fileVars, sized, overlay, base, qemu_img, tainted>>

FetchStep(r) ==
  \/ Look(r) \/ ReadCached(r) \/ OpenDest(r) \/ ReadDest(r) \/ Discard(r)
  \/ Request(r) \/ StreamBreaks(r) \/ StreamEnds(r) \/ LastWriteLands(r)
  \/ Finalize(r) \/ Rename(r) \/ Settle(r) \/ Reject(r)
  \/ CopyDisk(r) \/ Boot(r)

ImageNext == \E r \in Runs : FetchStep(r) \/ KillFetch(r)

ImageSpec == ImageInit /\ [][ImageNext]_imageVars
-----------------------------------------------------------------------------
(* As long as every file received or found in the cache begins as a qcow2   *)
(* image does, an image that is in the cache stays there, whatever runs     *)
(* download at the same time: none removes it from under another one.  (It  *)
(* may be replaced by the image of a run that looked before it was there.)  *)
(* Once a file was not, this says nothing: a run that found it may discard, *)
(* by name, the good image another one has put there since.                 *)
ImageIsNotLost ==
  [][image # NoFile /\ ~tainted => image' # NoFile]_imageVars

(* A truncated image gets past the checks, into the cache or under the disk *)
(* of a VM, only where there was no length to compare, if it was there      *)
(* before, or if all of it was received and the last write is late or lost. *)
Truncated(file)   == file.content \in {"cut", "lacking"}
AllReceived(file) == file.content = "lacking"

HasCause(file) ==
  file # NoFile /\ Truncated(file) =>
    file.by = Before \/ ~sized[file.by] \/ AllReceived(file)

CutImageHasCause ==
  /\ HasCause(image)
  /\ \A r \in Runs : HasCause(base[r])
-----------------------------------------------------------------------------
(***************************************************************************)
(* The inductive invariant.                                                *)
(***************************************************************************)
Unanswered == {"start", "read", "open", "reopen", "discard", "request"}
Complete   == {"final", "rename"}

(* A .part file is its run's; one that ends early had no length.            *)
PartInv ==
  \A r \in Runs :
    part[r] # NoFile =>
      /\ part[r].by = r
      /\ fetch[r] \in Complete /\ part[r].content = "cut" => ~sized[r]

(* There is nothing of a run before the server has answered it, so that     *)
(* `sized' does not change once its image is about.                         *)
Precedes(r, file) == file # NoFile => file.by # r

OriginInv ==
  \A r \in Runs : fetch[r] \in Unanswered =>
    Precedes(r, image) /\ \A s \in Runs : Precedes(r, base[s])

(* While nothing else was about, what is there is a qcow2 image, and nobody *)
(* has found one that does not verify.                                      *)
MagicInv ==
  ~tainted =>
    /\ image # NoFile => HasMagic(image)
    /\ \A r \in Runs : /\ fetch[r] \notin {"discard", "reject"}
                       /\ fetch[r] \in Complete => HasMagic(part[r])

ImageInv == ImageTypeOK /\ PartInv /\ OriginInv /\ CutImageHasCause /\ MagicInv
=============================================================================
