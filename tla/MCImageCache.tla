---------------------------- MODULE MCImageCache ----------------------------
(* ImageCache on small instances.  The runs that are not forced are alike.  *)
EXTENDS ImageCache, TLC

UnforcedSymmetry == Permutations(Runs \ Forced)

(* Of a run that is over nothing matters but, if the cached image is its,   *)
(* whether it had a length and can still write: nobody reads its .part file *)
(* any more, and its disk was made of an image that was in the cache.       *)
RunView(r) ==
  IF fetch[r] \notin Over THEN <<fetch[r], part[r], sized[r], overlay[r], base[r]>>
  ELSE IF image # NoFile /\ image.by = r THEN <<fetch[r] = "killed", sized[r]>>
  ELSE <<>>

ImageView == <<image, qemu_img, tainted, [r \in Runs |-> RunView(r)]>>
=============================================================================
