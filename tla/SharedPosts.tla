------------------------------ MODULE SharedPosts ------------------------------
(***************************************************************************)
(* What a share leaves in the stores: the photo in the storage, the        *)
(* document of Post, and what these promise of each other and of the       *)
(* family the user was in.  Sharing models how they come about.            *)
(***************************************************************************)
CONSTANTS Share,   \* the taps on the share button (the bound of them)
          Family   \* the families of the user

VARIABLES
  photos,     \* the photos in the storage, as the shares they are of
  posts,      \* the documents of Post: the share and the family
  since       \* since[s]: the families that were current since the tap s

Post == [share : Share, family : Family]

\* A post is in a family that was the current one at some time after the tap,
\* however long the read took and whatever was shared before.
FamilyTimely == \A p \in posts : p.family \in since[p.share]

\* A post has its photo in the storage.
PhotosFirst == \A p \in posts : p.share \in photos
===============================================================================
