---------------------------- MODULE PictureValues ----------------------------
(***************************************************************************)
(* What the rest of the program takes a raster handle for: a value.  A     *)
(* mutable handle is a picture of its own that nobody else sees; once      *)
(* frozen it is a constant, copied at will, and its hash is the hash of    *)
(* what it shows.  Decoders and encoders hold pictures in this way, which  *)
(* is why copying a decoder copies its state.                              *)
(***************************************************************************)
CONSTANTS Handle, Size, Content, Free

VARIABLES
  picture,  (* the picture each handle stands for, or Free                  *)
  told      (* the last hash computed: of which handle, and its value       *)

Picture == [ size : Size, content : Content, frozen : BOOLEAN ]

Init ==
  /\ picture = [ h \in Handle |-> Free ]
  /\ told = Free

Make(h) ==
  /\ picture[h] = Free
  /\ \E p \in Picture : ~ p.frozen /\ picture' = [ picture EXCEPT ![h] = p ]
  /\ UNCHANGED told

Write(h) ==
  /\ picture[h] # Free
  /\ ~ picture[h].frozen
  /\ \E c \in Content : picture' = [ picture EXCEPT ![h].content = c ]
  /\ UNCHANGED told

Freeze(h) ==
  /\ picture[h] # Free
  /\ ~ picture[h].frozen
  /\ picture' = [ picture EXCEPT ![h].frozen = TRUE ]
  /\ UNCHANGED told

Copy(g, h) ==
  /\ picture[g] # Free
  /\ picture[g].frozen
  /\ picture[h] = Free
  /\ picture' = [ picture EXCEPT ![h] = picture[g] ]
  /\ UNCHANGED told

Hash(h) ==
  /\ picture[h] # Free
  /\ picture[h].frozen
  /\ told' = [ handle |-> h, hash |-> picture[h].content ]
  /\ UNCHANGED picture

Drop(h) ==
  /\ picture[h] # Free
  /\ picture' = [ picture EXCEPT ![h] = Free ]
  /\ UNCHANGED told

Next ==
  \E h \in Handle :
    \/ Make(h) \/ Write(h) \/ Freeze(h) \/ Hash(h) \/ Drop(h)
    \/ \E g \in Handle : Copy(g, h)

Spec == Init /\ [][Next]_<< picture, told >>
=============================================================================
