----------------------------- MODULE RasterPool -----------------------------
(***************************************************************************)
(* The pool the frame buffers of all threads come from.  A handle to a     *)
(* fresh raster is unique and mutable; moved into a RasterHandle it is     *)
(* shared and constant, and computes its hash once.  When the last handle  *)
(* goes the raster returns to the pool, its contents as they were, to be   *)
(* overwritten by its next owner.                                          *)
(*                                                                         *)
(* Each critical section of the pool's mutex is one step.  A raster on its *)
(* way back takes two: its cached hash is cleared outside the mutex.  The  *)
(* hash is taken to tell contents apart.                                   *)
(***************************************************************************)
EXTENDS Sequences, SequencesExt

CONSTANTS
  Handle,       (* variables that may hold a handle, in any thread          *)
  Raster,       (* frame buffers in memory                                  *)
  Size, Content,
  Free,         (* a handle, a hash or an address that holds nothing        *)
  allow_resize  (* RasterPoolDebug::allow_resize                            *)

ASSUME PoolAssumption ==
  /\ Free \notin Raster \cup Size \cup Content
  /\ Free \notin [ raster : Raster, size : Size, frozen : BOOLEAN ]
  /\ Free \notin [ size : Size, content : Content, frozen : BOOLEAN ]
  /\ allow_resize \in BOOLEAN

VARIABLES
  unused_rasters_, (* queue of the pool                                     *)
  size,            (* of each raster; Free where none is allocated          *)
  content,         (* pixels of each raster                                 *)
  frozen_hash_,    (* cached hash of each raster, or Free                   *)
  handle,          (* what each handle holds                                *)
  dying,           (* rasters without a handle, hash not cleared yet        *)
  cleared,         (* the same with a cleared hash, before the mutex        *)
  told             (* the last hash computed                                *)

vars == << unused_rasters_, size, content, frozen_hash_, handle, dying,
           cleared, told >>

Hold == [ raster : Raster, size : Size, frozen : BOOLEAN ]

Init ==
  /\ unused_rasters_ = << >>
  /\ size = [ r \in Raster |-> Free ]
  /\ content = [ r \in Raster |-> Free ]
  /\ frozen_hash_ = [ r \in Raster |-> Free ]
  /\ handle = [ h \in Handle |-> Free ]
  /\ dying = {}
  /\ cleared = {}
  /\ told = Free

Pooled == ToSet(unused_rasters_)
Unallocated == { r \in Raster : size[r] = Free }
Holders(r) == { h \in Handle : handle[h] # Free /\ handle[h].raster = r }

-----------------------------------------------------------------------------
MatchesAny(r, s) == TRUE

Matches(r, s) == size[r] = s

(* The raster a request gets.  Only the front of the queue is looked at; a   *)
(* request it cannot serve throws, or throws the whole queue away.           *)
TakeNew(r, s) ==
  /\ unused_rasters_ = << >>
  /\ r \in Unallocated
  /\ size' = [ size EXCEPT ![r] = s ]
  /\ \E c \in Content : content' = [ content EXCEPT ![r] = c ]
  /\ frozen_hash_' = [ frozen_hash_ EXCEPT ![r] = Free ]
  /\ UNCHANGED unused_rasters_

TakeUnusedLeftIn(r, s) ==
  /\ unused_rasters_ # << >>
  /\ r = Head(unused_rasters_)
  /\ Matches(r, s)
  /\ UNCHANGED << unused_rasters_, size, content, frozen_hash_ >>

TakeUnused(r, s) ==
  /\ unused_rasters_ # << >>
  /\ r = Head(unused_rasters_)
  /\ Matches(r, s)
  /\ unused_rasters_' = Tail(unused_rasters_)
  /\ UNCHANGED << size, content, frozen_hash_ >>

TakeResized(r, s) ==
  /\ allow_resize
  /\ unused_rasters_ # << >>
  /\ ~ Matches(Head(unused_rasters_), s)
  /\ unused_rasters_' = << >>
  /\ r \in Unallocated \cup Pooled
  /\ size' = [ q \in Raster |-> IF q = r THEN s
                                ELSE IF q \in Pooled THEN Free ELSE size[q] ]
  /\ \E c \in Content :
       content' = [ q \in Raster |-> IF q = r THEN c
                                     ELSE IF q \in Pooled THEN Free ELSE content[q] ]
  /\ frozen_hash_' = [ frozen_hash_ EXCEPT ![r] = Free ]

Make(h, s) ==
  /\ handle[h] = Free
  /\ \E r \in Raster :
       /\ TakeNew(r, s) \/ TakeUnused(r, s) \/ TakeResized(r, s)
       /\ handle' = [ handle EXCEPT ![h] = [ raster |-> r, size |-> s, frozen |-> FALSE ] ]
  /\ UNCHANGED << dying, cleared, told >>

Write(h, c) ==
  /\ handle[h] # Free
  /\ ~ handle[h].frozen
  /\ content' = [ content EXCEPT ![handle[h].raster] = c ]
  /\ UNCHANGED << unused_rasters_, size, frozen_hash_, handle, dying, cleared, told >>

Freeze(h) ==
  /\ handle[h] # Free
  /\ ~ handle[h].frozen
  /\ handle' = [ handle EXCEPT ![h].frozen = TRUE ]
  /\ UNCHANGED << unused_rasters_, size, content, frozen_hash_, dying, cleared, told >>

Copy(g, h) ==
  /\ handle[g] # Free
  /\ handle[g].frozen
  /\ handle[h] = Free
  /\ handle' = [ handle EXCEPT ![h] = handle[g] ]
  /\ UNCHANGED << unused_rasters_, size, content, frozen_hash_, dying, cleared, told >>

HashOf(r) == IF frozen_hash_[r] = Free THEN content[r] ELSE frozen_hash_[r]

Hash(h) ==
  /\ handle[h] # Free
  /\ handle[h].frozen
  /\ LET r == handle[h].raster
     IN /\ frozen_hash_' = [ frozen_hash_ EXCEPT ![r] = HashOf(r) ]
        /\ told' = [ handle |-> h, hash |-> HashOf(r) ]
  /\ UNCHANGED << unused_rasters_, size, content, handle, dying, cleared >>

HoldsIt(h) == handle[h] # Free

IsLast(h) == Holders(handle[h].raster) = {h}

Drop(h) ==
  /\ handle[h] # Free
  /\ handle' = [ handle EXCEPT ![h] = Free ]
  /\ dying' = IF IsLast(h)
              THEN dying \cup { handle[h].raster }
              ELSE dying
  /\ UNCHANGED << unused_rasters_, size, content, frozen_hash_, cleared, told >>

ResetNothing(r) ==
  /\ r \in dying
  /\ dying' = dying \ {r}
  /\ cleared' = cleared \cup {r}
  /\ UNCHANGED << unused_rasters_, size, content, frozen_hash_, handle, told >>

(* The deleter of the last handle.                                           *)
ResetCache(r) ==
  /\ r \in dying
  /\ frozen_hash_' = [ frozen_hash_ EXCEPT ![r] = Free ]
  /\ dying' = dying \ {r}
  /\ cleared' = cleared \cup {r}
  /\ UNCHANGED << unused_rasters_, size, content, handle, told >>

FreeRaster(r) ==
  /\ r \in cleared
  /\ unused_rasters_' = Append(unused_rasters_, r)
  /\ cleared' = cleared \ {r}
  /\ UNCHANGED << size, content, frozen_hash_, handle, dying, told >>

Next ==
  \/ \E h \in Handle :
       \/ \E s \in Size : Make(h, s)
       \/ \E c \in Content : Write(h, c)
       \/ Freeze(h)
       \/ Hash(h)
       \/ Drop(h)
       \/ \E g \in Handle : Copy(g, h)
  \/ \E r \in Raster : ResetCache(r) \/ FreeRaster(r)

Spec == Init /\ [][Next]_vars

-----------------------------------------------------------------------------
TypeOK ==
  /\ unused_rasters_ \in Seq(Raster)
  /\ size \in [ Raster -> Size \cup { Free } ]
  /\ content \in [ Raster -> Content \cup { Free } ]
  /\ \A r \in Raster : size[r] = Free <=> content[r] = Free
  /\ frozen_hash_ \in [ Raster -> Content \cup { Free } ]
  /\ handle \in [ Handle -> Hold \cup { Free } ]
  /\ dying \subseteq Raster
  /\ cleared \subseteq Raster
  /\ told \in [ handle : Handle, hash : Content ] \cup { Free }

Distinct(queue) == \A i, j \in 1 .. Len(queue) : queue[i] = queue[j] => i = j

(* A raster is in one place: in use, on its way back, or in the pool, and    *)
(* there only once.                                                          *)
OnePlace ==
  /\ Distinct(unused_rasters_)
  /\ Pooled \cap (dying \cup cleared) = {}
  /\ dying \cap cleared = {}
  /\ \A r \in Pooled \cup dying \cup cleared : Holders(r) = {} /\ size[r] # Free

(* A raster keeps the size it was asked for while in use, whatever is thrown *)
(* away for other sizes, and is written by its only holder.                  *)
HeldInv ==
  \A h \in Handle : handle[h] # Free =>
    /\ size[handle[h].raster] = handle[h].size
    /\ ~ handle[h].frozen => Holders(handle[h].raster) = {h}
    /\ \A g \in Holders(handle[h].raster) : handle[g] = handle[h]

(* The assertions of make_raster and of RasterHandle: a raster that will be  *)
(* written has no cached hash; and what is cached of any other is right.     *)
HashInv ==
  /\ \A r \in Pooled \cup cleared : frozen_hash_[r] = Free
  /\ \A h \in Handle : handle[h] # Free =>
       frozen_hash_[handle[h].raster] \in
         IF handle[h].frozen THEN { Free, content[handle[h].raster] } ELSE { Free }

(* Handles behave as values, although the rasters behind them are reused.    *)
ShownBy(hold) ==
  IF hold = Free THEN Free
  ELSE [ size |-> size[hold.raster], content |-> content[hold.raster],
         frozen |-> hold.frozen ]

Values == INSTANCE PictureValues WITH
  picture <- [ h \in Handle |-> ShownBy(handle[h]) ]

HandlesAreValues == Values!Spec
=============================================================================
