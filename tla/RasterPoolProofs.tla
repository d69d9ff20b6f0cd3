-------------------------- MODULE RasterPoolProofs --------------------------
(***************************************************************************)
(* Rasters behave as values for any number of handles, threads, rasters    *)
(* and sizes, resized or not.                                              *)
(***************************************************************************)
EXTENDS RasterPool, TLAPS

LEMMA Elements ==
  ASSUME NEW q \in Seq(Raster)
  PROVE  ToSet(q) = { q[i] : i \in 1 .. Len(q) }
BY DEF ToSet

(* What leaves a queue from its front.                                       *)
LEMMA PopSet ==
  ASSUME NEW q \in Seq(Raster), q # << >>, Distinct(q)
  PROVE  /\ Head(q) \in ToSet(q)
         /\ Head(q) \in Raster
         /\ Tail(q) \in Seq(Raster)
         /\ Distinct(Tail(q))
         /\ ToSet(Tail(q)) \subseteq ToSet(q)
         /\ Head(q) \notin ToSet(Tail(q))
<1> DEFINE t == Tail(q)
<1>1. /\ Len(q) \in Nat /\ Len(q) >= 1
      /\ Head(q) = q[1]
      /\ t \in Seq(Raster)
      /\ Len(t) = Len(q) - 1
      /\ \A i \in 1 .. Len(t) : t[i] = q[i + 1]
  OBVIOUS
<1>2. /\ ToSet(q) = { q[i] : i \in 1 .. Len(q) }
      /\ ToSet(t) = { t[i] : i \in 1 .. Len(t) }
  BY <1>1, Elements
<1> HIDE DEF t
<1>3. \A i \in 1 .. Len(t) : i + 1 \in 1 .. Len(q) /\ i + 1 # 1
  BY <1>1
<1>4. Distinct(t)
  <2> SUFFICES ASSUME NEW i \in 1 .. Len(t), NEW j \in 1 .. Len(t), t[i] = t[j]
               PROVE  i = j
    BY DEF Distinct
  <2>1. q[i + 1] = q[j + 1] BY <1>1
  <2>2. i + 1 = j + 1 BY <1>3, <2>1 DEF Distinct
  <2> QED BY <2>2
<1>5. ToSet(t) \subseteq ToSet(q) BY <1>1, <1>2, <1>3
<1>6. q[1] \notin ToSet(t)
  <2> SUFFICES ASSUME NEW i \in 1 .. Len(t), q[1] = t[i] PROVE FALSE
    BY <1>2
  <2>1. q[1] = q[i + 1] BY <1>1
  <2>2. 1 \in 1 .. Len(q) BY <1>1
  <2> QED BY <1>3, <2>1, <2>2 DEF Distinct
<1>7. q[1] \in ToSet(q) /\ q[1] \in Raster BY <1>1, <1>2
<1> QED BY <1>1, <1>4, <1>5, <1>6, <1>7 DEF t

(* What joins a queue at its end.                                            *)
LEMMA PushSet ==
  ASSUME NEW q \in Seq(Raster), Distinct(q), NEW r \in Raster, r \notin ToSet(q)
  PROVE  /\ Append(q, r) \in Seq(Raster)
         /\ Distinct(Append(q, r))
         /\ ToSet(Append(q, r)) = ToSet(q) \cup {r}
<1> DEFINE t == Append(q, r)
<1>1. /\ Len(q) \in Nat
      /\ t \in Seq(Raster)
      /\ Len(t) = Len(q) + 1
      /\ t[Len(q) + 1] = r
      /\ \A i \in 1 .. Len(q) : t[i] = q[i]
  OBVIOUS
<1>2. /\ ToSet(q) = { q[i] : i \in 1 .. Len(q) }
      /\ ToSet(t) = { t[i] : i \in 1 .. Len(t) }
  BY <1>1, Elements
<1> HIDE DEF t
<1>3. \A i \in 1 .. Len(t) : i \in 1 .. Len(q) \/ i = Len(q) + 1 BY <1>1
<1>4. \A i \in 1 .. Len(q) : i \in 1 .. Len(t) /\ q[i] # r BY <1>1, <1>2
<1>5. Len(q) + 1 \in 1 .. Len(t) BY <1>1
<1>6. Distinct(t)
  <2> SUFFICES ASSUME NEW i \in 1 .. Len(t), NEW j \in 1 .. Len(t), t[i] = t[j]
               PROVE  i = j
    BY DEF Distinct
  <2>1. CASE i \in 1 .. Len(q) /\ j \in 1 .. Len(q)
    BY <1>1, <2>1 DEF Distinct
  <2>2. CASE ~ (i \in 1 .. Len(q) /\ j \in 1 .. Len(q))
    BY <1>1, <1>3, <1>4, <2>2
  <2> QED BY <2>1, <2>2
<1>7. ToSet(t) \subseteq ToSet(q) \cup {r} BY <1>1, <1>2, <1>3
<1>8. ToSet(q) \cup {r} \subseteq ToSet(t) BY <1>1, <1>2, <1>4, <1>5
<1> QED BY <1>1, <1>6, <1>7, <1>8 DEF t

-----------------------------------------------------------------------------
Inv == TypeOK /\ OnePlace /\ HeldInv /\ HashInv

LEMMA InitInv == Init => Inv
<1> SUFFICES ASSUME Init PROVE Inv OBVIOUS
<1>1. Pooled = {} BY DEF Init, Pooled, ToSet
<1>2. Distinct(unused_rasters_) BY DEF Init, Distinct
<1>3. TypeOK BY DEF Init, TypeOK
<1>4. OnePlace BY <1>1, <1>2 DEF Init, OnePlace
<1>5. HeldInv BY DEF Init, HeldInv
<1>6. HashInv BY <1>1 DEF Init, HashInv
<1> QED BY <1>3, <1>4, <1>5, <1>6 DEF Inv

(* A request gets a raster that nothing else refers to, without a cached     *)
(* hash, of the size asked for, and leaves every raster in use alone.        *)
Taken(r, s) ==
  /\ Holders(r) = {}
  /\ r \notin dying \cup cleared
  /\ frozen_hash_'[r] = Free
  /\ size'[r] = s
  /\ content'[r] \in Content
  /\ \A q \in Raster : q # r /\ q \notin Pooled =>
       /\ size'[q] = size[q]
       /\ content'[q] = content[q]
       /\ frozen_hash_'[q] = frozen_hash_[q]
  /\ unused_rasters_' \in Seq(Raster)
  /\ Distinct(unused_rasters_')
  /\ Pooled' \subseteq Pooled \ {r}
  /\ \A q \in Pooled' : size'[q] # Free /\ frozen_hash_'[q] = Free
  /\ size' \in [ Raster -> Size \cup { Free } ]
  /\ content' \in [ Raster -> Content \cup { Free } ]
  /\ \A q \in Raster : size'[q] = Free <=> content'[q] = Free
  /\ frozen_hash_' \in [ Raster -> Content \cup { Free } ]

LEMMA UnallocatedIsFree ==
  ASSUME Inv, NEW r \in Raster, size[r] = Free
  PROVE  Holders(r) = {} /\ r \notin Pooled \cup dying \cup cleared
<1>1. r \notin Pooled \cup dying \cup cleared BY DEF Inv, OnePlace
<1>2. ASSUME NEW h \in Handle, handle[h] # Free, handle[h].raster = r PROVE FALSE
  BY <1>2, PoolAssumption DEF Inv, HeldInv, TypeOK, Hold
<1> QED BY <1>1, <1>2 DEF Holders

LEMMA TakeGives ==
  ASSUME Inv, NEW r \in Raster, NEW s \in Size,
         TakeNew(r, s) \/ TakeUnused(r, s) \/ TakeResized(r, s)
  PROVE  Taken(r, s)
<1>0. /\ TypeOK /\ OnePlace /\ HashInv
      /\ Pooled = ToSet(unused_rasters_)
      /\ s # Free
  BY PoolAssumption DEF Inv, Pooled
<1>1. CASE TakeNew(r, s)
  <2> USE <1>1 DEF TakeNew
  <2>1. Holders(r) = {} /\ r \notin Pooled \cup dying \cup cleared
    BY UnallocatedIsFree DEF Unallocated
  <2>2. PICK c \in Content : content' = [ content EXCEPT ![r] = c ] OBVIOUS
  <2>3. c # Free BY PoolAssumption
  <2>4. Pooled' = Pooled BY DEF Pooled
  <2>5. /\ size' \in [ Raster -> Size \cup { Free } ]
        /\ content' \in [ Raster -> Content \cup { Free } ]
        /\ frozen_hash_' \in [ Raster -> Content \cup { Free } ]
        /\ size'[r] = s /\ content'[r] = c /\ frozen_hash_'[r] = Free
        /\ \A q \in Raster : q # r => /\ size'[q] = size[q]
                                     /\ content'[q] = content[q]
                                     /\ frozen_hash_'[q] = frozen_hash_[q]
    BY <1>0, <2>2 DEF TypeOK
  <2>6. \A q \in Raster : size'[q] = Free <=> content'[q] = Free
    BY <1>0, <2>3, <2>5 DEF TypeOK
  <2>7. Pooled \subseteq Raster BY <1>0 DEF TypeOK, ToSet
  <2>8. \A q \in Pooled' : size'[q] # Free /\ frozen_hash_'[q] = Free
    BY <1>0, <2>1, <2>4, <2>5, <2>7 DEF OnePlace, HashInv
  <2>9. unused_rasters_' \in Seq(Raster) /\ Distinct(unused_rasters_')
    BY <1>0 DEF TypeOK, OnePlace
  <2> QED BY <2>1, <2>4, <2>5, <2>6, <2>8, <2>9 DEF Taken
<1>2. CASE TakeUnused(r, s)
  <2> USE <1>2 DEF TakeUnused
  <2>1. /\ r \in Pooled
        /\ unused_rasters_' \in Seq(Raster)
        /\ Distinct(unused_rasters_')
        /\ Pooled' \subseteq Pooled \ {r}
    <3>1. Pooled' = ToSet(Tail(unused_rasters_)) BY DEF Pooled
    <3> QED BY <1>0, <3>1, PopSet DEF TypeOK, OnePlace
  <2>2. Holders(r) = {} /\ r \notin dying \cup cleared BY <1>0, <2>1 DEF OnePlace
  <2>3. frozen_hash_[r] = Free /\ size[r] = s /\ content[r] \in Content
    BY <1>0, <2>1 DEF HashInv, Matches, TypeOK
  <2>4. \A q \in Pooled' : size'[q] # Free /\ frozen_hash_'[q] = Free
    BY <1>0, <2>1 DEF OnePlace, HashInv
  <2> QED BY <1>0, <2>1, <2>2, <2>3, <2>4 DEF Taken, TypeOK
<1>3. CASE TakeResized(r, s)
  <2> USE <1>3 DEF TakeResized
  <2>1. Holders(r) = {} /\ r \notin dying \cup cleared
    BY <1>0, UnallocatedIsFree DEF Unallocated, OnePlace
  <2>2. PICK c \in Content :
          content' = [ q \in Raster |-> IF q = r THEN c
                                        ELSE IF q \in Pooled THEN Free ELSE content[q] ]
    OBVIOUS
  <2>3. c # Free BY PoolAssumption
  <2>4. Pooled' = {} /\ unused_rasters_' \in Seq(Raster) BY DEF Pooled, ToSet
  <2>5. Distinct(unused_rasters_') BY DEF Distinct
  <2>6. /\ size' \in [ Raster -> Size \cup { Free } ]
        /\ content' \in [ Raster -> Content \cup { Free } ]
        /\ frozen_hash_' \in [ Raster -> Content \cup { Free } ]
        /\ size'[r] = s /\ content'[r] = c /\ frozen_hash_'[r] = Free
        /\ \A q \in Raster : q # r /\ q \notin Pooled =>
             /\ size'[q] = size[q]
             /\ content'[q] = content[q]
             /\ frozen_hash_'[q] = frozen_hash_[q]
    BY <1>0, <2>2 DEF TypeOK
  <2>7. \A q \in Raster : size'[q] = Free <=> content'[q] = Free
    BY <1>0, <2>2, <2>3 DEF TypeOK
  <2> QED BY <2>1, <2>4, <2>5, <2>6, <2>7 DEF Taken
<1> QED BY <1>1, <1>2, <1>3

-----------------------------------------------------------------------------
(* The invariant, one lemma for each action that can disturb it.             *)
LEMMA MakeKeepsInv ==
  ASSUME Inv, NEW h \in Handle, NEW s \in Size, Make(h, s)
  PROVE  Inv'
<1>1. PICK r \in Raster :
        /\ TakeNew(r, s) \/ TakeUnused(r, s) \/ TakeResized(r, s)
        /\ handle' = [ handle EXCEPT ![h] = [ raster |-> r, size |-> s, frozen |-> FALSE ] ]
  BY DEF Make
<1>2. Taken(r, s) BY <1>1, TakeGives
<1>3. /\ handle[h] = Free /\ dying' = dying /\ cleared' = cleared /\ told' = told
      /\ TypeOK /\ OnePlace /\ HeldInv /\ HashInv
  BY DEF Make, Inv
<1>0. [ raster |-> r, size |-> s, frozen |-> FALSE ] \in Hold BY DEF Hold
<1>4. /\ handle' \in [ Handle -> Hold \cup { Free } ]
      /\ handle'[h] = [ raster |-> r, size |-> s, frozen |-> FALSE ]
      /\ handle'[h] # Free
      /\ \A g \in Handle : g # h => handle'[g] = handle[g]
  BY <1>0, <1>1, <1>3, PoolAssumption DEF TypeOK, Hold
<1>5. \A g \in Handle : handle[g] # Free =>
        /\ handle[g] \in Hold /\ handle[g].raster \in Raster
        /\ handle[g].raster # r /\ g # h
        /\ handle[g].raster \notin Pooled
        /\ g \in Holders(handle[g].raster)
  BY <1>2, <1>3 DEF TypeOK, Hold, Taken, Holders, OnePlace
<1>6. /\ Holders(r)' = {h}
      /\ \A q \in Raster : q # r => Holders(q)' = Holders(q)
  BY <1>3, <1>4, <1>5 DEF Holders
<1>7. TypeOK' BY <1>2, <1>3, <1>4 DEF TypeOK, Taken
<1>8. Pooled \subseteq Raster BY <1>3, Elements DEF TypeOK, Pooled
<1>9. OnePlace'
  <2>1. ASSUME NEW q \in (Pooled \cup dying \cup cleared)'
        PROVE  Holders(q)' = {} /\ size'[q] # Free
    <3>1. q \in Pooled \cup dying \cup cleared /\ q # r /\ q \in Raster
      BY <1>2, <1>3, <1>8, <2>1 DEF Taken, TypeOK
    <3>2. Holders(q)' = {} BY <1>3, <1>6, <3>1 DEF OnePlace
    <3>3. size'[q] # Free
      BY <1>2, <1>3, <2>1, <3>1 DEF Taken, OnePlace
    <3> QED BY <3>2, <3>3
  <2> QED BY <1>2, <1>3, <2>1 DEF OnePlace, Taken
<1>10. HeldInv'
  <2> SUFFICES ASSUME NEW g \in Handle, handle'[g] # Free
               PROVE  /\ size'[handle'[g].raster] = handle'[g].size
                      /\ ~ handle'[g].frozen => Holders(handle[g].raster)' = {g}
                      /\ \A k \in Holders(handle[g].raster)' : handle'[k] = handle'[g]
    BY DEF HeldInv
  <2>1. CASE g = h BY <1>2, <1>4, <1>6, <2>1 DEF Taken
  <2>2. CASE g # h
    <3>1. handle'[g] = handle[g] /\ handle[g] # Free BY <1>4, <2>2
    <3>2. Holders(handle[g].raster)' = Holders(handle[g].raster)
      BY <1>5, <1>6, <3>1
    <3>3. \A k \in Holders(handle[g].raster) : handle'[k] = handle[k]
      BY <1>3, <1>4 DEF Holders
    <3> QED BY <1>2, <1>3, <1>5, <3>1, <3>2, <3>3, SMTT(30) DEF HeldInv, Taken
  <2> QED BY <2>1, <2>2
<1>11. HashInv'
  <2>1. ASSUME NEW q \in (Pooled \cup cleared)' PROVE frozen_hash_'[q] = Free
    <3>1. CASE q \in Pooled' BY <1>2, <3>1 DEF Taken
    <3>2. CASE q \notin Pooled'
      <4>1. q \in cleared /\ q # r /\ q \in Raster /\ q \notin Pooled
        BY <1>2, <1>3, <2>1, <3>2 DEF Taken, OnePlace, TypeOK
      <4> QED BY <1>2, <1>3, <4>1 DEF Taken, HashInv
    <3> QED BY <3>1, <3>2
  <2>2. ASSUME NEW g \in Handle, handle'[g] # Free
        PROVE  frozen_hash_'[handle'[g].raster] \in
                 IF handle'[g].frozen THEN { Free, content'[handle'[g].raster] }
                                      ELSE { Free }
    <3>1. CASE g = h BY <1>2, <1>4, <3>1 DEF Taken
    <3>2. CASE g # h
      <4>1. handle'[g] = handle[g] /\ handle[g] # Free BY <1>4, <2>2, <3>2
      <4> QED BY <1>2, <1>3, <1>5, <4>1, ZenonT(30) DEF Taken, HashInv
    <3> QED BY <3>1, <3>2
  <2> QED BY <2>1, <2>2 DEF HashInv
<1> QED BY <1>7, <1>9, <1>10, <1>11 DEF Inv

(* What every handle in use satisfies.                                       *)
LEMMA HeldFacts ==
  ASSUME Inv, NEW h \in Handle, handle[h] # Free
  PROVE  /\ handle[h] \in Hold
         /\ handle[h].raster \in Raster
         /\ handle[h].frozen \in BOOLEAN
         /\ h \in Holders(handle[h].raster)
         /\ handle[h].raster \notin Pooled \cup dying \cup cleared
         /\ size[handle[h].raster] = handle[h].size
         /\ size[handle[h].raster] \in Size
         /\ content[handle[h].raster] \in Content
         /\ Pooled \subseteq Raster
<1>1. handle[h] \in Hold BY DEF Inv, TypeOK
<1>2. h \in Holders(handle[h].raster) BY DEF Holders
<1>3. handle[h].raster \notin Pooled \cup dying \cup cleared
  BY <1>2 DEF Inv, OnePlace
<1>4. size[handle[h].raster] = handle[h].size BY DEF Inv, HeldInv
<1>5. handle[h].raster \in Raster /\ handle[h].size \in Size
      /\ handle[h].frozen \in BOOLEAN
  BY <1>1 DEF Hold
<1>6. content[handle[h].raster] \in Content
  BY <1>4, <1>5, PoolAssumption DEF Inv, TypeOK
<1>7. Pooled \subseteq Raster BY Elements DEF Inv, TypeOK, Pooled
<1> QED BY <1>1, <1>2, <1>3, <1>4, <1>5, <1>6, <1>7

LEMMA WriteKeepsInv ==
  ASSUME Inv, NEW h \in Handle, NEW c \in Content, Write(h, c)
  PROVE  Inv'
<1> USE DEF Write
<1>1. TypeOK /\ OnePlace /\ HeldInv /\ HashInv BY DEF Inv
<1>2. /\ handle[h].raster \in Raster
      /\ size[handle[h].raster] \in Size
  BY HeldFacts
<1>3. TypeOK' BY <1>1, <1>2, PoolAssumption DEF TypeOK
<1>4. OnePlace' BY <1>1 DEF OnePlace, Pooled, Holders
<1>5. HeldInv' BY <1>1 DEF HeldInv, Holders
<1>6. ASSUME NEW g \in Handle, handle[g] # Free
      PROVE  frozen_hash_[handle[g].raster] \in
               IF handle[g].frozen THEN { Free, content'[handle[g].raster] }
                                   ELSE { Free }
  <2>1. CASE ~ handle[g].frozen BY <1>1, <1>6, <2>1 DEF HashInv
  <2>2. CASE handle[g].frozen
    <3>1. handle[g].raster # handle[h].raster
      <4>1. ASSUME handle[g].raster = handle[h].raster PROVE FALSE
        <5>1. g \in Holders(handle[h].raster) BY <1>6, <4>1 DEF Holders
        <5>2. handle[g] = handle[h] BY <1>1, <5>1 DEF HeldInv
        <5> QED BY <2>2, <5>2
      <4> QED BY <4>1
    <3>2. content'[handle[g].raster] = content[handle[g].raster]
      BY <1>1, <1>6, <3>1, HeldFacts DEF TypeOK
    <3> QED BY <1>1, <1>6, <2>2, <3>2 DEF HashInv
  <2> QED BY <2>1, <2>2
<1>7. HashInv' BY <1>1, <1>6 DEF HashInv, Pooled
<1> QED BY <1>3, <1>4, <1>5, <1>7 DEF Inv

LEMMA FreezeKeepsInv ==
  ASSUME Inv, NEW h \in Handle, Freeze(h)
  PROVE  Inv'
<1> USE DEF Freeze
<1>1. TypeOK /\ OnePlace /\ HeldInv /\ HashInv BY DEF Inv
<1> DEFINE r == handle[h].raster
<1>2. handle[h] \in Hold /\ Holders(r) = {h} BY <1>1, HeldFacts DEF HeldInv
<1>3. [ handle[h] EXCEPT !.frozen = TRUE ] \in Hold BY <1>2 DEF Hold
<1>4. /\ handle' \in [ Handle -> Hold \cup { Free } ]
      /\ handle'[h] # Free
      /\ handle'[h].raster = r /\ handle'[h].size = handle[h].size
      /\ handle'[h].frozen = TRUE
      /\ \A g \in Handle : g # h => handle'[g] = handle[g]
  BY <1>1, <1>2, <1>3, PoolAssumption DEF TypeOK, Hold
<1>5. \A q : Holders(q)' = Holders(q) BY <1>4 DEF Holders
<1>6. TypeOK' BY <1>1, <1>4 DEF TypeOK
<1>7. OnePlace' BY <1>1, <1>5 DEF OnePlace, Pooled
<1>8. HeldInv'
  <2> SUFFICES ASSUME NEW g \in Handle, handle'[g] # Free
               PROVE  /\ size'[handle'[g].raster] = handle'[g].size
                      /\ ~ handle'[g].frozen => Holders(handle[g].raster)' = {g}
                      /\ \A k \in Holders(handle[g].raster)' : handle'[k] = handle'[g]
    BY DEF HeldInv
  <2>1. CASE g = h BY <1>1, <1>2, <1>4, <1>5, <2>1 DEF HeldInv
  <2>2. CASE g # h
    <3>1. handle'[g] = handle[g] /\ handle[g] # Free BY <1>4, <2>2
    <3>2. h \notin Holders(handle[g].raster)
      <4>1. ASSUME h \in Holders(handle[g].raster) PROVE FALSE
        <5>1. handle[g].raster = r BY <4>1 DEF Holders
        <5>2. g \in Holders(r) BY <3>1, <5>1 DEF Holders
        <5> QED BY <1>2, <2>2, <5>2
      <4> QED BY <4>1
    <3>3. \A k \in Holders(handle[g].raster) : handle'[k] = handle[k]
      BY <1>4, <3>2 DEF Holders
    <3> QED BY <1>1, <1>5, <3>1, <3>3 DEF HeldInv
  <2> QED BY <2>1, <2>2
<1>9. HashInv'
  <2>1. ASSUME NEW g \in Handle, handle'[g] # Free
        PROVE  frozen_hash_'[handle'[g].raster] \in
                 IF handle'[g].frozen THEN { Free, content'[handle'[g].raster] }
                                      ELSE { Free }
    <3>1. CASE g = h
      <4>1. frozen_hash_[r] = Free BY <1>1 DEF HashInv
      <4> QED BY <1>4, <3>1, <4>1
    <3>2. CASE g # h BY <1>1, <1>4, <2>1, <3>2 DEF HashInv
    <3> QED BY <3>1, <3>2
  <2> QED BY <1>1, <2>1 DEF HashInv, Pooled
<1> QED BY <1>6, <1>7, <1>8, <1>9 DEF Inv

LEMMA CopyKeepsInv ==
  ASSUME Inv, NEW g \in Handle, NEW h \in Handle, Copy(g, h)
  PROVE  Inv'
<1> USE DEF Copy
<1>1. TypeOK /\ OnePlace /\ HeldInv /\ HashInv BY DEF Inv
<1> DEFINE r == handle[g].raster
<1>2. /\ handle[g] \in Hold /\ g \in Holders(r)
      /\ r \notin Pooled \cup dying \cup cleared
  BY HeldFacts
<1>3. /\ handle' \in [ Handle -> Hold \cup { Free } ]
      /\ handle'[h] = handle[g]
      /\ \A k \in Handle : k # h => handle'[k] = handle[k]
  BY <1>1, <1>2 DEF TypeOK
<1>4. /\ Holders(r)' = Holders(r) \cup {h}
      /\ \A q : q # r => Holders(q)' = Holders(q)
  BY <1>3 DEF Holders
<1>5. TypeOK' BY <1>1, <1>3 DEF TypeOK
<1>6. OnePlace' BY <1>1, <1>2, <1>4 DEF OnePlace, Pooled
<1>7. ASSUME NEW k \in Handle, handle'[k] # Free
      PROVE  \E j \in Handle : handle[j] # Free /\ handle'[k] = handle[j]
  BY <1>3, <1>7
<1>8. HeldInv'
  <2> SUFFICES ASSUME NEW k \in Handle, handle'[k] # Free
               PROVE  /\ size'[handle'[k].raster] = handle'[k].size
                      /\ ~ handle'[k].frozen => Holders(handle[k].raster)' = {k}
                      /\ \A j \in Holders(handle[k].raster)' : handle'[j] = handle'[k]
    BY DEF HeldInv
  <2>1. CASE handle'[k].raster = r
    <3>1. handle'[k] = handle[g]
      <4>1. CASE k = h BY <1>3, <4>1
      <4>2. CASE k # h
        <5>1. k \in Holders(r) BY <1>3, <2>1, <4>2 DEF Holders
        <5> QED BY <1>1, <1>3, <4>2, <5>1 DEF HeldInv
      <4> QED BY <4>1, <4>2
    <3>2. \A j \in Holders(r) \cup {h} : handle'[j] = handle[g]
      BY <1>1, <1>3 DEF HeldInv, Holders
    <3> QED BY <1>1, <1>4, <2>1, <3>1, <3>2 DEF HeldInv
  <2>2. CASE handle'[k].raster # r
    <3>1. k # h /\ handle'[k] = handle[k] BY <1>3, <2>2
    <3>2. Holders(handle[k].raster)' = Holders(handle[k].raster)
      BY <1>4, <2>2, <3>1
    <3>3. \A j \in Holders(handle[k].raster) : handle'[j] = handle[j]
      BY <1>3 DEF Holders
    <3> QED BY <1>1, <3>1, <3>2, <3>3 DEF HeldInv
  <2> QED BY <2>1, <2>2
<1>9. HashInv' BY <1>1, <1>7 DEF HashInv, Pooled
<1> QED BY <1>5, <1>6, <1>8, <1>9 DEF Inv

LEMMA HashKeepsInv ==
  ASSUME Inv, NEW h \in Handle, Hash(h)
  PROVE  Inv' /\ told' = [ handle |-> h, hash |-> content[handle[h].raster] ]
<1> USE DEF Hash
<1>1. TypeOK /\ OnePlace /\ HeldInv /\ HashInv BY DEF Inv
<1> DEFINE r == handle[h].raster
<1>2. /\ r \in Raster /\ content[r] \in Content
      /\ r \notin Pooled \cup dying \cup cleared
  BY HeldFacts
<1>3. HashOf(r) = content[r] BY <1>1 DEF HashOf, HashInv
<1>4. frozen_hash_' \in [ Raster -> Content \cup { Free } ]
      /\ frozen_hash_'[r] = content[r]
      /\ \A q \in Raster : q # r => frozen_hash_'[q] = frozen_hash_[q]
  BY <1>1, <1>2, <1>3 DEF TypeOK
<1>5. told' = [ handle |-> h, hash |-> content[r] ] BY <1>3
<1>6. told' \in [ handle : Handle, hash : Content ] BY <1>2, <1>5
<1>7. TypeOK' BY <1>1, <1>4, <1>6 DEF TypeOK
<1>8. OnePlace' BY <1>1 DEF OnePlace, Pooled, Holders
<1>9. HeldInv' BY <1>1 DEF HeldInv, Holders
<1>10. HashInv'
  <2>1. ASSUME NEW q \in (Pooled \cup cleared)' PROVE frozen_hash_'[q] = Free
    <3>1. q \in Pooled \cup cleared /\ q # r BY <1>2, <2>1 DEF Pooled
    <3>2. q \in Raster BY <1>1, <3>1, Elements DEF TypeOK, Pooled
    <3> QED BY <1>1, <1>4, <3>1, <3>2 DEF HashInv
  <2>2. ASSUME NEW g \in Handle, handle[g] # Free
        PROVE  frozen_hash_'[handle[g].raster] \in
                 IF handle[g].frozen THEN { Free, content[handle[g].raster] }
                                     ELSE { Free }
    <3>1. CASE handle[g].raster = r
      <4>1. g \in Holders(r) BY <2>2, <3>1 DEF Holders
      <4>2. handle[g] = handle[h] BY <1>1, <4>1 DEF HeldInv
      <4> QED BY <1>4, <4>2
    <3>2. CASE handle[g].raster # r
      <4>1. handle[g].raster \in Raster BY <2>2, HeldFacts
      <4> QED BY <1>1, <1>4, <2>2, <3>2, <4>1 DEF HashInv
    <3> QED BY <3>1, <3>2
  <2> QED BY <2>1, <2>2 DEF HashInv
<1> QED BY <1>5, <1>7, <1>8, <1>9, <1>10 DEF Inv

LEMMA DropKeepsInv ==
  ASSUME Inv, NEW h \in Handle, Drop(h)
  PROVE  Inv'
<1> USE DEF Drop
<1>1. TypeOK /\ OnePlace /\ HeldInv /\ HashInv BY DEF Inv
<1> DEFINE r == handle[h].raster
<1>2. /\ r \in Raster /\ size[r] \in Size /\ h \in Holders(r)
      /\ r \notin Pooled \cup dying \cup cleared
  BY HeldFacts
<1>3. /\ handle' \in [ Handle -> Hold \cup { Free } ]
      /\ handle'[h] = Free
      /\ \A g \in Handle : g # h => handle'[g] = handle[g]
  BY <1>1 DEF TypeOK
<1>4. \A q : Holders(q)' = Holders(q) \ {h} BY <1>3 DEF Holders
<1>5. dying' \subseteq dying \cup {r} /\ (r \in dying' => Holders(r) = {h})
  BY <1>2 DEF IsLast
<1>6. TypeOK' BY <1>1, <1>2, <1>3, <1>5 DEF TypeOK
<1>7. OnePlace'
  <2>1. ASSUME NEW q \in (Pooled \cup dying \cup cleared)'
        PROVE  Holders(q)' = {} /\ size'[q] # Free
    <3>1. CASE q = r
      <4>1. r \in dying' BY <1>2, <2>1, <3>1 DEF Pooled
      <4> QED BY <1>2, <1>4, <1>5, <3>1, <4>1, PoolAssumption
    <3>2. CASE q # r
      <4>1. q \in Pooled \cup dying \cup cleared BY <1>5, <2>1, <3>2 DEF Pooled
      <4> QED BY <1>1, <1>4, <4>1 DEF OnePlace
    <3> QED BY <3>1, <3>2
  <2>2. Pooled' = Pooled BY DEF Pooled
  <2> QED BY <1>1, <1>2, <1>5, <2>1, <2>2 DEF OnePlace
<1>8. HeldInv'
  <2> SUFFICES ASSUME NEW g \in Handle, handle'[g] # Free
               PROVE  /\ size'[handle'[g].raster] = handle'[g].size
                      /\ ~ handle'[g].frozen => Holders(handle[g].raster)' = {g}
                      /\ \A k \in Holders(handle[g].raster)' : handle'[k] = handle'[g]
    BY DEF HeldInv
  <2>1. g # h /\ handle'[g] = handle[g] BY <1>3
  <2>2. g \in Holders(handle[g].raster)' BY <2>1 DEF Holders
  <2>3. \A k \in Holders(handle[g].raster)' : k # h /\ handle'[k] = handle[k]
    BY <1>3, <1>4 DEF Holders
  <2> QED BY <1>1, <1>4, <2>1, <2>2, <2>3 DEF HeldInv
<1>9. HashInv' BY <1>1, <1>3 DEF HashInv, Pooled
<1> QED BY <1>6, <1>7, <1>8, <1>9 DEF Inv

LEMMA ResetCacheKeepsInv ==
  ASSUME Inv, NEW r \in Raster, ResetCache(r)
  PROVE  Inv'
<1> USE DEF ResetCache
<1>1. TypeOK /\ OnePlace /\ HeldInv /\ HashInv BY DEF Inv
<1>2. \A q : Holders(q)' = Holders(q) BY DEF Holders
<1>3. /\ frozen_hash_' \in [ Raster -> Content \cup { Free } ]
      /\ frozen_hash_'[r] = Free
      /\ \A q \in Raster : q # r => frozen_hash_'[q] = frozen_hash_[q]
  BY <1>1 DEF TypeOK
<1>4. TypeOK' BY <1>1, <1>3 DEF TypeOK
<1>5. OnePlace' BY <1>1, <1>2 DEF OnePlace, Pooled
<1>6. HeldInv' BY <1>1, <1>2 DEF HeldInv
<1>7. HashInv'
  <2>1. Pooled \subseteq Raster /\ Pooled' = Pooled
    BY <1>1, Elements DEF TypeOK, Pooled
  <2>2. \A q \in (Pooled \cup cleared)' : frozen_hash_'[q] = Free
    BY <1>1, <1>3, <2>1 DEF HashInv, TypeOK
  <2>3. ASSUME NEW g \in Handle, handle[g] # Free
        PROVE  frozen_hash_'[handle[g].raster] = frozen_hash_[handle[g].raster]
    BY <1>3, <2>3, HeldFacts
  <2> QED BY <1>1, <2>2, <2>3 DEF HashInv
<1> QED BY <1>4, <1>5, <1>6, <1>7 DEF Inv

LEMMA FreeRasterKeepsInv ==
  ASSUME Inv, NEW r \in Raster, FreeRaster(r)
  PROVE  Inv'
<1> USE DEF FreeRaster
<1>1. TypeOK /\ OnePlace /\ HeldInv /\ HashInv BY DEF Inv
<1>2. \A q : Holders(q)' = Holders(q) BY DEF Holders
<1>3. /\ unused_rasters_' \in Seq(Raster)
      /\ Distinct(unused_rasters_')
      /\ Pooled' = Pooled \cup {r}
  <2>1. r \notin ToSet(unused_rasters_) BY <1>1 DEF OnePlace, Pooled
  <2> QED BY <1>1, <2>1, PushSet DEF TypeOK, OnePlace, Pooled
<1>4. TypeOK' BY <1>1, <1>3 DEF TypeOK
<1>5. OnePlace' BY <1>1, <1>2, <1>3 DEF OnePlace
<1>6. HeldInv' BY <1>1, <1>2 DEF HeldInv
<1>7. HashInv' BY <1>1, <1>3 DEF HashInv
<1> QED BY <1>4, <1>5, <1>6, <1>7 DEF Inv

LEMMA StepInv == Inv /\ [Next]_vars => Inv'
<1> SUFFICES ASSUME Inv, [Next]_vars PROVE Inv' OBVIOUS
<1>1. ASSUME NEW h \in Handle, NEW s \in Size, Make(h, s) PROVE Inv'
  BY <1>1, MakeKeepsInv
<1>2. ASSUME NEW h \in Handle, NEW c \in Content, Write(h, c) PROVE Inv'
  BY <1>2, WriteKeepsInv
<1>3. ASSUME NEW h \in Handle, Freeze(h) \/ Hash(h) \/ Drop(h) PROVE Inv'
  BY <1>3, FreezeKeepsInv, HashKeepsInv, DropKeepsInv
<1>4. ASSUME NEW h \in Handle, NEW g \in Handle, Copy(g, h) PROVE Inv'
  BY <1>4, CopyKeepsInv
<1>5. ASSUME NEW r \in Raster, ResetCache(r) \/ FreeRaster(r) PROVE Inv'
  BY <1>5, ResetCacheKeepsInv, FreeRasterKeepsInv
<1>6. CASE UNCHANGED vars
  <2> USE <1>6 DEF vars
  <2>1. Pooled' = Pooled /\ \A r : Holders(r)' = Holders(r)
    BY DEF Pooled, Holders
  <2>2. TypeOK' BY DEF Inv, TypeOK
  <2>3. OnePlace' BY <2>1 DEF Inv, OnePlace
  <2>4. HeldInv' BY <2>1 DEF Inv, HeldInv
  <2>5. HashInv' BY <2>1 DEF Inv, HashInv
  <2> QED BY <2>2, <2>3, <2>4, <2>5 DEF Inv
<1> QED BY <1>1, <1>2, <1>3, <1>4, <1>5, <1>6 DEF Next

(* A raster is in use, on its way back or pooled, never two of these, and    *)
(* is in the queue only once.                                                *)
THEOREM PlacesDisjoint == Spec => []OnePlace
<1>1. Inv => OnePlace BY DEF Inv
<1> QED BY <1>1, InitInv, StepInv, PTL DEF Spec

(* A handle's raster keeps its size and is shared only when constant.        *)
THEOREM HandlesKeepRasters == Spec => []HeldInv
<1>1. Inv => HeldInv BY DEF Inv
<1> QED BY <1>1, InitInv, StepInv, PTL DEF Spec

(* No cached hash is stale: not in the pool, not in use.                     *)
THEOREM HashesFresh == Spec => []HashInv
<1>1. Inv => HashInv BY DEF Inv
<1> QED BY <1>1, InitInv, StepInv, PTL DEF Spec

-----------------------------------------------------------------------------
(* The refinement.  A step changes what its own handle shows and nothing     *)
(* that another handle shows.                                                *)
shown == [ h \in Handle |-> ShownBy(handle[h]) ]

LEMMA ShownFacts ==
  ASSUME Inv, NEW h \in Handle
  PROVE  /\ shown[h] = Free <=> handle[h] = Free
         /\ handle[h] # Free =>
              /\ shown[h] \in Values!Picture
              /\ shown[h].frozen = handle[h].frozen
              /\ shown[h].content = content[handle[h].raster]
<1>1. CASE handle[h] = Free BY <1>1 DEF shown, ShownBy
<1>2. CASE handle[h] # Free
  <2> DEFINE p == [ size |-> size[handle[h].raster],
                    content |-> content[handle[h].raster],
                    frozen |-> handle[h].frozen ]
  <2>1. shown[h] = p BY <1>2 DEF shown, ShownBy
  <2>2. p \in Values!Picture
    BY <1>2, HeldFacts DEF Values!Picture
  <2>3. p # Free BY <2>2, PoolAssumption DEF Values!Picture
  <2> QED BY <1>2, <2>1, <2>2, <2>3
<1> QED BY <1>1, <1>2

LEMMA InitRefines == Init => Values!Init
<1> SUFFICES ASSUME Init PROVE Values!Init OBVIOUS
<1>1. \A h \in Handle : ShownBy(handle[h]) = Free BY DEF Init, ShownBy
<1> QED BY <1>1 DEF Init, Values!Init

(* What is untouched shows the same picture.                                 *)
LEMMA SameShown ==
  ASSUME NEW g \in Handle, handle'[g] = handle[g],
         handle[g] # Free => /\ size'[handle[g].raster] = size[handle[g].raster]
                             /\ content'[handle[g].raster] = content[handle[g].raster]
  PROVE  shown'[g] = shown[g]
BY DEF shown, ShownBy

LEMMA MakeRefines ==
  ASSUME Inv, Inv', NEW h \in Handle, NEW s \in Size, Make(h, s)
  PROVE  Values!Make(h)
<1>1. PICK r \in Raster :
        /\ TakeNew(r, s) \/ TakeUnused(r, s) \/ TakeResized(r, s)
        /\ handle' = [ handle EXCEPT ![h] = [ raster |-> r, size |-> s, frozen |-> FALSE ] ]
  BY DEF Make
<1>2. Taken(r, s) BY <1>1, TakeGives
<1>3. handle[h] = Free /\ told' = told BY DEF Make
<1>4. handle \in [ Handle -> Hold \cup { Free } ] BY DEF Inv, TypeOK
<1>5. /\ handle'[h] = [ raster |-> r, size |-> s, frozen |-> FALSE ]
      /\ \A g \in Handle : g # h => handle'[g] = handle[g]
  BY <1>1, <1>4
<1> DEFINE p == [ size |-> s, content |-> content'[r], frozen |-> FALSE ]
<1>6. shown'[h] = p
  <2>1. [ raster |-> r, size |-> s, frozen |-> FALSE ]
          \in [ raster : Raster, size : Size, frozen : BOOLEAN ]
    OBVIOUS
  <2>2. handle'[h] # Free BY <1>5, <2>1, PoolAssumption
  <2>3. handle'[h].raster = r /\ handle'[h].frozen = FALSE BY <1>5
  <2>4. shown'[h] = [ size |-> size'[r], content |-> content'[r], frozen |-> FALSE ]
    BY <2>2, <2>3 DEF shown, ShownBy
  <2> QED BY <1>2, <2>4 DEF Taken
<1>7. ASSUME NEW g \in Handle, g # h PROVE shown'[g] = shown[g]
  <2>1. handle[g] # Free =>
          /\ handle[g].raster \in Raster
          /\ handle[g].raster \notin Pooled
          /\ handle[g].raster # r
    BY <1>2, HeldFacts DEF Taken
  <2>2. handle[g] # Free => /\ size'[handle[g].raster] = size[handle[g].raster]
                            /\ content'[handle[g].raster] = content[handle[g].raster]
    BY <1>2, <2>1 DEF Taken
  <2> QED BY <1>5, <1>7, <2>2, SameShown
<1>8. p \in Values!Picture /\ ~ p.frozen BY <1>2 DEF Values!Picture, Taken
<1>9. shown' = [ shown EXCEPT ![h] = p ] BY <1>6, <1>7 DEF shown
<1>10. shown[h] = Free BY <1>3, ShownFacts
<1> QED BY <1>3, <1>8, <1>9, <1>10 DEF Values!Make, shown

LEMMA WriteRefines ==
  ASSUME Inv, NEW h \in Handle, NEW c \in Content, Write(h, c)
  PROVE  Values!Write(h)
<1> USE DEF Write
<1>1. handle[h].raster \in Raster /\ HeldInv BY HeldFacts DEF Inv
<1>2. /\ content'[handle[h].raster] = c
      /\ \A q \in Raster : q # handle[h].raster => content'[q] = content[q]
  BY <1>1 DEF Inv, TypeOK
<1>3. shown'[h] = [ shown[h] EXCEPT !.content = c ]
  BY <1>2 DEF shown, ShownBy
<1>4. ASSUME NEW g \in Handle, g # h PROVE shown'[g] = shown[g]
  <2>1. ASSUME handle[g] # Free PROVE handle[g].raster # handle[h].raster
    <3>1. ASSUME handle[g].raster = handle[h].raster PROVE FALSE
      <4>1. g \in Holders(handle[h].raster) BY <2>1, <3>1 DEF Holders
      <4>2. Holders(handle[h].raster) = {h} BY <1>1 DEF HeldInv
      <4> QED BY <1>4, <4>1, <4>2
    <3> QED BY <3>1
  <2>2. handle[g] # Free => content'[handle[g].raster] = content[handle[g].raster]
    BY <1>2, <2>1, HeldFacts
  <2> QED BY <2>2, SameShown
<1>5. shown' = [ shown EXCEPT ![h].content = c ] BY <1>3, <1>4 DEF shown
<1>6. shown[h] # Free /\ ~ shown[h].frozen BY ShownFacts
<1> QED BY <1>5, <1>6 DEF Values!Write, shown

LEMMA FreezeRefines ==
  ASSUME Inv, NEW h \in Handle, Freeze(h)
  PROVE  Values!Freeze(h)
<1> USE DEF Freeze
<1>0. /\ handle \in [ Handle -> Hold \cup { Free } ]
      /\ handle[h] \in Hold
      /\ [ handle[h] EXCEPT !.frozen = TRUE ] \in Hold
  BY HeldFacts DEF Inv, TypeOK, Hold
<1>1. /\ handle'[h] # Free
      /\ handle'[h].raster = handle[h].raster
      /\ handle'[h].frozen = TRUE
      /\ \A g \in Handle : g # h => handle'[g] = handle[g]
  BY <1>0, PoolAssumption DEF Hold
<1> DEFINE r == handle[h].raster
<1>2. shown'[h] = [ shown[h] EXCEPT !.frozen = TRUE ]
  <2>1. shown[h] = [ size |-> size[r], content |-> content[r], frozen |-> FALSE ]
    BY HeldFacts DEF shown, ShownBy
  <2>2. shown'[h] = [ size |-> size[r], content |-> content[r], frozen |-> TRUE ]
    BY <1>1 DEF shown, ShownBy
  <2> DEFINE p == [ size |-> size[r], content |-> content[r], frozen |-> FALSE ]
  <2>3. \A x, y : [ [ size |-> size[r], content |-> content[r], frozen |-> x ]
                    EXCEPT !.frozen = y ]
                  = [ size |-> size[r], content |-> content[r], frozen |-> y ]
    OBVIOUS
  <2>4. [ p EXCEPT !.frozen = TRUE ]
          = [ size |-> size[r], content |-> content[r], frozen |-> TRUE ]
    BY <2>3, Zenon
  <2> QED BY <2>1, <2>2, <2>4, Zenon
<1>3. \A g \in Handle : g # h => shown'[g] = shown[g]
  BY <1>1, SameShown
<1>4. shown' = [ shown EXCEPT ![h].frozen = TRUE ] BY <1>2, <1>3 DEF shown
<1>5. shown[h] # Free /\ ~ shown[h].frozen BY ShownFacts
<1> QED BY <1>4, <1>5 DEF Values!Freeze, shown

LEMMA CopyRefines ==
  ASSUME Inv, NEW g \in Handle, NEW h \in Handle, Copy(g, h)
  PROVE  Values!Copy(g, h)
<1> USE DEF Copy
<1>1. /\ handle'[h] = handle[g]
      /\ \A k \in Handle : k # h => handle'[k] = handle[k]
  BY DEF Inv, TypeOK
<1>2. shown'[h] = shown[g] BY <1>1 DEF shown, ShownBy
<1>3. \A k \in Handle : k # h => shown'[k] = shown[k]
  BY <1>1, SameShown
<1>4. shown' = [ shown EXCEPT ![h] = shown[g] ] BY <1>2, <1>3 DEF shown
<1>5. shown[g] # Free /\ shown[g].frozen /\ shown[h] = Free BY ShownFacts
<1> QED BY <1>4, <1>5 DEF Values!Copy, shown

LEMMA HashRefines ==
  ASSUME Inv, NEW h \in Handle, Hash(h)
  PROVE  Values!Hash(h)
<1>1. told' = [ handle |-> h, hash |-> content[handle[h].raster] ]
  BY HashKeepsInv
<1>2. /\ shown[h] # Free /\ shown[h].frozen
      /\ shown[h].content = content[handle[h].raster]
  BY ShownFacts DEF Hash
<1>3. shown' = shown BY DEF shown, ShownBy, Hash
<1> QED BY <1>1, <1>2, <1>3 DEF Values!Hash, shown

LEMMA DropRefines ==
  ASSUME Inv, NEW h \in Handle, Drop(h)
  PROVE  Values!Drop(h)
<1> USE DEF Drop
<1>1. /\ handle'[h] = Free
      /\ \A g \in Handle : g # h => handle'[g] = handle[g]
  BY DEF Inv, TypeOK
<1>2. shown'[h] = Free BY <1>1 DEF shown, ShownBy
<1>3. \A g \in Handle : g # h => shown'[g] = shown[g]
  BY <1>1, SameShown
<1>4. shown' = [ shown EXCEPT ![h] = Free ] BY <1>2, <1>3 DEF shown
<1>5. shown[h] # Free BY ShownFacts
<1> QED BY <1>4, <1>5 DEF Values!Drop, shown

LEMMA StepRefines ==
  Inv /\ Inv' /\ [Next]_vars => [Values!Next]_<< shown, told >>
<1> SUFFICES ASSUME Inv, Inv', [Next]_vars
             PROVE  [Values!Next]_<< shown, told >>
  OBVIOUS
<1>1. ASSUME NEW h \in Handle, NEW s \in Size, Make(h, s) PROVE Values!Next
  BY <1>1, MakeRefines DEF Values!Next
<1>2. ASSUME NEW h \in Handle, NEW c \in Content, Write(h, c) PROVE Values!Next
  BY <1>2, WriteRefines DEF Values!Next
<1>3. ASSUME NEW h \in Handle, Freeze(h) PROVE Values!Next
  BY <1>3, FreezeRefines DEF Values!Next
<1>4. ASSUME NEW h \in Handle, Hash(h) PROVE Values!Next
  BY <1>4, HashRefines DEF Values!Next
<1>5. ASSUME NEW h \in Handle, Drop(h) PROVE Values!Next
  BY <1>5, DropRefines DEF Values!Next
<1>6. ASSUME NEW h \in Handle, NEW g \in Handle, Copy(g, h) PROVE Values!Next
  BY <1>6, CopyRefines DEF Values!Next
<1>7. ASSUME NEW r \in Raster, ResetCache(r) \/ FreeRaster(r)
      PROVE  shown' = shown /\ told' = told
  BY <1>7 DEF ResetCache, FreeRaster, shown, ShownBy
<1>8. CASE UNCHANGED vars
  BY <1>8 DEF vars, shown, ShownBy
<1> QED BY <1>1, <1>2, <1>3, <1>4, <1>5, <1>6, <1>7, <1>8 DEF Next

(* Every handle behaves as a value, whatever rasters are reused behind it.   *)
THEOREM PoolImplementsValues == Spec => HandlesAreValues
<1>1. Init => Values!Init BY InitRefines
<1>2. Inv /\ Inv' /\ [Next]_vars
      => [Values!Next]_<< [ h \in Handle |-> ShownBy(handle[h]) ], told >>
  BY StepRefines DEF shown
<1> QED BY <1>1, <1>2, InitInv, StepInv, PTL
        DEF Spec, HandlesAreValues, Values!Spec
=============================================================================
