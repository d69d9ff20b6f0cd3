------------------------ MODULE RebasedChunksProofs ------------------------
(***************************************************************************)
(* The video put together from rebased chunks decodes as its encoders      *)
(* meant it, for chunks of any number, length and content, provided that   *)
(* no frame of the chunks uses segmentation.                               *)
(***************************************************************************)
EXTENDS RebasedChunks, TLAPS

NoSegmentation == \A h \in SourceHeaders : h.segmentation = Off

-----------------------------------------------------------------------------
(* An Optional part of the state is empty or holds an adjustment.            *)
LEMMA AppliedType ==
  ASSUME NEW old \in Delta \cup { Off }, NEW new \in Delta \cup { Off, Keep }
  PROVE  Applied(old, new) \in Delta \cup { Off }
BY ValuesAssumption DEF Applied, Updated

(* Updating a table with a header gives a table, and doing it twice changes  *)
(* nothing more.                                                             *)
LEMMA TablesType ==
  ASSUME NEW t \in Tables, NEW h \in Header
  PROVE  /\ FrameTables(t, h) \in Tables
         /\ PersistentTables(t, h) \in Tables
         /\ FrameTables(FrameTables(t, h), h) = FrameTables(t, h)
         /\ FrameTables(PersistentTables(t, h), h) = FrameTables(t, h)
<1>1. FrameTables(t, h) \in Tables
  BY DEF FrameTables, Updated, Tables, Header
<1>2. FrameTables(FrameTables(t, h), h) = FrameTables(t, h)
  BY DEF FrameTables, Updated
<1> QED BY <1>1, <1>2 DEF PersistentTables

LEMMA DefaultsType == DefaultTables \in Tables
BY ValuesAssumption DEF DefaultTables, Tables

LEMMA KeyStateType ==
  ASSUME NEW h \in Header
  PROVE  KeyState(h) \in DecoderState
<1>1. /\ h.segmentation \in Delta \cup { Off, Keep }
      /\ h.lf \in Delta \cup { Off, Keep }
  BY DEF Header
<1>2. /\ Applied(Off, h.segmentation) \in Delta \cup { Off }
      /\ Applied(Off, h.lf) \in Delta \cup { Off }
  BY <1>1, AppliedType
<1> QED BY <1>2, DefaultsType DEF KeyState, DecoderState

LEMMA ParsedType ==
  ASSUME NEW s \in DecoderState, NEW h \in Header
  PROVE  ParseAndApply(s, h) \in DecoderState
<1>1. CASE h.key
  <2>1. PersistentTables(KeyState(h).tables, h) \in Tables
    BY DefaultsType, TablesType DEF KeyState
  <2> QED BY <1>1, <2>1, KeyStateType DEF ParseAndApply, DecoderState
<1>2. CASE ~ h.key
  <2>1. PersistentTables(s.tables, h) \in Tables
    BY TablesType DEF DecoderState
  <2>2. /\ Applied(s.segmentation, h.segmentation) \in Delta \cup { Off }
        /\ Applied(s.filter_adjustments, h.lf) \in Delta \cup { Off }
    BY AppliedType DEF DecoderState, Header
  <2> QED BY <1>2, <2>1, <2>2 DEF ParseAndApply, DecoderState
<1> QED BY <1>1, <1>2

(* The encoder's own code for a frame does what the decoder's code does,     *)
(* unless segmentation is in play.                                           *)
LEMMA SameState ==
  ASSUME NEW s \in DecoderState, NEW h \in Header,
         h.segmentation = Off, s.segmentation = Off
  PROVE  /\ UpdateDecoderState(s, h) = ParseAndApply(s, h)
         /\ ParseAndApply(s, h).segmentation = Off
<1>1. CASE h.key
  BY <1>1, ValuesAssumption DEF UpdateDecoderState, ParseAndApply, KeyState, Applied
<1>2. CASE ~ h.key
  <2>1. s = [ tables |-> s.tables, segmentation |-> s.segmentation,
              filter_adjustments |-> s.filter_adjustments ]
    BY DEF DecoderState
  <2>2. Applied(s.segmentation, h.segmentation) = Off
    BY ValuesAssumption DEF Applied
  <2>3. UpdateDecoderState(s, h) =
          [ tables |-> PersistentTables(s.tables, h),
            segmentation |-> Off,
            filter_adjustments |-> Applied(s.filter_adjustments, h.lf) ]
    BY <1>2, <2>1 DEF UpdateDecoderState
  <2> QED BY <1>2, <2>2, <2>3 DEF ParseAndApply
<1> QED BY <1>1, <1>2

(* A frame is read with the tables it was written with.                      *)
LEMMA SameTables ==
  ASSUME NEW s \in DecoderState, NEW h \in Header
  PROVE  FrameTables(ParseAndApply(s, h).tables, h) = ReadTables(s, h)
<1>1. s.tables \in Tables BY DEF DecoderState
<1>2. CASE h.key
  <2>1. ParseAndApply(s, h).tables = PersistentTables(DefaultTables, h)
    BY <1>2 DEF ParseAndApply, KeyState
  <2> QED BY <1>2, <2>1, TablesType, DefaultsType DEF ReadTables
<1>3. CASE ~ h.key
  <2>1. ParseAndApply(s, h).tables = PersistentTables(s.tables, h)
    BY <1>3 DEF ParseAndApply
  <2> QED BY <1>1, <1>3, <2>1, TablesType DEF ReadTables
<1> QED BY <1>2, <1>3

(* A frame that refreshes everything leaves three equal references.          *)
LEMMA AllRefreshed ==
  ASSUME NEW h, NEW p, NEW references,
         h.key \/ (h.refresh_last /\ h.refresh_golden /\ h.refresh_alternate)
  PROVE  CopyTo(h, p, references) = AllReferences(p)
BY DEF CopyTo, AllReferences, Reference

(* References come from the frame or from the references before it.          *)
LEMMA CopiedFrom ==
  ASSUME NEW h, NEW p, NEW references
  PROVE  /\ CopyTo(h, p, references) =
              [ r \in Reference |-> CopyTo(h, p, references)[r] ]
         /\ \A r \in Reference :
              CopyTo(h, p, references)[r] \in
                { p } \cup { references[q] : q \in Reference }
<1>1. CASE h.key
  BY <1>1 DEF CopyTo, AllReferences
<1>2. CASE ~ h.key
  BY <1>2 DEF CopyTo, Reference
<1> QED BY <1>1, <1>2

(* Three equal references survive the file.                                  *)
LEMMA Restored ==
  ASSUME NEW d, NEW p, IsDecoder(d), d.references = AllReferences(p)
  PROVE  Deserialize(Serialize(d)) = d
<1>1. d.references["last"] = p
  BY DEF AllReferences, Reference
<1> QED BY <1>1 DEF Deserialize, Serialize, IsDecoder

-----------------------------------------------------------------------------
NoneGarbled(references) == \A r \in Reference : references[r].body # Garbled

(* What a frame written by an encoder does to a decoder in the encoder's     *)
(* state: the decoder follows.                                               *)
Follows(e, chunk, next) ==
  /\ DecodeChunk(e, chunk) = next
  /\ IsDecoder(next)
  /\ next.state.segmentation = Off
  /\ NoneGarbled(e.references) => NoneGarbled(next.references)

LEMMA EncoderAgrees ==
  ASSUME NEW e, IsDecoder(e), e.state.segmentation = Off,
         NEW h \in Header, IsReadable(h), h.segmentation = Off,
         NEW b, b # Garbled
  PROVE  Follows(e, Written(e, h, b), AfterFrame(e, h, b))
<1> DEFINE s == ParseAndApply(e.state, h)
           p == Reconstruct(b, h, s, e.references)
           c == CopyTo(h, p, e.references)
<1>1. e.state \in DecoderState BY DEF IsDecoder
<1>2. UpdateDecoderState(e.state, h) = s /\ s.segmentation = Off
  BY <1>1, SameState
<1>3. s \in DecoderState BY <1>1, ParsedType
<1>4. AfterFrame(e, h, b) =
        [ state |-> s, references |-> c ]
  BY <1>2 DEF AfterFrame
<1>5. BodyRead(e.state, Written(e, h, b)) = b
  <2>1. Written(e, h, b) =
          [ header |-> h, body |-> b, tables |-> FrameTables(s.tables, h) ]
    BY <1>2 DEF Written, Chunk
  <2>2. FrameTables(s.tables, h) = ReadTables(e.state, h)
    BY <1>1, SameTables
  <2> QED BY <2>1, <2>2 DEF BodyRead
<1>6. DecodeChunk(e, Written(e, h, b)) =
        [ state |-> s, references |-> c ]
  <2>1. Written(e, h, b).header = h BY DEF Written, Chunk
  <2> QED BY <1>5, <2>1 DEF DecodeChunk, DecodeFrame
<1>7. c = [ r \in Reference |-> c[r] ] BY CopiedFrom
<1>8. IsDecoder(AfterFrame(e, h, b)) BY <1>3, <1>4, <1>7 DEF IsDecoder
<1>9. p.body # Garbled BY DEF Reconstruct
<1>10. NoneGarbled(e.references) => NoneGarbled(c)
  <2>1. \A r \in Reference : c[r] \in { p } \cup { e.references[q] : q \in Reference }
    BY CopiedFrom
  <2> QED BY <1>9, <2>1 DEF NoneGarbled
<1> HIDE DEF s, p, c
<1> QED BY <1>2, <1>4, <1>6, <1>8, <1>10 DEF Follows

(* The header a chunk ends with differs in what it refreshes, no more.       *)
LEMMA EndedHeader ==
  ASSUME NEW h \in Header, IsReadable(h), NEW last \in BOOLEAN,
         NEW s \in DecoderState
  PROVE  /\ Ended(h, last) \in Header
         /\ IsReadable(Ended(h, last))
         /\ Ended(h, last).key = h.key
         /\ Ended(h, last).segmentation = h.segmentation
         /\ ParseAndApply(s, Ended(h, last)) = ParseAndApply(s, h)
         /\ last => \/ Ended(h, last).key
                    \/ /\ Ended(h, last).refresh_last
                       /\ Ended(h, last).refresh_golden
                       /\ Ended(h, last).refresh_alternate
<1>1. CASE last /\ ~ h.key
  <2> DEFINE e == RefreshAll(h)
  <2>1. e \in Header BY DEF RefreshAll, Header, CopySource
  <2>2. /\ e.key = h.key /\ e.segmentation = h.segmentation
        /\ e.refresh_entropy_probs = h.refresh_entropy_probs
        /\ e.coeff = h.coeff /\ e.mode = h.mode /\ e.lf = h.lf
        /\ e.refresh_last = TRUE /\ e.refresh_golden = TRUE
        /\ e.refresh_alternate = TRUE
        /\ e.copy_golden = "absent" /\ e.copy_alternate = "absent"
    BY DEF RefreshAll, Header
  <2> HIDE DEF e
  <2>3. IsReadable(e) BY <2>2 DEF IsReadable
  <2>4. ParseAndApply(s, e) = ParseAndApply(s, h)
    BY <1>1, <2>2 DEF ParseAndApply, PersistentTables, FrameTables
  <2>5. Ended(h, last) = e BY <1>1 DEF Ended, e
  <2> QED BY <2>1, <2>2, <2>3, <2>4, <2>5
<1>2. CASE ~ (last /\ ~ h.key)
  BY <1>2 DEF Ended
<1> QED BY <1>1, <1>2

(* An ended frame leaves three equal references.                             *)
LEMMA EndedRefreshes ==
  ASSUME NEW h, h.key \/ (h.refresh_last /\ h.refresh_golden /\ h.refresh_alternate),
         NEW e, NEW b
  PROVE  \E p : AfterFrame(e, h, b).references = AllReferences(p)
<1> DEFINE p == Reconstruct(b, h, UpdateDecoderState(e.state, h), e.references)
<1>1. AfterFrame(e, h, b).references = CopyTo(h, p, e.references)
  BY DEF AfterFrame
<1>2. CopyTo(h, p, e.references) = AllReferences(p) BY AllRefreshed
<1> QED BY <1>1, <1>2

(* A search that leaves its filter adjustments behind does no harm when the  *)
(* frame's header holds the same ones.                                       *)
LEMMA TriedIsOverwritten ==
  ASSUME NEW e, IsDecoder(e), NEW h \in Header, ~ h.key, h.lf = Zero, NEW b
  PROVE  /\ AfterFrame(FilterTried(e), h, b) = AfterFrame(e, h, b)
         /\ Written(FilterTried(e), h, b) = Written(e, h, b)
<1> DEFINE t == FilterTried(e)
<1>1. e.state \in DecoderState BY DEF IsDecoder
<1>2. /\ t.references = e.references
      /\ t.state = [ e.state EXCEPT !.filter_adjustments = Zero ]
  BY DEF FilterTried, IsDecoder
<1>3. \A old \in Delta \cup { Off } : Applied(old, h.lf) = Zero
  BY ValuesAssumption DEF Applied, Updated
<1>4. /\ t.state.filter_adjustments \in Delta \cup { Off }
      /\ e.state.filter_adjustments \in Delta \cup { Off }
      /\ t.state.tables = e.state.tables
      /\ t.state.segmentation = e.state.segmentation
  BY <1>1, <1>2, ValuesAssumption DEF DecoderState
<1>5. \A s \in DecoderState :
        UpdateDecoderState(s, h) =
          [ tables |-> PersistentTables(s.tables, h),
            segmentation |-> s.segmentation,
            filter_adjustments |-> Applied(s.filter_adjustments, h.lf) ]
  BY DEF UpdateDecoderState, DecoderState
<1>6. t.state \in DecoderState
  BY <1>1, <1>2, ValuesAssumption DEF DecoderState
<1>7. UpdateDecoderState(t.state, h) = UpdateDecoderState(e.state, h)
  BY <1>1, <1>3, <1>4, <1>5, <1>6
<1> HIDE DEF t
<1>8. /\ AfterFrame(t, h, b) = AfterFrame(e, h, b)
      /\ Written(t, h, b) = Written(e, h, b)
  BY <1>2, <1>7 DEF AfterFrame, Written
<1> QED BY <1>8 DEF t

-----------------------------------------------------------------------------
(* The inductive invariant.  InStep and FileHoldsState support each other:   *)
(* a tool starts from the file, and what it leaves there is in step.  The    *)
(* pictures matter only where a frame must have been read right.             *)
Inv ==
  /\ TypeOK
  /\ InStep
  /\ FileHoldsState
  /\ NothingGarbled
  /\ writer.state.segmentation = Off
  /\ phase = "idle" /\ frames = 0 => player = InitialDecoder

LEMMA InitialType == IsDecoder(InitialDecoder) /\ InitialState \in DecoderState
BY DefaultsType DEF IsDecoder, InitialDecoder, InitialState, DecoderState,
                    AllReferences

LEMMA InitInv == Init => Inv
<1> SUFFICES ASSUME Init PROVE Inv OBVIOUS
<1> USE DEF Init
<1>1. writer = [ state |-> InitialState,
                 references |-> AllReferences(BlankPicture) ]
  BY DEF EncoderFrom, InitialDecoder
<1>2. AllReferences(BlankPicture) = [ r \in Reference |-> AllReferences(BlankPicture)[r] ]
  BY DEF AllReferences
<1>3. IsDecoder(writer) BY <1>1, <1>2, InitialType DEF IsDecoder
<1>4. state_file.state \in DecoderState
  BY InitialType DEF Serialize, InitialDecoder
<1>5. TypeOK BY <1>3, <1>4, InitialType DEF TypeOK
<1>6. InStep BY <1>1 DEF InStep, InitialDecoder
<1>7. FileHoldsState
  <2>1. InitialDecoder.references = AllReferences(BlankPicture)
    BY DEF InitialDecoder
  <2>2. Deserialize(Serialize(InitialDecoder)) = InitialDecoder
    BY <2>1, InitialType, Restored
  <2> QED BY <2>2 DEF FileHoldsState
<1>8. NothingGarbled
  BY ValuesAssumption DEF NothingGarbled, InitialDecoder, AllReferences, BlankPicture
<1>9. writer.state.segmentation = Off BY <1>1 DEF InitialState
<1> QED BY <1>5, <1>6, <1>7, <1>8, <1>9 DEF Inv

(* A tool starts with the player's decoder.                                  *)
LEMMA ToolStarts ==
  ASSUME Inv, NEW tool \in { "terminate", "reencode" }, NEW d,
         StartTool(tool, d), d = player
  PROVE  Inv'
<1> USE DEF StartTool
<1>1. writer = player /\ IsDecoder(player) BY DEF Inv, TypeOK, InStep
<1>2. writer' = player BY <1>1 DEF EncoderFrom, IsDecoder
<1>3. TypeOK' BY <1>1, <1>2 DEF Inv, TypeOK
<1>4. InStep' BY <1>2 DEF InStep
<1>5. FileHoldsState' BY DEF FileHoldsState
<1>6. NothingGarbled' BY DEF Inv, NothingGarbled
<1>7. writer'.state.segmentation = Off BY <1>1, <1>2 DEF Inv
<1> QED BY <1>3, <1>4, <1>5, <1>6, <1>7 DEF Inv

(* A frame keeps the invariant when the player follows the encoder, and the  *)
(* last one leaves three equal references.                                   *)
LEMMA FrameKeepsInv ==
  ASSUME Inv, phase \in { "terminate", "reencode" },
         NEW e, NEW chunk, NEW last \in BOOLEAN, Append(e, chunk, last),
         Follows(writer, chunk, e),
         last => \E p : e.references = AllReferences(p)
  PROVE  Inv'
<1> USE DEF Append
<1>1. player = writer BY DEF Inv, InStep
<1>2. player' = e BY <1>1 DEF Follows
<1>3. IsDecoder(e) /\ e.state \in DecoderState BY DEF Follows, IsDecoder
<1>4. TypeOK'
  <2>1. phase' \in { "idle", "terminate", "reencode" } BY DEF Inv, TypeOK
  <2>2. state_file'.state \in DecoderState
    <3>1. CASE last BY <1>3, <3>1 DEF Serialize
    <3>2. CASE ~ last BY <3>2 DEF Inv, TypeOK
    <3> QED BY <3>1, <3>2
  <2>3. in_chunk' \in Nat /\ frames' \in Nat BY DEF Inv, TypeOK
  <2> QED BY <1>2, <1>3, <2>1, <2>2, <2>3 DEF TypeOK
<1>5. InStep' BY <1>2 DEF InStep
<1>6. FileHoldsState'
  <2>1. CASE last
    <3>1. PICK p : e.references = AllReferences(p) BY <2>1
    <3>2. Deserialize(Serialize(e)) = e
      BY <1>3, <3>1, Restored
    <3> QED BY <1>2, <2>1, <3>2 DEF FileHoldsState
  <2>2. CASE ~ last BY <2>2 DEF FileHoldsState
  <2> QED BY <2>1, <2>2
<1>7. NothingGarbled'
  <2>1. NoneGarbled(player.references)
    BY DEF Inv, NothingGarbled, NoneGarbled
  <2>2. NoneGarbled(e.references) BY <1>1, <2>1 DEF Follows
  <2> QED BY <1>2, <2>2 DEF NoneGarbled, NothingGarbled
<1>8. writer'.state.segmentation = Off BY DEF Follows
<1>9. frames' # 0 BY DEF Inv, TypeOK
<1> QED BY <1>4, <1>5, <1>6, <1>7, <1>8, <1>9 DEF Inv

(* Every tool's frame has this form.                                         *)
LEMMA WrittenKeepsInv ==
  ASSUME Inv, phase \in { "terminate", "reencode" },
         NEW h \in Header, IsReadable(h), h.segmentation = Off,
         NEW b, b # Garbled, NEW last \in BOOLEAN,
         last => h.key \/ (h.refresh_last /\ h.refresh_golden /\ h.refresh_alternate),
         Append(AfterFrame(writer, h, b), Written(writer, h, b), last)
  PROVE  Inv'
<1>1. IsDecoder(writer) /\ writer.state.segmentation = Off
  BY DEF Inv, TypeOK
<1>2. Follows(writer, Written(writer, h, b), AfterFrame(writer, h, b))
  BY <1>1, EncoderAgrees
<1>3. last => \E p : AfterFrame(writer, h, b).references = AllReferences(p)
  BY EndedRefreshes
<1> QED BY <1>2, <1>3, FrameKeepsInv

LEMMA TerminateKeepsInv ==
  ASSUME NoSegmentation, Inv, NEW h \in SourceHeaders, NEW last \in BOOLEAN,
         frames < MaxFrames, TerminateFrame(h, last)
  PROVE  Inv'
<1> DEFINE b == frames + 1
           ended == Ended(h, last)
           s == ParseAndApply(writer.state, h)
           decoded == DecodeFrame(writer, ended, b)
<1>1. /\ phase = "terminate"
      /\ Append(EncoderFrom(decoded), Chunk(ended, b, s.tables), last)
  BY DEF TerminateFrame
<1>2. /\ h \in Header /\ IsReadable(h) /\ h.segmentation = Off
      /\ b # Garbled
  <2>1. b \in 1 .. MaxFrames BY ChunksAssumption DEF Inv, TypeOK
  <2> QED BY <2>1, ChunksAssumption DEF NoSegmentation
<1>3. writer.state \in DecoderState /\ writer.state.segmentation = Off
  BY DEF Inv, TypeOK, IsDecoder
<1>4. /\ ended \in Header /\ IsReadable(ended) /\ ended.segmentation = Off
      /\ ParseAndApply(writer.state, ended) = s
      /\ last => \/ ended.key
                 \/ /\ ended.refresh_last /\ ended.refresh_golden
                    /\ ended.refresh_alternate
  BY <1>2, <1>3, EndedHeader
<1> HIDE DEF b, ended
<1>5. UpdateDecoderState(writer.state, ended) = s
  BY <1>3, <1>4, SameState
<1>6. Chunk(ended, b, s.tables) = Written(writer, ended, b)
  BY <1>5 DEF Written
<1>7. EncoderFrom(decoded) = AfterFrame(writer, ended, b)
  BY <1>4, <1>5 DEF EncoderFrom, AfterFrame, DecodeFrame
<1>8. Append(AfterFrame(writer, ended, b), Written(writer, ended, b), last)
  BY <1>1, <1>6, <1>7
<1> QED BY <1>1, <1>2, <1>4, <1>8, WrittenKeepsInv

LEMMA InterframeKeepsInv ==
  ASSUME NoSegmentation, Inv, phase = "reencode",
         NEW h \in SourceHeaders, NEW last \in BOOLEAN,
         frames < MaxFrames, NEW coeff \in Prob \cup { Keep },
         NEW uses \in SUBSET { "last" },
         ReencodeAsInterframe(h, coeff, uses, last)
  PROVE  Inv'
<1> DEFINE new == InterHeader(h, coeff, uses)
           b == frames + 1
<1>1. h \in Header /\ h.segmentation = Off
  BY ChunksAssumption DEF NoSegmentation
<1>2. b # Garbled
  <2>1. b \in 1 .. MaxFrames BY ChunksAssumption DEF Inv, TypeOK
  <2> QED BY <2>1, ChunksAssumption
<1>3. /\ new.key = FALSE /\ new.lf = Zero /\ new.segmentation = Off
      /\ new.refresh_last = TRUE /\ new.refresh_golden = TRUE
      /\ new.refresh_alternate = TRUE
      /\ new.copy_golden = "absent" /\ new.copy_alternate = "absent"
  BY <1>1 DEF InterHeader, RefreshAll, Header
<1>4. new \in Header
  <2>1. uses \in SUBSET Reference BY DEF Reference
  <2> QED BY <1>1, <2>1, ValuesAssumption, ZenonT(30)
          DEF InterHeader, RefreshAll, Header, CopySource
<1>5. Append(AfterFrame(FilterTried(writer), new, b),
             Written(FilterTried(writer), new, b), last)
  BY DEF ReencodeAsInterframe
<1> HIDE DEF new, b
<1>6. IsDecoder(writer) BY DEF Inv, TypeOK
<1>7. Append(AfterFrame(writer, new, b), Written(writer, new, b), last)
  BY <1>3, <1>4, <1>5, <1>6, TriedIsOverwritten
<1>8. IsReadable(new) BY <1>3 DEF IsReadable
<1> QED BY <1>2, <1>3, <1>4, <1>7, <1>8, WrittenKeepsInv

LEMMA PreserveKeepsInv ==
  ASSUME NoSegmentation, Inv, phase = "reencode",
         NEW h \in SourceHeaders, NEW last \in BOOLEAN,
         frames < MaxFrames, PreserveKeyFrame(h, last)
  PROVE  Inv'
<1>1. /\ h \in Header /\ IsReadable(h) /\ h.segmentation = Off
  BY ChunksAssumption DEF NoSegmentation
<1>2. frames + 1 # Garbled
  <2>1. frames + 1 \in 1 .. MaxFrames BY ChunksAssumption DEF Inv, TypeOK
  <2> QED BY <2>1, ChunksAssumption
<1>3. /\ h.key
      /\ Append(AfterFrame(writer, h, frames + 1),
                Written(writer, h, frames + 1), last)
  BY DEF PreserveKeyFrame
<1> QED BY <1>1, <1>2, <1>3, WrittenKeepsInv

LEMMA ResiduesKeepInv ==
  ASSUME NoSegmentation, Inv, phase = "reencode",
         NEW h \in SourceHeaders, NEW last \in BOOLEAN,
         frames < MaxFrames, NEW coeff \in Prob \cup { Keep },
         UpdateResidues(h, coeff, last)
  PROVE  Inv'
<1> DEFINE counted == [ h EXCEPT !.coeff = coeff, !.mode = Keep ]
           new == Ended(counted, last)
           b == frames + 1
<1>1. h \in Header /\ IsReadable(h) /\ h.segmentation = Off
  BY ChunksAssumption DEF NoSegmentation
<1>2. b # Garbled
  <2>1. b \in 1 .. MaxFrames BY ChunksAssumption DEF Inv, TypeOK
  <2> QED BY <2>1, ChunksAssumption
<1>3. counted \in Header BY <1>1 DEF Header
<1>4. /\ counted.segmentation = Off /\ counted.key = h.key
      /\ counted.refresh_golden = h.refresh_golden
      /\ counted.refresh_alternate = h.refresh_alternate
      /\ counted.copy_golden = h.copy_golden
      /\ counted.copy_alternate = h.copy_alternate
  BY <1>1 DEF Header
<1>5. Append(AfterFrame(writer, new, b), Written(writer, new, b), last)
  BY DEF UpdateResidues
<1> HIDE DEF counted, b
<1>6. IsReadable(counted) BY <1>1, <1>4 DEF IsReadable
<1>7. writer.state \in DecoderState BY DEF Inv, TypeOK, IsDecoder
<1>8. /\ new \in Header /\ IsReadable(new) /\ new.segmentation = Off
      /\ last => \/ new.key
                 \/ /\ new.refresh_last /\ new.refresh_golden
                    /\ new.refresh_alternate
  BY <1>3, <1>4, <1>6, <1>7, EndedHeader
<1> HIDE DEF new
<1> QED BY <1>2, <1>5, <1>8, WrittenKeepsInv

LEMMA StepInv ==
  ASSUME NoSegmentation, Inv, [Next]_vars
  PROVE  Inv'
<1>1. CASE StartTerminate
  <2>1. player = InitialDecoder BY <1>1 DEF StartTerminate, StartTool, Inv
  <2> QED BY <1>1, <2>1, ToolStarts DEF StartTerminate
<1>2. CASE StartReencode
  <2>1. Deserialize(state_file) = player
    BY <1>2 DEF StartReencode, StartTool, Inv, FileHoldsState
  <2> QED BY <1>2, <2>1, ToolStarts DEF StartReencode
<1>3. CASE /\ frames < MaxFrames
           /\ \E header \in SourceHeaders, last \in BOOLEAN :
                TerminateFrame(header, last) \/ ReencodeFrame(header, last)
  <2>1. PICK header \in SourceHeaders, last \in BOOLEAN :
          TerminateFrame(header, last) \/ ReencodeFrame(header, last)
    BY <1>3
  <2>2. CASE TerminateFrame(header, last)
    BY <1>3, <2>2, TerminateKeepsInv
  <2>3. CASE ReencodeFrame(header, last)
    <3>1. phase = "reencode" BY <2>3 DEF ReencodeFrame
    <3>2. CASE \E coeff \in Prob \cup { Keep }, uses \in SUBSET { "last" } :
                 ReencodeAsInterframe(header, coeff, uses, last)
      BY <1>3, <3>1, <3>2, InterframeKeepsInv
    <3>3. CASE PreserveKeyFrame(header, last)
      BY <1>3, <3>1, <3>3, PreserveKeepsInv
    <3>4. CASE \E coeff \in Prob \cup { Keep } :
                 UpdateResidues(header, coeff, last)
      BY <1>3, <3>1, <3>4, ResiduesKeepInv
    <3> QED BY <2>3, <3>2, <3>3, <3>4 DEF ReencodeFrame
  <2> QED BY <2>1, <2>2, <2>3
<1>4. CASE UNCHANGED vars
  BY <1>4 DEF vars, Inv, TypeOK, InStep, FileHoldsState, NothingGarbled
<1> QED BY <1>1, <1>2, <1>3, <1>4 DEF Next

-----------------------------------------------------------------------------
(* Without segmentation the encoder's copy of the decoder state, kept by its *)
(* own update_decoder_state, is the player's state after every frame of      *)
(* every chunk.                                                              *)
THEOREM EncoderInStep == ASSUME NoSegmentation PROVE Spec => []InStep
<1>1. Init => Inv BY InitInv
<1>2. Inv /\ [Next]_vars => Inv' BY StepInv
<1>3. Inv => InStep BY DEF Inv
<1> QED BY <1>1, <1>2, <1>3, PTL DEF Spec

(* The file between two chunks, which holds one reference of three, stands   *)
(* for the player's whole state.                                             *)
THEOREM FileSuffices == ASSUME NoSegmentation PROVE Spec => []FileHoldsState
<1>1. Init => Inv BY InitInv
<1>2. Inv /\ [Next]_vars => Inv' BY StepInv
<1>3. Inv => FileHoldsState BY DEF Inv
<1> QED BY <1>1, <1>2, <1>3, PTL DEF Spec

(* Every frame is read with the tables it was written with, so no picture    *)
(* the player predicts from is garbled.                                      *)
THEOREM ReadAsWritten == ASSUME NoSegmentation PROVE Spec => []NothingGarbled
<1>1. Init => Inv BY InitInv
<1>2. Inv /\ [Next]_vars => Inv' BY StepInv
<1>3. Inv => NothingGarbled BY DEF Inv
<1> QED BY <1>1, <1>2, <1>3, PTL DEF Spec
=============================================================================
