--------------------------- MODULE BitstreamProofs ---------------------------
(***************************************************************************)
(* Two parts of the bitstream for data of any size: an IVF file is         *)
(* readable after a crash, whatever the lengths of headers and frames and  *)
(* however many frames; and the census of the neighbours' vectors is fair, *)
(* whatever the vectors.                                                   *)
(***************************************************************************)
EXTENDS Bitstream, TLAPS

(***************************************************************************)
(* The IVF file.                                                           *)
(***************************************************************************)
H == supported_header_len
F == frame_header_len

Frames == [ offset : Nat, length : Nat ]

(* Where the frames of s end, and the next frame's header begins.            *)
End(s) == IF s = << >> THEN H ELSE s[Len(s)].offset + s[Len(s)].length

(* The frames of s follow each other, each after its header.                 *)
Chained(s) ==
  /\ \A f \in 1..Len(s) :
       s[f].offset = F + (IF f = 1 THEN H ELSE s[f - 1].offset + s[f - 1].length)
  /\ \A f, g \in 1..Len(s) : f < g => s[f].offset + s[f].length + F <= s[g].offset

Next1(s, length) == [ offset |-> End(s) + F, length |-> length ]

IvfTypeOK ==
  /\ file \in [ size : Nat, frame_count : Nat, spelled : Seq(Frames) ]
  /\ writer \in [ stage : { "closed", "header", "idle", "frame_header", "frame" },
                  left : Nat, frame_count : Nat, length : Nat ]
  /\ appended \in Seq(Frames)
  /\ reader \in [ stage : { "none", "mapped", "indexing", "indexed", "rejected" },
                  alone : BOOLEAN, size : Nat, frame_count : Nat,
                  index : Seq(Frames), position : Nat ]

(* What the file holds at each stage of writing; after a crash, the frames   *)
(* that were appended and at most one more.                                  *)
WriterInv ==
  /\ Chained(appended)
  /\ file.frame_count = Len(appended)
  /\ writer.stage # "closed" => writer.frame_count = Len(appended)
  /\ writer.stage = "header" =>
       /\ file.size + writer.left = H
       /\ appended = << >> /\ file.spelled = << >>
  /\ writer.stage = "idle" =>
       file.size = End(appended) /\ file.spelled = appended
  /\ writer.stage = "frame_header" =>
       /\ file.size + writer.left = End(appended) + F
       /\ writer.left > 0
       /\ file.spelled = appended
  /\ writer.stage = "frame" =>
       /\ file.size + writer.left = End(appended) + F + writer.length
       /\ file.size >= End(appended) + F
       /\ file.spelled = Append(appended, Next1(appended, writer.length))
  /\ writer.stage = "closed" =>
       \/ file.spelled = appended
       \/ \E length \in Nat : file.spelled = Append(appended, Next1(appended, length))
  /\ appended # << >> => file.size >= End(appended)

(* A reader follows the frames that are appended; alone, it sees them all.   *)
ReaderInv ==
  /\ reader.stage # "none" /\ reader.alone =>
       writer.stage = "closed" /\ reader.size = file.size
  /\ reader.stage \in { "indexing", "indexed" } =>
       /\ reader.size >= H
       /\ reader.frame_count <= Len(appended)
       /\ reader.alone => reader.frame_count = Len(appended)
       /\ Len(reader.index) <= reader.frame_count
       /\ \A f \in 1..Len(reader.index) : reader.index[f] = appended[f]
  /\ reader.stage = "mapped" => reader.index = << >>
  /\ reader.stage = "indexing" => reader.position = End(reader.index)
  /\ reader.stage = "indexed" => Len(reader.index) = reader.frame_count
  /\ reader.stage = "rejected" /\ reader.alone => reader.size < H

Inv == IvfTypeOK /\ WriterInv /\ ReaderInv

-----------------------------------------------------------------------------
LEMMA LengthsPositive == H \in Nat /\ H > 0 /\ F \in Nat /\ F > 0
BY IvfAssumption DEF H, F

LEMMA EndNat ==
  ASSUME NEW s \in Seq(Frames)
  PROVE  End(s) \in Nat
<1>1. CASE s = << >>
  BY <1>1, LengthsPositive DEF End
<1>2. CASE s # << >>
  <2>1. Len(s) \in 1..Len(s)
    BY <1>2
  <2>2. s[Len(s)] \in Frames
    BY <2>1
  <2> QED
    BY <1>2, <2>2 DEF End, Frames
<1> QED
  BY <1>1, <1>2

(* Each frame of a chain ends at the chain's end or before.                  *)
LEMMA ChainEnds ==
  ASSUME NEW s \in Seq(Frames), Chained(s), NEW f \in 1..Len(s)
  PROVE  /\ s[f].offset \in Nat /\ s[f].length \in Nat
         /\ s[f].offset + s[f].length <= End(s)
<1>1. s[f] \in Frames /\ s # << >> /\ Len(s) \in 1..Len(s) /\ s[Len(s)] \in Frames
  OBVIOUS
<1>2. CASE f = Len(s)
  BY <1>1, <1>2 DEF End, Frames
<1>3. CASE f # Len(s)
  <2>1. s[f].offset + s[f].length + F <= s[Len(s)].offset
    BY <1>1, <1>3 DEF Chained
  <2> QED
    BY <1>1, <2>1, LengthsPositive DEF End, Frames
<1> QED
  BY <1>2, <1>3

(* A frame written at the end of a chain makes a chain.                      *)
LEMMA ChainGrows ==
  ASSUME NEW s \in Seq(Frames), Chained(s), NEW length \in Nat,
         NEW t, t = Append(s, Next1(s, length))
  PROVE  /\ t \in Seq(Frames) /\ Chained(t)
         /\ End(t) = End(s) + F + length
         /\ Len(t) = Len(s) + 1
         /\ \A f \in 1..Len(s) : t[f] = s[f]
<1>1. Next1(s, length) \in Frames /\ End(s) \in Nat
  BY EndNat, LengthsPositive DEF Next1, Frames
<1>2. /\ t \in Seq(Frames) /\ Len(t) = Len(s) + 1
      /\ \A f \in 1..Len(s) : t[f] = s[f]
      /\ t[Len(s) + 1] = Next1(s, length)
      /\ Len(s) \in Nat
  BY <1>1
<1>3. t[Len(s) + 1].offset = End(s) + F /\ t[Len(s) + 1].length = length
  BY <1>2 DEF Next1
<1>4. End(t) = End(s) + F + length
  <2>1. t # << >>
    BY <1>2
  <2> QED
    BY <1>1, <1>2, <1>3, <2>1 DEF End
<1>5. ASSUME NEW f \in 1..Len(t)
      PROVE  t[f].offset = F + (IF f = 1 THEN H ELSE t[f - 1].offset + t[f - 1].length)
  <2>1. CASE f \in 1..Len(s)
    <3>1. s[f].offset = F + (IF f = 1 THEN H ELSE s[f - 1].offset + s[f - 1].length)
      BY <2>1 DEF Chained
    <3>2. f # 1 => f - 1 \in 1..Len(s)
      BY <2>1, <1>2
    <3> QED
      BY <1>2, <2>1, <3>1, <3>2
  <2>2. CASE f = Len(s) + 1 /\ s = << >>
    BY <1>1, <1>2, <1>3, <2>2, LengthsPositive DEF End
  <2>3. CASE f = Len(s) + 1 /\ s # << >>
    <3>1. Len(s) \in 1..Len(s) /\ f # 1 /\ f - 1 = Len(s)
      BY <1>2, <2>3
    <3>2. End(s) = t[f - 1].offset + t[f - 1].length
      BY <1>2, <2>3, <3>1 DEF End
    <3> QED
      BY <1>1, <1>3, <2>3, <3>1, <3>2, LengthsPositive
  <2> QED
    BY <1>2, <2>1, <2>2, <2>3
<1>6. ASSUME NEW f \in 1..Len(t), NEW g \in 1..Len(t), f < g
      PROVE  t[f].offset + t[f].length + F <= t[g].offset
  <2>1. f \in 1..Len(s)
    BY <1>2, <1>6
  <2>2. CASE g \in 1..Len(s)
    BY <1>2, <1>6, <2>1, <2>2 DEF Chained
  <2>3. CASE g = Len(s) + 1
    <3>1. /\ s[f].offset \in Nat /\ s[f].length \in Nat
          /\ s[f].offset + s[f].length <= End(s)
      BY <2>1, ChainEnds
    <3> QED
      BY <1>1, <1>2, <1>3, <2>1, <2>3, <3>1, LengthsPositive
  <2> QED
    BY <1>2, <2>2, <2>3
<1> QED
  BY <1>2, <1>4, <1>5, <1>6 DEF Chained

(* What the file spells are the frames appended, with at most one more.      *)
LEMMA SpelledContinues ==
  ASSUME Inv
  PROVE  /\ Chained(file.spelled)
         /\ Len(appended) <= Len(file.spelled)
         /\ \A f \in 1..Len(appended) : file.spelled[f] = appended[f]
<1>1. appended \in Seq(Frames) /\ Chained(appended) /\ writer.length \in Nat
      /\ writer.stage \in { "closed", "header", "idle", "frame_header", "frame" }
  BY DEF Inv, IvfTypeOK, WriterInv
<1>2. CASE file.spelled = appended
  BY <1>1, <1>2
<1>3. ASSUME NEW length \in Nat, file.spelled = Append(appended, Next1(appended, length))
      PROVE  /\ Chained(file.spelled)
             /\ Len(appended) <= Len(file.spelled)
             /\ \A f \in 1..Len(appended) : file.spelled[f] = appended[f]
  <2>1. /\ Chained(file.spelled) /\ Len(file.spelled) = Len(appended) + 1
        /\ \A f \in 1..Len(appended) : file.spelled[f] = appended[f]
    BY <1>1, <1>3, ChainGrows, ZenonT(30)
  <2> QED
    BY <1>1, <2>1
<1> QED
  BY <1>1, <1>2, <1>3 DEF Inv, WriterInv

-----------------------------------------------------------------------------
(* What a reader has found stays as it is while the writer appends.          *)
LEMMA ReaderUndisturbed ==
  ASSUME Inv, reader' = reader,
         reader.stage # "none" /\ reader.alone =>
           writer'.stage = "closed" /\ file'.size = file.size /\ appended' = appended,
         reader.stage # "none" =>
           /\ Len(appended) <= Len(appended')
           /\ \A f \in 1..Len(appended) : appended'[f] = appended[f]
  PROVE  ReaderInv'
<1>1. /\ appended \in Seq(Frames) /\ reader.index \in Seq(Frames)
      /\ reader.frame_count \in Nat /\ ReaderInv /\ Len(appended) \in Nat
  BY DEF Inv, IvfTypeOK
<1>2. ASSUME reader.stage \in { "indexing", "indexed" }
      PROVE  /\ reader.size >= H
             /\ reader.frame_count <= Len(appended')
             /\ reader.alone => reader.frame_count = Len(appended')
             /\ Len(reader.index) <= reader.frame_count
             /\ \A f \in 1..Len(reader.index) : reader.index[f] = appended'[f]
  <2>1. /\ reader.size >= H
        /\ reader.frame_count <= Len(appended)
        /\ reader.alone => reader.frame_count = Len(appended)
        /\ Len(reader.index) <= reader.frame_count
        /\ \A f \in 1..Len(reader.index) : reader.index[f] = appended[f]
    BY <1>1, <1>2 DEF ReaderInv
  <2>2. Len(appended') \in Int /\ Len(appended) <= Len(appended')
    BY <1>1, <1>2, <2>1
  <2>3. \A f \in 1..Len(reader.index) : f \in 1..Len(appended)
    BY <1>1, <2>1
  <2> QED
    BY <1>1, <1>2, <2>1, <2>2, <2>3
<1>3. reader.stage # "none" /\ reader.alone =>
        writer'.stage = "closed" /\ reader.size = file'.size
  BY <1>1 DEF ReaderInv
<1> QED
  BY <1>1, <1>2, <1>3 DEF ReaderInv

LEMMA OpenKeepsInv ==
  ASSUME Inv, Open
  PROVE  Inv'
<1>1. IvfTypeOK'
  <2>1. writer' = [ stage |-> "header", left |-> H, frame_count |-> 0, length |-> 0 ]
    BY DEF Open, NoWriter, H
  <2>2. writer' \in [ stage : { "closed", "header", "idle", "frame_header", "frame" },
                      left : Nat, frame_count : Nat, length : Nat ]
    BY <2>1, LengthsPositive
  <2>3. file' = [ size |-> 0, frame_count |-> 0, spelled |-> << >> ]
        /\ appended' = << >> /\ reader' = reader
    BY DEF Open, Empty
  <2>4. file' \in [ size : Nat, frame_count : Nat, spelled : Seq(Frames) ]
    BY <2>3
  <2> QED
    BY <2>2, <2>3, <2>4 DEF Inv, IvfTypeOK
<1>2. /\ file' = Empty /\ appended' = << >> /\ writer'.stage = "header"
      /\ writer'.left = H /\ writer'.frame_count = 0
  BY DEF Open, NoWriter, H
<1>3. WriterInv'
  BY <1>2, LengthsPositive DEF WriterInv, Chained, Empty
<1>4. ReaderInv'
  BY DEF Open, ReaderInv
<1> QED
  BY <1>1, <1>3, <1>4 DEF Inv

LEMMA WriteFileHeaderKeepsInv ==
  ASSUME Inv, WriteFileHeader
  PROVE  Inv'
<1>1. PICK n \in 1..supported_header_len :
        /\ n \in 1..writer.left
        /\ writer' = [ writer EXCEPT !.left = writer.left - n ]
        /\ file' = [ file EXCEPT !.size = file.size + n ]
  BY DEF WriteFileHeader, Write
<1>2. /\ n \in Nat /\ n <= writer.left /\ writer.left \in Nat /\ file.size \in Nat
      /\ writer.stage = "header" /\ appended' = appended /\ reader' = reader
  BY <1>1, LengthsPositive DEF WriteFileHeader, Inv, IvfTypeOK, H
<1>3. IvfTypeOK'
  <2>1. writer.left - n \in Nat /\ file.size + n \in Nat
    BY <1>2
  <2>2. writer' \in [ stage : { "closed", "header", "idle", "frame_header", "frame" },
                      left : Nat, frame_count : Nat, length : Nat ]
    BY <1>1, <2>1 DEF Inv, IvfTypeOK
  <2>3. file' \in [ size : Nat, frame_count : Nat, spelled : Seq(Frames) ]
    BY <1>1, <2>1 DEF Inv, IvfTypeOK
  <2> QED
    BY <1>2, <2>2, <2>3 DEF Inv, IvfTypeOK
<1>4. /\ writer'.stage = "header" /\ writer'.left = writer.left - n
      /\ writer'.frame_count = writer.frame_count
      /\ file'.size = file.size + n /\ file'.spelled = file.spelled
      /\ file'.frame_count = file.frame_count
  BY <1>1, <1>2 DEF Inv, IvfTypeOK
<1>5. WriterInv'
  BY <1>2, <1>4, LengthsPositive, SMTT(30) DEF Inv, WriterInv, Chained
<1>6. ReaderInv'
  <2>1. ~(reader.stage # "none" /\ reader.alone)
    BY <1>2 DEF Inv, ReaderInv
  <2> QED
    BY <1>2, <2>1, ReaderUndisturbed DEF Inv, IvfTypeOK
<1> QED
  BY <1>3, <1>5, <1>6 DEF Inv

LEMMA OpenedKeepsInv ==
  ASSUME Inv, Opened
  PROVE  Inv'
<1>1. /\ writer.stage = "header" /\ writer.left = 0 /\ writer'.stage = "idle"
      /\ writer'.frame_count = writer.frame_count
      /\ file' = file /\ appended' = appended /\ reader' = reader
  BY DEF Opened, Inv, IvfTypeOK
<1>2. IvfTypeOK'
  BY DEF Opened, Inv, IvfTypeOK
<1>3. file.size = H /\ appended = << >> /\ file.spelled = << >>
  BY <1>1, LengthsPositive DEF Inv, IvfTypeOK, WriterInv
<1>4. WriterInv'
  BY <1>1, <1>3 DEF Inv, WriterInv, Chained, End
<1>5. ReaderInv'
  <2>1. ~(reader.stage # "none" /\ reader.alone)
    BY <1>1 DEF Inv, ReaderInv
  <2> QED
    BY <1>1, <2>1, ReaderUndisturbed DEF Inv, IvfTypeOK
<1> QED
  BY <1>2, <1>4, <1>5 DEF Inv

LEMMA AppendKeepsInv ==
  ASSUME Inv, NEW length \in FrameLengths, append_frame(length)
  PROVE  Inv'
<1>1. /\ writer.stage = "idle" /\ writer'.stage = "frame_header"
      /\ writer'.left = F /\ writer'.length = length
      /\ writer'.frame_count = writer.frame_count
      /\ file' = file /\ appended' = appended /\ reader' = reader
  BY DEF append_frame, Inv, IvfTypeOK, F
<1>2. IvfTypeOK'
  BY IvfAssumption DEF append_frame, Inv, IvfTypeOK
<1>3. WriterInv'
  <2>1. file.size = End(appended) /\ file.spelled = appended
    BY <1>1 DEF Inv, WriterInv
  <2>2. End(appended)' = End(appended) /\ Chained(appended)' = Chained(appended)
    BY <1>1 DEF End, Chained
  <2> QED
    BY <1>1, <2>1, <2>2, LengthsPositive DEF Inv, WriterInv
<1>4. ReaderInv'
  <2>1. ~(reader.stage # "none" /\ reader.alone)
    BY <1>1 DEF Inv, ReaderInv
  <2> QED
    BY <1>1, <2>1, ReaderUndisturbed DEF Inv, IvfTypeOK
<1> QED
  BY <1>2, <1>3, <1>4 DEF Inv

LEMMA WriteFrameHeaderKeepsInv ==
  ASSUME Inv, WriteFrameHeader
  PROVE  Inv'
<1>1. PICK n \in 1..frame_header_len :
        /\ n \in 1..writer.left
        /\ writer' = IF n < writer.left THEN [ writer EXCEPT !.left = writer.left - n ]
                     ELSE [ writer EXCEPT !.stage = "frame", !.left = writer.length ]
        /\ file' = [ size |-> file.size + n, frame_count |-> file.frame_count,
                     spelled |->
                       IF n < writer.left THEN file.spelled
                       ELSE Append(file.spelled, [ offset |-> file.size + n,
                                                   length |-> writer.length ]) ]
  BY DEF WriteFrameHeader
<1>2. /\ n \in Nat /\ n <= writer.left /\ writer.left \in Nat /\ file.size \in Nat
      /\ writer.length \in Nat /\ writer.frame_count \in Nat
      /\ file.frame_count \in Nat /\ file.spelled \in Seq(Frames)
      /\ appended \in Seq(Frames) /\ Chained(appended) /\ End(appended) \in Nat
      /\ writer.stage = "frame_header" /\ appended' = appended /\ reader' = reader
      /\ End(appended)' = End(appended) /\ Chained(appended)' = Chained(appended)
  <2>1. /\ writer.left \in Nat /\ file.size \in Nat
        /\ writer.length \in Nat /\ writer.frame_count \in Nat
        /\ file.frame_count \in Nat /\ file.spelled \in Seq(Frames)
        /\ appended \in Seq(Frames) /\ Chained(appended)
    BY DEF Inv, IvfTypeOK, WriterInv
  <2>2. writer.stage = "frame_header" /\ appended' = appended /\ reader' = reader
    BY DEF WriteFrameHeader
  <2>3. n \in Nat /\ n <= writer.left
    BY <1>1, <2>1
  <2>4. End(appended)' = End(appended) /\ Chained(appended)' = Chained(appended)
    BY <2>2 DEF End, Chained
  <2> QED
    BY <2>1, <2>2, <2>3, <2>4, EndNat
<1>3. /\ file.size + writer.left = End(appended) + F
      /\ file.spelled = appended
      /\ writer.frame_count = Len(appended) /\ file.frame_count = Len(appended)
      /\ appended # << >> => file.size >= End(appended)
  BY <1>2 DEF Inv, WriterInv
<1>4. CASE n < writer.left
  <2>1. writer.left - n \in Nat /\ file.size + n \in Nat /\ writer.left - n > 0
    BY <1>2, <1>4
  <2>2. /\ writer' \in [ stage : { "closed", "header", "idle", "frame_header", "frame" },
                         left : Nat, frame_count : Nat, length : Nat ]
        /\ writer'.stage = "frame_header" /\ writer'.left = writer.left - n
        /\ writer'.frame_count = writer.frame_count
    BY <1>1, <1>2, <1>4, <2>1 DEF Inv, IvfTypeOK
  <2>3. /\ file' \in [ size : Nat, frame_count : Nat, spelled : Seq(Frames) ]
        /\ file'.size = file.size + n /\ file'.spelled = file.spelled
        /\ file'.frame_count = file.frame_count
    BY <1>1, <1>2, <1>4, <2>1
  <2>4. IvfTypeOK'
    BY <1>2, <2>2, <2>3 DEF Inv, IvfTypeOK
  <2>5. WriterInv'
    <3>1. file'.size + writer'.left = End(appended) + F
      BY <1>2, <1>3, <2>2, <2>3, LengthsPositive, SMTT(30)
    <3>2. appended # << >> => file'.size >= End(appended)
      BY <1>2, <1>3, <2>3
    <3> QED
      BY <1>2, <1>3, <2>1, <2>2, <2>3, <3>1, <3>2 DEF WriterInv
  <2>6. ReaderInv'
    <3>1. ~(reader.stage # "none" /\ reader.alone)
      BY <1>2 DEF Inv, ReaderInv
    <3> QED
      BY <1>2, <3>1, ReaderUndisturbed
  <2> QED
    BY <2>4, <2>5, <2>6 DEF Inv
<1>5. CASE ~(n < writer.left)
  <2>1. n = writer.left /\ file.size + n \in Nat /\ file.size + n = End(appended) + F
    BY <1>2, <1>3, <1>5
  <2>2. writer' = [ writer EXCEPT !.stage = "frame", !.left = writer.length ]
    BY <1>1, <1>5
  <2>3. writer' = [ stage |-> "frame", left |-> writer.length,
                    frame_count |-> writer.frame_count, length |-> writer.length ]
    BY <2>2 DEF Inv, IvfTypeOK
  <2>4. /\ writer' \in [ stage : { "closed", "header", "idle", "frame_header", "frame" },
                         left : Nat, frame_count : Nat, length : Nat ]
        /\ writer'.stage = "frame" /\ writer'.left = writer.length
        /\ writer'.frame_count = writer.frame_count /\ writer'.length = writer.length
    BY <1>2, <2>3
  <2>5. Next1(appended, writer.length) = [ offset |-> file.size + n,
                                           length |-> writer.length ]
    BY <2>1 DEF Next1
  <2>6. Next1(appended, writer.length) \in Frames
    BY <1>2, <2>1, <2>5 DEF Frames
  <2>7. /\ file'.size = file.size + n /\ file'.frame_count = file.frame_count
        /\ file'.spelled = Append(appended, Next1(appended, writer.length))
        /\ file' = [ size |-> file.size + n, frame_count |-> file.frame_count,
                     spelled |-> Append(appended, Next1(appended, writer.length)) ]
    BY <1>1, <1>3, <1>5, <2>5
  <2>8. file' \in [ size : Nat, frame_count : Nat, spelled : Seq(Frames) ]
    <3>1. Append(appended, Next1(appended, writer.length)) \in Seq(Frames)
      BY <1>2, <2>6
    <3> QED
      BY <1>2, <2>1, <2>7, <3>1
  <2>9. IvfTypeOK'
    BY <1>2, <2>4, <2>8 DEF Inv, IvfTypeOK
  <2>10. Next1(appended, writer.length)' = Next1(appended, writer.length)
    BY <1>2, <2>4 DEF Next1, End
  <2>11. WriterInv'
    BY <1>2, <1>3, <2>1, <2>4, <2>7, <2>10, LengthsPositive DEF WriterInv
  <2>12. ReaderInv'
    <3>1. ~(reader.stage # "none" /\ reader.alone)
      BY <1>2 DEF Inv, ReaderInv
    <3> QED
      BY <1>2, <3>1, ReaderUndisturbed
  <2> QED
    BY <2>9, <2>11, <2>12 DEF Inv
<1> QED
  BY <1>4, <1>5

LEMMA WriteFrameKeepsInv ==
  ASSUME Inv, WriteFrame
  PROVE  Inv'
<1>1. PICK n \in 1..writer.left :
        /\ writer' = [ writer EXCEPT !.left = writer.left - n ]
        /\ file' = [ file EXCEPT !.size = file.size + n ]
  BY DEF WriteFrame, Write
<1>2. /\ n \in Nat /\ n <= writer.left /\ writer.left \in Nat /\ file.size \in Nat
      /\ writer.length \in Nat
      /\ appended \in Seq(Frames) /\ End(appended) \in Nat
      /\ writer.stage = "frame" /\ appended' = appended /\ reader' = reader
      /\ End(appended)' = End(appended) /\ Chained(appended)' = Chained(appended)
  BY <1>1, EndNat, SMTT(30) DEF WriteFrame, Inv, IvfTypeOK, End, Chained
<1>3. writer.left - n \in Nat /\ file.size + n \in Nat
  BY <1>2
<1>4. /\ writer' \in [ stage : { "closed", "header", "idle", "frame_header", "frame" },
                       left : Nat, frame_count : Nat, length : Nat ]
      /\ writer'.stage = "frame" /\ writer'.left = writer.left - n
      /\ writer'.frame_count = writer.frame_count /\ writer'.length = writer.length
  BY <1>1, <1>2, <1>3 DEF Inv, IvfTypeOK
<1>5. /\ file' \in [ size : Nat, frame_count : Nat, spelled : Seq(Frames) ]
      /\ file'.size = file.size + n /\ file'.spelled = file.spelled
      /\ file'.frame_count = file.frame_count
  BY <1>1, <1>3 DEF Inv, IvfTypeOK
<1>6. IvfTypeOK'
  BY <1>2, <1>4, <1>5 DEF Inv, IvfTypeOK
<1>7. Next1(appended, writer.length)' = Next1(appended, writer.length)
  BY <1>2, <1>4 DEF Next1, End
<1>8. WriterInv'
  <2>1. /\ file.size + writer.left = End(appended) + F + writer.length
        /\ file.size >= End(appended) + F
        /\ file.spelled = Append(appended, Next1(appended, writer.length))
        /\ Chained(appended) /\ file.frame_count = Len(appended)
        /\ writer.frame_count = Len(appended)
    BY <1>2 DEF Inv, WriterInv
  <2>2. /\ file'.size + writer'.left = End(appended) + F + writer.length
        /\ file'.size >= End(appended) + F /\ file'.size >= End(appended)
    <3>1. file'.size + writer'.left = file.size + writer.left
      BY <1>2, <1>4, <1>5, SMTT(30)
    <3>2. file'.size >= file.size
      BY <1>2, <1>5
    <3>3. End(appended) \in Nat /\ file'.size \in Nat /\ file.size \in Nat
      BY <1>2, <1>3, <1>5
    <3>4. file.size >= End(appended) + F
      BY <2>1
    <3>5. file'.size >= End(appended) + F /\ file'.size >= End(appended)
      BY <3>2, <3>3, <3>4, LengthsPositive
    <3> QED
      BY <2>1, <3>1, <3>5
  <2> QED
    BY <1>2, <1>4, <1>5, <1>7, <2>1, <2>2 DEF WriterInv
<1>9. ReaderInv'
  <2>1. ~(reader.stage # "none" /\ reader.alone)
    BY <1>2 DEF Inv, ReaderInv
  <2> QED
    BY <1>2, <2>1, ReaderUndisturbed
<1> QED
  BY <1>6, <1>8, <1>9 DEF Inv

LEMMA CountFrameKeepsInv ==
  ASSUME Inv, CountFrame
  PROVE  Inv'
<1>1. /\ writer.left = 0 /\ writer.length \in Nat /\ writer.frame_count \in Nat
      /\ file.size \in Nat /\ appended \in Seq(Frames) /\ Chained(appended)
      /\ End(appended) \in Nat
      /\ writer.stage = "frame" /\ reader' = reader
  BY EndNat DEF CountFrame, Inv, IvfTypeOK, WriterInv
<1>2. /\ file.size = End(appended) + F + writer.length
      /\ file.spelled = Append(appended, Next1(appended, writer.length))
      /\ writer.frame_count = Len(appended)
  BY <1>1, LengthsPositive DEF Inv, WriterInv
<1>3. file.size - writer.length = End(appended) + F
  BY <1>1, <1>2, LengthsPositive
<1>4. appended' = Append(appended, Next1(appended, writer.length))
  BY <1>3 DEF CountFrame, Next1
<1>5. /\ appended' \in Seq(Frames) /\ Chained(appended')
      /\ End(appended') = End(appended) + F + writer.length
      /\ Len(appended') = Len(appended) + 1
      /\ \A f \in 1..Len(appended) : appended'[f] = appended[f]
  <2> DEFINE t == Append(appended, Next1(appended, writer.length))
  <2>1. /\ t \in Seq(Frames) /\ Chained(t)
        /\ End(t) = End(appended) + F + writer.length
        /\ Len(t) = Len(appended) + 1
        /\ \A f \in 1..Len(appended) : t[f] = appended[f]
    BY <1>1, ChainGrows
  <2> QED
    BY <1>4, <2>1, Zenon
<1>6. writer' = [ stage |-> "idle", left |-> writer.left,
                  frame_count |-> writer.frame_count + 1, length |-> writer.length ]
  BY DEF CountFrame, Inv, IvfTypeOK
<1>7. /\ writer' \in [ stage : { "closed", "header", "idle", "frame_header", "frame" },
                       left : Nat, frame_count : Nat, length : Nat ]
      /\ writer'.stage = "idle" /\ writer'.frame_count = writer.frame_count + 1
  BY <1>1, <1>6
<1>8. /\ file'.size = file.size /\ file'.spelled = file.spelled
      /\ file'.frame_count = writer.frame_count + 1
      /\ file' \in [ size : Nat, frame_count : Nat, spelled : Seq(Frames) ]
  <2>1. file' = [ file EXCEPT !.frame_count = writer.frame_count + 1 ]
    BY DEF CountFrame
  <2>2. file' = [ size |-> file.size, frame_count |-> writer.frame_count + 1,
                  spelled |-> file.spelled ]
    BY <2>1 DEF Inv, IvfTypeOK
  <2>3. file.spelled \in Seq(Frames) /\ writer.frame_count + 1 \in Nat
    BY <1>1 DEF Inv, IvfTypeOK
  <2> QED
    BY <1>1, <2>2, <2>3
<1>9. IvfTypeOK'
  BY <1>1, <1>5, <1>7, <1>8 DEF Inv, IvfTypeOK
<1>10. WriterInv'
  BY <1>1, <1>2, <1>4, <1>5, <1>7, <1>8, LengthsPositive DEF WriterInv
<1>11. ReaderInv'
  <2>1. ~(reader.stage # "none" /\ reader.alone)
    BY <1>1 DEF Inv, ReaderInv
  <2>2. Len(appended) <= Len(appended')
    BY <1>1, <1>5
  <2> QED
    BY <1>1, <1>5, <2>1, <2>2, ReaderUndisturbed
<1> QED
  BY <1>9, <1>10, <1>11 DEF Inv

LEMMA DieKeepsInv ==
  ASSUME Inv, Die
  PROVE  Inv'
<1>1. /\ writer.stage # "closed" /\ file' = file /\ appended' = appended
      /\ reader' = reader /\ writer'.stage = "closed"
      /\ writer' = [ stage |-> "closed", left |-> 0, frame_count |-> 0, length |-> 0 ]
      /\ writer.length \in Nat
      /\ writer.stage \in { "closed", "header", "idle", "frame_header", "frame" }
  BY DEF Die, NoWriter, Inv, IvfTypeOK
<1>2. IvfTypeOK'
  BY <1>1 DEF Inv, IvfTypeOK
<1>3. \/ file.spelled = appended
      \/ file.spelled = Append(appended, Next1(appended, writer.length))
  BY <1>1 DEF Inv, WriterInv
<1>4. WriterInv'
  <2>1. /\ Chained(appended) /\ file.frame_count = Len(appended)
        /\ appended # << >> => file.size >= End(appended)
    BY DEF Inv, WriterInv
  <2>2. Chained(appended)' = Chained(appended) /\ End(appended)' = End(appended)
    BY <1>1 DEF Chained, End
  <2>3. \A length : Next1(appended, length)' = Next1(appended, length)
    BY <1>1 DEF Next1, End
  <2> QED
    BY <1>1, <1>3, <2>1, <2>2, <2>3 DEF WriterInv
<1>5. ReaderInv'
  BY <1>1, ReaderUndisturbed DEF Inv, IvfTypeOK
<1> QED
  BY <1>2, <1>4, <1>5 DEF Inv

-----------------------------------------------------------------------------
(* The frame a reader comes to next is there: it is the next one appended,   *)
(* and the only one at that offset.                                          *)
LEMMA NextIsSpelled ==
  ASSUME Inv, reader.stage = "indexing", Len(reader.index) < reader.frame_count,
         NEW k, k = Len(reader.index) + 1
  PROVE  /\ k \in 1..Len(appended) /\ k \in 1..Len(file.spelled)
         /\ file.spelled[k] = appended[k] /\ appended[k] \in Frames
         /\ appended[k].offset = reader.position + F
         /\ \A f \in 1..Len(file.spelled) :
              file.spelled[f].offset = reader.position + F => f = k
<1>1. /\ appended \in Seq(Frames) /\ reader.index \in Seq(Frames)
      /\ file.spelled \in Seq(Frames) /\ reader.frame_count \in Nat
      /\ Chained(appended)
  BY DEF Inv, IvfTypeOK, WriterInv
<1>2. /\ reader.frame_count <= Len(appended)
      /\ \A f \in 1..Len(reader.index) : reader.index[f] = appended[f]
      /\ reader.position = End(reader.index)
  BY DEF Inv, ReaderInv
<1>3. Len(reader.index) \in Nat /\ Len(appended) \in Nat /\ Len(file.spelled) \in Nat
  BY <1>1
<1>4. /\ Chained(file.spelled)
      /\ Len(appended) <= Len(file.spelled)
      /\ \A f \in 1..Len(appended) : file.spelled[f] = appended[f]
  BY SpelledContinues
<1>5. k \in 1..Len(appended) /\ k \in 1..Len(file.spelled)
  BY <1>1, <1>2, <1>3, <1>4
<1>6. file.spelled[k] = appended[k] /\ appended[k] \in Frames
  BY <1>1, <1>4, <1>5
<1>7. appended[k].offset
        = F + (IF k = 1 THEN H ELSE appended[k - 1].offset + appended[k - 1].length)
  BY <1>1, <1>5, Zenon DEF Chained
<1>8. End(reader.index) = IF k = 1 THEN H
                          ELSE appended[k - 1].offset + appended[k - 1].length
  <2>1. CASE k = 1
    BY <1>1, <1>3, <2>1 DEF End
  <2>2. CASE k # 1
    <3>1. reader.index # << >> /\ Len(reader.index) = k - 1
          /\ Len(reader.index) \in 1..Len(reader.index)
      BY <1>1, <1>3, <2>2
    <3>2. reader.index[k - 1] = appended[k - 1]
      BY <1>2, <3>1
    <3> QED
      BY <2>2, <3>1, <3>2 DEF End
  <2> QED
    BY <2>1, <2>2
<1>9. appended[k].offset = reader.position + F
  <2>1. End(reader.index) \in Nat
    BY <1>1, EndNat
  <2> QED
    BY <1>2, <1>7, <1>8, <2>1, LengthsPositive
<1>10. ASSUME NEW f \in 1..Len(file.spelled), file.spelled[f].offset = reader.position + F
       PROVE  f = k
  <2>1. file.spelled[f] \in Frames /\ file.spelled[k] \in Frames
    BY <1>1, <1>5
  <2>2. file.spelled[f].offset = file.spelled[k].offset
    BY <1>6, <1>9, <1>10
  <2>3. ~(f < k)
    <3>1. f < k => file.spelled[f].offset + file.spelled[f].length + F
                     <= file.spelled[k].offset
      BY <1>4, <1>5 DEF Chained
    <3> QED
      BY <2>1, <2>2, <3>1, LengthsPositive DEF Frames
  <2>4. ~(k < f)
    <3>1. k < f => file.spelled[k].offset + file.spelled[k].length + F
                     <= file.spelled[f].offset
      BY <1>4, <1>5 DEF Chained
    <3> QED
      BY <2>1, <2>2, <3>1, LengthsPositive DEF Frames
  <2> QED
    BY <1>3, <1>5, <2>3, <2>4
<1> QED
  BY <1>5, <1>6, <1>9, <1>10

(* The writer's part does not change while the reader takes a step.          *)
LEMMA WriterUndisturbed ==
  ASSUME Inv, UNCHANGED << file, writer, appended >>
  PROVE  WriterInv'
<1>1. Chained(appended)' = Chained(appended) /\ End(appended)' = End(appended)
  BY DEF Chained, End
<1>2. \A length : Next1(appended, length)' = Next1(appended, length)
  BY DEF Next1, End
<1> QED
  BY <1>1, <1>2 DEF Inv, WriterInv

LEMMA MapKeepsInv ==
  ASSUME Inv, Map
  PROVE  Inv'
<1>1. reader' = [ stage |-> "mapped", alone |-> writer.stage = "closed",
                  size |-> file.size, frame_count |-> 0, index |-> << >>, position |-> 0 ]
  BY DEF Map, NoReader
<1>2. UNCHANGED << file, writer, appended >>
  BY DEF Map
<1>3. IvfTypeOK'
  BY <1>1, <1>2 DEF Inv, IvfTypeOK
<1>4. ReaderInv'
  BY <1>1, <1>2 DEF ReaderInv
<1> QED
  BY <1>2, <1>3, <1>4, WriterUndisturbed DEF Inv

LEMMA ReadFileHeaderKeepsInv ==
  ASSUME Inv, ReadFileHeader
  PROVE  Inv'
<1>1. /\ UNCHANGED << file, writer, appended >> /\ reader.stage = "mapped"
      /\ reader.size \in Nat /\ reader.alone \in BOOLEAN /\ file.frame_count \in Nat
      /\ reader.alone => writer.stage = "closed" /\ reader.size = file.size
      /\ reader.index = << >> /\ file.frame_count = Len(appended)
      /\ appended \in Seq(Frames)
  BY DEF ReadFileHeader, Inv, IvfTypeOK, ReaderInv, WriterInv
<1>2. CASE reader.size < H
  <2>1. reader' = [ stage |-> "rejected", alone |-> reader.alone, size |-> reader.size,
                    frame_count |-> 0, index |-> << >>, position |-> 0 ]
    BY <1>2 DEF ReadFileHeader, Rejected, NoReader, H
  <2>2. IvfTypeOK'
    BY <1>1, <2>1 DEF Inv, IvfTypeOK
  <2>3. ReaderInv'
    BY <1>1, <1>2, <2>1 DEF ReaderInv
  <2> QED
    BY <1>1, <2>2, <2>3, WriterUndisturbed DEF Inv
<1>3. CASE ~(reader.size < H)
  <2>1. reader' = [ reader EXCEPT !.stage = "indexing", !.frame_count = file.frame_count,
                                  !.position = H ]
    BY <1>3 DEF ReadFileHeader, H
  <2>2. reader' = [ stage |-> "indexing", alone |-> reader.alone, size |-> reader.size,
                    frame_count |-> file.frame_count, index |-> << >>, position |-> H ]
    BY <1>1, <2>1 DEF Inv, IvfTypeOK
  <2>3. IvfTypeOK'
    BY <1>1, <2>2, LengthsPositive DEF Inv, IvfTypeOK
  <2>4. End(<< >>) = H /\ Len(<< >>) = 0
    BY DEF End
  <2>5. reader'.index = << >> /\ End(reader'.index) = H
    BY <2>2, <2>4
  <2>6. ReaderInv'
    BY <1>1, <1>3, <2>2, <2>4, <2>5, LengthsPositive DEF ReaderInv
  <2> QED
    BY <1>1, <2>3, <2>6, WriterUndisturbed DEF Inv
<1> QED
  BY <1>2, <1>3

LEMMA IndexFrameKeepsInv ==
  ASSUME Inv, IndexFrame
  PROVE  Inv'
<1>1. /\ UNCHANGED << file, writer, appended >> /\ reader.stage = "indexing"
      /\ Len(reader.index) < reader.frame_count
  BY DEF IndexFrame
<1>2. /\ reader.size \in Nat /\ reader.alone \in BOOLEAN /\ reader.position \in Nat
      /\ reader.index \in Seq(Frames) /\ reader.frame_count \in Nat
      /\ appended \in Seq(Frames) /\ file.size \in Nat /\ Chained(appended)
  BY DEF Inv, IvfTypeOK, WriterInv
<1>3. /\ reader.alone => writer.stage = "closed" /\ reader.size = file.size
      /\ reader.size >= H
      /\ reader.frame_count <= Len(appended)
      /\ reader.alone => reader.frame_count = Len(appended)
      /\ \A f \in 1..Len(reader.index) : reader.index[f] = appended[f]
  BY <1>1 DEF Inv, ReaderInv
<1> DEFINE k == Len(reader.index) + 1
<1>4. /\ k \in 1..Len(appended) /\ k \in 1..Len(file.spelled)
      /\ file.spelled[k] = appended[k] /\ appended[k] \in Frames
      /\ appended[k].offset = reader.position + F
      /\ \A f \in 1..Len(file.spelled) :
           file.spelled[f].offset = reader.position + F => f = k
  BY <1>1, NextIsSpelled
<1>5. CASE reader.position + F > reader.size
  <2>1. reader' = [ stage |-> "rejected", alone |-> reader.alone, size |-> reader.size,
                    frame_count |-> 0, index |-> << >>, position |-> 0 ]
    BY <1>5 DEF IndexFrame, Rejected, NoReader, F
  <2>2. ~reader.alone
    <3>1. /\ appended[k].offset + appended[k].length <= End(appended)
          /\ appended[k].offset \in Nat /\ appended[k].length \in Nat
      BY <1>2, <1>4, ChainEnds
    <3>2. appended # << >> /\ End(appended) \in Nat
      BY <1>2, <1>4, EndNat
    <3>3. file.size >= End(appended)
      BY <3>2 DEF Inv, WriterInv
    <3> QED
      BY <1>2, <1>3, <1>4, <1>5, <3>1, <3>2, <3>3
  <2>3. IvfTypeOK'
    BY <1>1, <1>2, <2>1 DEF Inv, IvfTypeOK
  <2>4. ReaderInv'
    BY <2>1, <2>2 DEF ReaderInv
  <2> QED
    BY <1>1, <2>3, <2>4, WriterUndisturbed DEF Inv
<1>6. CASE ~(reader.position + F > reader.size)
  <2> DEFINE Found == CHOOSE f \in 1..Len(file.spelled) :
                        file.spelled[f].offset = reader.position + F
  <2>1. Found = k
    BY <1>4
  <2>2. reader' = [ reader EXCEPT
                      !.index = Append(reader.index, file.spelled[Found]),
                      !.position = reader.position + F + file.spelled[Found].length ]
    BY <1>6 DEF IndexFrame, F
  <2>3. reader' = [ stage |-> "indexing", alone |-> reader.alone, size |-> reader.size,
                    frame_count |-> reader.frame_count,
                    index |-> Append(reader.index, appended[k]),
                    position |-> reader.position + F + appended[k].length ]
    <3>1. reader' = [ reader EXCEPT
                        !.index = Append(reader.index, appended[k]),
                        !.position = reader.position + F + appended[k].length ]
      BY <1>4, <2>1, <2>2
    <3> QED
      BY <1>1, <3>1 DEF Inv, IvfTypeOK
  <2> DEFINE i == Append(reader.index, appended[k])
  <2>4. /\ i \in Seq(Frames) /\ Len(i) = k /\ i[k] = appended[k]
        /\ \A f \in 1..Len(reader.index) : i[f] = reader.index[f]
        /\ i # << >>
    BY <1>2, <1>4
  <2>5. appended[k].offset \in Nat /\ appended[k].length \in Nat
    BY <1>4 DEF Frames
  <2>6. reader.position + F + appended[k].length \in Nat
    BY <1>2, <2>5, LengthsPositive, SMTT(30)
  <2>7. IvfTypeOK'
    <3> HIDE DEF i, k
    <3>1. reader' \in [ stage : { "none", "mapped", "indexing", "indexed", "rejected" },
                        alone : BOOLEAN, size : Nat, frame_count : Nat,
                        index : Seq(Frames), position : Nat ]
      BY <1>2, <2>3, <2>4, <2>6
    <3> QED
      BY <1>1, <3>1 DEF Inv, IvfTypeOK
  <2>8. End(i) = reader.position + F + appended[k].length
    <3>1. End(i) = appended[k].offset + appended[k].length
      BY <2>4 DEF End
    <3> QED
      BY <1>4, <3>1
  <2>9. ASSUME NEW f \in 1..k
        PROVE  i[f] = appended[f]
    <3>1. f \in 1..Len(reader.index) \/ f = k
      BY <1>2
    <3> QED
      BY <1>3, <2>4, <3>1
  <2>10. k <= reader.frame_count
    BY <1>1, <1>2
  <2>11. /\ reader'.stage = "indexing" /\ reader'.alone = reader.alone
         /\ reader'.size = reader.size /\ reader'.frame_count = reader.frame_count
         /\ reader'.index = i /\ reader'.position = End(i)
    BY <2>3, <2>8
  <2>12. ReaderInv'
    <3> HIDE DEF i, k
    <3>1. End(reader.index)' = End(i)
      BY <2>11 DEF End
    <3> QED
      BY <1>1, <1>3, <2>4, <2>9, <2>10, <2>11, <3>1 DEF ReaderInv
  <2> QED
    BY <1>1, <2>7, <2>12, WriterUndisturbed DEF Inv
<1> QED
  BY <1>5, <1>6

LEMMA IndexedKeepsInv ==
  ASSUME Inv, Indexed
  PROVE  Inv'
<1>1. /\ UNCHANGED << file, writer, appended >> /\ reader.stage = "indexing"
      /\ Len(reader.index) = reader.frame_count
      /\ reader' = [ reader EXCEPT !.stage = "indexed" ]
  BY DEF Indexed
<1>2. IvfTypeOK'
  BY <1>1 DEF Inv, IvfTypeOK
<1>3. /\ reader'.stage = "indexed" /\ reader'.alone = reader.alone
      /\ reader'.size = reader.size /\ reader'.frame_count = reader.frame_count
      /\ reader'.index = reader.index
  BY <1>1 DEF Inv, IvfTypeOK
<1>4. ReaderInv'
  BY <1>1, <1>3 DEF Inv, ReaderInv
<1> QED
  BY <1>1, <1>2, <1>4, WriterUndisturbed DEF Inv

LEMMA CloseKeepsInv ==
  ASSUME Inv, Close
  PROVE  Inv'
<1>1. UNCHANGED << file, writer, appended >>
      /\ reader' = [ stage |-> "none", alone |-> FALSE, size |-> 0, frame_count |-> 0,
                     index |-> << >>, position |-> 0 ]
  BY DEF Close, NoReader
<1>2. IvfTypeOK'
  BY <1>1 DEF Inv, IvfTypeOK
<1>3. ReaderInv'
  BY <1>1 DEF ReaderInv
<1> QED
  BY <1>1, <1>2, <1>3, WriterUndisturbed DEF Inv

-----------------------------------------------------------------------------
LEMMA InvAtFirst == IvfInit => Inv
<1> SUFFICES ASSUME IvfInit
             PROVE  Inv
  OBVIOUS
<1>1. /\ file = [ size |-> 0, frame_count |-> 0, spelled |-> << >> ]
      /\ writer = [ stage |-> "closed", left |-> 0, frame_count |-> 0, length |-> 0 ]
      /\ appended = << >>
      /\ reader = [ stage |-> "none", alone |-> FALSE, size |-> 0, frame_count |-> 0,
                    index |-> << >>, position |-> 0 ]
  BY DEF IvfInit, Empty, NoWriter, NoReader
<1>2. IvfTypeOK
  BY <1>1 DEF IvfTypeOK
<1>3. WriterInv /\ ReaderInv
  BY <1>1 DEF WriterInv, ReaderInv, Chained
<1> QED
  BY <1>2, <1>3 DEF Inv

LEMMA InvIsKept == Inv /\ [IvfNext]_ivf_vars => Inv'
<1> SUFFICES ASSUME Inv, [IvfNext]_ivf_vars
             PROVE  Inv'
  OBVIOUS
<1>1. CASE Open
  BY <1>1, OpenKeepsInv
<1>2. CASE WriteFileHeader
  BY <1>2, WriteFileHeaderKeepsInv
<1>3. CASE Opened
  BY <1>3, OpenedKeepsInv
<1>4. CASE \E length \in FrameLengths : append_frame(length)
  BY <1>4, AppendKeepsInv
<1>5. CASE WriteFrameHeader
  BY <1>5, WriteFrameHeaderKeepsInv
<1>6. CASE WriteFrame
  BY <1>6, WriteFrameKeepsInv
<1>7. CASE CountFrame
  BY <1>7, CountFrameKeepsInv
<1>8. CASE Die
  BY <1>8, DieKeepsInv
<1>9. CASE Map
  BY <1>9, MapKeepsInv
<1>10. CASE ReadFileHeader
  BY <1>10, ReadFileHeaderKeepsInv
<1>11. CASE IndexFrame
  BY <1>11, IndexFrameKeepsInv
<1>12. CASE Indexed
  BY <1>12, IndexedKeepsInv
<1>13. CASE Close
  BY <1>13, CloseKeepsInv
<1>14. CASE UNCHANGED ivf_vars
  <2>1. UNCHANGED << file, writer, appended >> /\ reader' = reader
    BY <1>14 DEF ivf_vars
  <2>2. IvfTypeOK'
    BY <2>1 DEF Inv, IvfTypeOK
  <2>3. ReaderInv'
    BY <2>1, ReaderUndisturbed DEF Inv, ReaderInv
  <2> QED
    BY <2>1, <2>2, <2>3, WriterUndisturbed DEF Inv
<1> QED
  BY <1>1, <1>2, <1>3, <1>4, <1>5, <1>6, <1>7, <1>8, <1>9, <1>10, <1>11, <1>12, <1>13, <1>14
     DEF IvfNext

LEMMA InvSuffices == Inv => ReadableAfterCrash
<1> SUFFICES ASSUME Inv
             PROVE  ReadableAfterCrash
  OBVIOUS
<1>1. /\ appended \in Seq(Frames) /\ Chained(appended) /\ reader.index \in Seq(Frames)
      /\ reader.frame_count \in Nat /\ file.size \in Nat /\ reader.size \in Nat
  BY DEF Inv, IvfTypeOK, WriterInv
<1>2. WalkFindsHeaders
  <2> SUFFICES ASSUME reader.stage = "indexing", Len(reader.index) < reader.frame_count
               PROVE  \E f \in 1..Len(file.spelled) :
                        file.spelled[f].offset = reader.position + frame_header_len
    BY DEF WalkFindsHeaders
  <2> DEFINE k == Len(reader.index) + 1
  <2>1. /\ k \in 1..Len(file.spelled) /\ file.spelled[k] = appended[k]
        /\ appended[k].offset = reader.position + F
    BY NextIsSpelled
  <2> QED
    BY <2>1 DEF F
<1>3. reader.stage \in { "indexing", "indexed" } =>
        /\ Len(reader.index) <= Len(appended)
        /\ \A f \in 1..Len(reader.index) : reader.index[f] = appended[f]
  BY <1>1 DEF Inv, ReaderInv
<1>4. reader.stage = "rejected" /\ reader.alone => reader.size < supported_header_len
  BY DEF Inv, ReaderInv, H
<1>5. ASSUME reader.stage = "indexed", reader.alone
      PROVE  /\ reader.index = appended
             /\ \A f \in 1..Len(reader.index) :
                  reader.index[f].offset + reader.index[f].length <= reader.size
  <2>1. Len(reader.index) = Len(appended) /\ reader.size = file.size
    BY <1>5 DEF Inv, ReaderInv
  <2>2. reader.index = appended
    BY <1>1, <1>3, <1>5, <2>1
  <2>3. ASSUME NEW f \in 1..Len(reader.index)
        PROVE  reader.index[f].offset + reader.index[f].length <= reader.size
    <3>1. f \in 1..Len(appended)
      BY <2>2
    <3>2. /\ appended[f].offset + appended[f].length <= End(appended)
          /\ appended[f].offset \in Nat /\ appended[f].length \in Nat
      BY <1>1, <3>1, ChainEnds
    <3>3. appended # << >> /\ End(appended) \in Nat
      BY <1>1, <3>1, EndNat
    <3>4. file.size >= End(appended)
      BY <3>3 DEF Inv, WriterInv
    <3> QED
      BY <1>1, <2>1, <2>2, <3>2, <3>3, <3>4
  <2> QED
    BY <2>2, <2>3
<1> QED
  BY <1>2, <1>3, <1>4, <1>5 DEF ReadableAfterCrash

(* After a crash anywhere, a file shows exactly the frames that append_frame *)
(* returned for, in order and whole (ivf_writer.cc:99-142, ivf.cc:36-84).    *)
THEOREM IvfReadableAfterCrash == IvfSpec => []ReadableAfterCrash
<1>1. IvfInit => Inv
  BY InvAtFirst
<1>2. Inv /\ [IvfNext]_ivf_vars => Inv'
  BY InvIsKept
<1>3. Inv => ReadableAfterCrash
  BY InvSuffices
<1> QED
  BY <1>1, <1>2, <1>3, PTL DEF IvfSpec

(***************************************************************************)
(* The census of the neighbours' vectors.                                  *)
(***************************************************************************)
Four == 0..3

(* A census with its scores and vectors, by the places 0 to 3.               *)
Taken(s, v, split, index) ==
  [ scores |-> s, vectors |-> v, split |-> split, index |-> index ]

(* The points of a vector, in a census of which none is counted twice.       *)
Held(s, v, i, mv) == IF v[i] = mv THEN s[i] ELSE 0
HeldIn(s, v, mv) == Held(s, v, 1, mv) + Held(s, v, 2, mv) + Held(s, v, 3, mv)

(* After k neighbours, of `total' points, `points' of them for each vector.  *)
Tallied(s, v, split, index, k, total, points) ==
  /\ s \in [ Four -> Nat ]
  /\ v \in [ Four -> Vectors ]
  /\ split \in 0..total
  /\ index \in 0..k
  /\ v[0] = Zero
  /\ \A i \in 1..3 : IF i <= index THEN s[i] > 0 /\ v[i] # Zero
                                   ELSE s[i] = 0 /\ v[i] = Zero
  /\ index >= 2 => v[1] # v[2]
  /\ index = 3 => v[2] # v[3]
  /\ s[3] <= 1
  /\ s[0] + s[1] + s[2] + s[3] <= total
  /\ points \in [ Vectors -> Nat ]
  /\ points[Zero] = s[0]
  /\ \A mv \in Vectors \ { Zero } : points[mv] = HeldIn(s, v, mv)

Gained(points, mv, score) == [ points EXCEPT ![mv] = @ + score ]

LEMMA ZeroIsVector == Zero \in Vectors
BY DEF Zero, MotionVector, Vectors

(* A vector added, in the terms of scores and vectors.                       *)
Place(v, index, mv) ==
  IF mv = Zero THEN 0 ELSE IF mv = v[index] THEN index ELSE index + 1

Scored(s, v, index, score, mv) == [ s EXCEPT ![Place(v, index, mv)] = @ + score ]
Listed(v, index, mv) == [ v EXCEPT ![Place(v, index, mv)] = mv ]
LastPlace(v, index, mv) == IF Place(v, index, mv) = 0 THEN index ELSE Place(v, index, mv)

(* Scorer::add as a change to scores and vectors (macroblock.cc:143-155).    *)
LEMMA AddVectorIs ==
  ASSUME NEW s \in [ Four -> Nat ], NEW v \in [ Four -> Vectors ], NEW split, NEW index \in 0..2,
         NEW score \in Nat, NEW mv \in Vectors
  PROVE  AddVector(Taken(s, v, split, index), score, mv)
           = Taken(Scored(s, v, index, score, mv), Listed(v, index, mv), split,
                   LastPlace(v, index, mv))
<1> DEFINE c == Taken(s, v, split, index)
           i == Place(v, index, mv)
<1>1. c.scores = s /\ c.vectors = v /\ c.split = split /\ c.index = index
  BY DEF Taken
<1>2. AddVector(c, score, mv) = [ c EXCEPT !.scores[i] = @ + score, !.vectors[i] = mv,
                                           !.index = IF i = 0 THEN @ ELSE i ]
  <2> HIDE DEF c
  <2>1. i = IF mv = Zero THEN 0 ELSE IF mv = c.vectors[c.index] THEN c.index
                                                                 ELSE c.index + 1
    BY <1>1, Zenon DEF Place
  <2> QED BY <2>1, Zenon DEF AddVector
<1> QED BY <1>2 DEF Taken, Scored, Listed, LastPlace

(* A vector's points go to the place that holds the vector: two places hold  *)
(* the same one only if another came between them.                           *)
LEMMA AddedTally ==
  ASSUME NEW s, NEW v, NEW split, NEW index, NEW k \in 0..2, NEW total \in Nat, NEW points,
         Tallied(s, v, split, index, k, total, points),
         NEW score \in 1..2, k = 2 => score = 1, NEW mv \in Vectors, NEW more \in { 0, score }
  PROVE  Tallied(Scored(s, v, index, score, mv), Listed(v, index, mv), split + more,
                 LastPlace(v, index, mv), k + 1, total + score, Gained(points, mv, score))
<1> DEFINE i == Place(v, index, mv)
           s1 == Scored(s, v, index, score, mv)
           v1 == Listed(v, index, mv)
           n == LastPlace(v, index, mv)
           p1 == Gained(points, mv, score)
<1> SUFFICES Tallied(s1, v1, split + more, n, k + 1, total + score, p1)
  OBVIOUS
<1>0. /\ i = Place(v, index, mv) /\ s1 = [ s EXCEPT ![i] = @ + score ]
      /\ v1 = [ v EXCEPT ![i] = mv ] /\ p1 = Gained(points, mv, score)
      /\ n = IF i = 0 THEN index ELSE i
  BY DEF Scored, Listed, LastPlace
<1> HIDE DEF i, s1, v1, n, p1
<1> USE <1>0
<1>1. Zero \in Vectors
  BY ZeroIsVector
<1>2. split + more \in 0..(total + score)
  BY DEF Tallied
<1>3. CASE mv = Zero
  <2>1. i = 0 /\ n = index
    BY <1>3 DEF Place
  <2>2. s1 \in [ Four -> Nat ] /\ v1 = v /\ s1[0] = s[0] + score /\ s1[1] = s[1]
        /\ s1[2] = s[2] /\ s1[3] = s[3]
    BY <2>1, <1>3 DEF Tallied, Four
  <2>3. p1 \in [ Vectors -> Nat ] /\ p1[Zero] = points[Zero] + score
        /\ \A m \in Vectors \ { Zero } : p1[m] = points[m]
    BY <1>3, <1>1 DEF Gained, Tallied
  <2>4. s[0] \in Nat /\ s[1] \in Nat /\ s[2] \in Nat /\ s[3] \in Nat
    BY DEF Tallied, Four
  <2>5. n \in 0..(k + 1)
    BY <2>1 DEF Tallied
  <2>6. s1[3] <= 1 /\ s1[0] + s1[1] + s1[2] + s1[3] <= total + score
    BY <2>2, <2>4 DEF Tallied
  <2>7. p1[Zero] = s1[0]
    BY <2>2, <2>3 DEF Tallied
  <2>8. \A m \in Vectors \ { Zero } : p1[m] = HeldIn(s1, v1, m)
    BY <2>2, <2>3 DEF Tallied, HeldIn, Held
  <2>9. \A j \in 1..3 : IF j <= n THEN s1[j] > 0 /\ v1[j] # Zero
                                  ELSE s1[j] = 0 /\ v1[j] = Zero
    <3>1. 1..3 = {1, 2, 3}
      OBVIOUS
    <3> QED BY <2>1, <2>2, <3>1 DEF Tallied
  <2>10. /\ v1 \in [ Four -> Vectors ] /\ v1[0] = Zero
         /\ (n >= 2 => v1[1] # v1[2]) /\ (n = 3 => v1[2] # v1[3])
    BY <2>1, <2>2 DEF Tallied
  <2> QED BY <1>2, <2>2, <2>3, <2>5, <2>6, <2>7, <2>8, <2>9, <2>10 DEF Tallied
<1>4. CASE mv # Zero
  <2>1. p1 \in [ Vectors -> Nat ] /\ p1[Zero] = points[Zero] /\ p1[mv] = points[mv] + score
        /\ \A m \in Vectors \ { mv } : p1[m] = points[m]
    BY <1>4, <1>1 DEF Gained, Tallied
  <2>2. i \in 1..3 /\ n = i /\ i \in index..(index + 1) /\ (mv = v[index] <=> i = index)
    BY <1>4 DEF Place, Tallied, Four
  <2>3. /\ s1 \in [ Four -> Nat ] /\ v1 \in [ Four -> Vectors ]
        /\ \A j \in Four : s1[j] = IF j = i THEN s[j] + score ELSE s[j]
        /\ \A j \in Four : v1[j] = IF j = i THEN mv ELSE v[j]
    BY <2>2 DEF Tallied, Four
  <2>4. s1[0] = s[0] /\ v1[0] = Zero
    BY <2>2, <2>3 DEF Tallied, Four
  <2>5. /\ s1[1] = IF 1 = i THEN s[1] + score ELSE s[1]
        /\ s1[2] = IF 2 = i THEN s[2] + score ELSE s[2]
        /\ s1[3] = IF 3 = i THEN s[3] + score ELSE s[3]
        /\ v1[1] = IF 1 = i THEN mv ELSE v[1]
        /\ v1[2] = IF 2 = i THEN mv ELSE v[2]
        /\ v1[3] = IF 3 = i THEN mv ELSE v[3]
    BY <2>3 DEF Four
  <2>6. \A j \in 1..3 : IF j <= n THEN s1[j] > 0 /\ v1[j] # Zero
                                  ELSE s1[j] = 0 /\ v1[j] = Zero
    BY <2>2, <2>3, <1>4 DEF Tallied, Four
  <2>7. (n >= 2 => v1[1] # v1[2]) /\ (n = 3 => v1[2] # v1[3])
    BY <2>2, <2>5, <1>4 DEF Tallied, Four
  <2>8. s1[3] <= 1 /\ s1[0] + s1[1] + s1[2] + s1[3] <= total + score
    BY <2>2, <2>5, <2>4 DEF Tallied, Four
  <2>9. s[1] \in Nat /\ s[2] \in Nat /\ s[3] \in Nat
    BY DEF Tallied, Four
  <2>10. i > index => s[i] = 0 /\ v[i] = Zero
    BY <2>2 DEF Tallied
  <2>11. i = index => v[i] = mv
    BY <2>2
  <2>12. ASSUME NEW m \in Vectors \ { Zero } PROVE p1[m] = HeldIn(s1, v1, m)
    <3>1. points[m] = Held(s, v, 1, m) + Held(s, v, 2, m) + Held(s, v, 3, m)
      BY DEF Tallied, HeldIn
    <3>2. ASSUME NEW j \in 1..3
          PROVE  Held(s1, v1, j, m) = Held(s, v, j, m) + (IF j = i /\ m = mv THEN score ELSE 0)
      <4>1. s1[j] = (IF j = i THEN s[j] + score ELSE s[j])
            /\ v1[j] = (IF j = i THEN mv ELSE v[j]) /\ s[j] \in Nat
        BY <2>3, <2>9 DEF Four
      <4>2. CASE j = i
        BY <4>1, <4>2, <2>10, <2>11, <2>2 DEF Held
      <4>3. CASE j # i
        BY <4>1, <4>3 DEF Held
      <4> QED BY <4>2, <4>3
    <3>3. \A j \in 1..3 : Held(s, v, j, m) \in Nat
      BY <2>9 DEF Held
    <3>4. HeldIn(s1, v1, m) = HeldIn(s, v, m) + (IF m = mv THEN score ELSE 0)
      BY <3>2, <3>3, <2>2 DEF HeldIn
    <3>5. p1[m] = points[m] + (IF m = mv THEN score ELSE 0)
      BY <2>1 DEF Tallied
    <3> QED BY <3>1, <3>4, <3>5 DEF HeldIn
  <2>13. n \in 0..(k + 1)
    BY <2>2 DEF Tallied
  <2>14. p1[Zero] = s1[0]
    BY <2>1, <2>4 DEF Tallied
  <2> QED BY <1>2, <2>1, <2>3, <2>4, <2>6, <2>7, <2>8, <2>12, <2>13, <2>14, Zenon DEF Tallied
<1> QED BY <1>3, <1>4

-----------------------------------------------------------------------------
(* A neighbour's vector in the macroblock's direction of time.               *)
Turned(n, flipped) == IF n.flipped # flipped THEN Negated(n.mv) ELSE n.mv

LEMMA TurnedIsVector ==
  ASSUME NEW n \in Neighbours, NEW flipped
  PROVE  Turned(n, flipped) \in Vectors
<1>1. n.mv \in Vectors
  BY DEF Neighbours
<1>2. Negated(n.mv) \in Vectors
  BY <1>1 DEF Negated, MotionVector, Vectors
<1> QED BY <1>1, <1>2 DEF Turned

(* The points once a neighbour has given its own.                            *)
With(points, n, flipped, score) ==
  IF n.inter THEN Gained(points, Turned(n, flipped), score) ELSE points

(* See Tallied.                                                              *)
CensusOf(c, k, total, points) ==
  \E s, v, split, index :
    c = Taken(s, v, split, index) /\ Tallied(s, v, split, index, k, total, points)

LEMMA AddTally ==
  ASSUME NEW c, NEW k \in 0..2, NEW total \in Nat, NEW points,
         CensusOf(c, k, total, points),
         NEW score \in 1..2, k = 2 => score = 1, NEW n \in Neighbours, NEW flipped
  PROVE  CensusOf(Add(c, score, n, flipped), k + 1, total + score,
                  With(points, n, flipped, score))
<1>1. PICK s, v, split, index :
        c = Taken(s, v, split, index) /\ Tallied(s, v, split, index, k, total, points)
  BY DEF CensusOf
<1>2. /\ s \in [ Four -> Nat ] /\ v \in [ Four -> Vectors ] /\ index \in 0..2
      /\ split \in Nat
  BY <1>1 DEF Tallied
<1>3. CASE ~n.inter
  <2>1. Tallied(s, v, split, index, k + 1, total + score, points)
    <3>1. split \in 0..(total + score) /\ index \in 0..(k + 1)
      BY <1>1 DEF Tallied
    <3>2. s[0] + s[1] + s[2] + s[3] <= total + score
      <4>1. s[0] \in Nat /\ s[1] \in Nat /\ s[2] \in Nat /\ s[3] \in Nat
        BY <1>2 DEF Four
      <4> QED BY <1>1, <4>1 DEF Tallied
    <3> QED BY <1>1, <3>1, <3>2, Zenon DEF Tallied
  <2> QED BY <1>1, <1>3, <2>1, Zenon DEF CensusOf, Add, With
<1>4. CASE n.inter
  <2> DEFINE mv == Turned(n, flipped)
             s1 == Scored(s, v, index, score, mv)
             v1 == Listed(v, index, mv)
             j == LastPlace(v, index, mv)
             more == IF n.split THEN score ELSE 0
             added == AddVector(c, score, mv)
  <2>1. mv \in Vectors
    BY TurnedIsVector
  <2>2. added = Taken(s1, v1, split, j)
    BY <1>1, <1>2, <2>1, AddVectorIs
  <2>3. Tallied(s1, v1, split + more, j, k + 1, total + score, Gained(points, mv, score))
    <3>1. more \in { 0, score }
      OBVIOUS
    <3> HIDE DEF more
    <3> QED BY <1>1, <2>1, <3>1, AddedTally
  <2>4. Add(c, score, n, flipped) = Taken(s1, v1, split + more, j)
    <3>1. Add(c, score, n, flipped) = [ added EXCEPT !.split = IF n.split THEN @ + score ELSE @ ]
      BY <1>4, Zenon DEF Add, Turned
    <3> HIDE DEF s1, v1, j, added
    <3>2. [ added EXCEPT !.split = IF n.split THEN @ + score ELSE @ ]
            = Taken(s1, v1, IF n.split THEN split + score ELSE split, j)
      BY <2>2 DEF Taken
    <3>3. (IF n.split THEN split + score ELSE split) = split + more
      BY <1>2
    <3> QED BY <3>1, <3>2, <3>3
  <2>5. With(points, n, flipped, score) = Gained(points, mv, score)
    BY <1>4 DEF With
  <2> QED BY <2>3, <2>4, <2>5 DEF CensusOf
<1> QED BY <1>3, <1>4

-----------------------------------------------------------------------------
(* The scores of the two foremost vectors are their points, and no other     *)
(* vector but zero has more than both.                                       *)
Ranked(s, v, points) ==
  /\ s[0] \in 0..5 /\ s[1] \in 0..5 /\ s[2] \in 0..5
  /\ v[0] = Zero
  /\ v[1] \in Vectors /\ v[2] \in Vectors
  /\ v[1] = v[2] => v[1] = Zero
  /\ \A i \in 1..2 : IF v[i] = Zero THEN s[i] = 0 ELSE s[i] > 0 /\ points[v[i]] = s[i]
  /\ points \in [ Vectors -> Nat ]
  /\ points[Zero] = s[0]
  /\ \A mv \in Vectors \ { Zero } : points[mv] <= s[1] \/ points[mv] <= s[2]

(* Only a third vector equal to the first can be held in two places, and it  *)
(* has been added to the first; a third of its own has the least points.     *)
LEMMA JoinedIsRanked ==
  ASSUME NEW s, NEW v, NEW split, NEW index, NEW points,
         Tallied(s, v, split, index, 3, 5, points),
         NEW s1, s1 = IF s[3] > 0 /\ v[index] = v[1] THEN [ s EXCEPT ![1] = @ + s[3] ] ELSE s
  PROVE  Ranked(s1, v, points)
<1>1. /\ s[0] \in Nat /\ s[1] \in Nat /\ s[2] \in Nat /\ s[3] \in 0..1
      /\ s[0] + s[1] + s[2] + s[3] <= 5
      /\ v[0] = Zero /\ v[1] \in Vectors /\ v[2] \in Vectors /\ v[3] \in Vectors
      /\ points \in [ Vectors -> Nat ] /\ points[Zero] = s[0]
  BY DEF Tallied, Four
<1>2. s[3] > 0 <=> index = 3
  BY DEF Tallied
<1>3. /\ s1[0] = s[0] /\ s1[2] = s[2]
      /\ s1[1] = s[1] + (IF index = 3 /\ v[3] = v[1] THEN s[3] ELSE 0)
  <2>1. s \in [ Four -> Nat ]
    BY DEF Tallied
  <2>2. CASE index = 3 /\ v[3] = v[1]
    BY <1>1, <1>2, <2>1, <2>2 DEF Four
  <2>3. CASE ~(index = 3 /\ v[3] = v[1])
    BY <1>1, <1>2, <2>3
  <2> QED BY <2>2, <2>3
<1>4. /\ index \in 0..3
      /\ (IF 1 <= index THEN s[1] > 0 /\ v[1] # Zero ELSE s[1] = 0 /\ v[1] = Zero)
      /\ (IF 2 <= index THEN s[2] > 0 /\ v[2] # Zero ELSE s[2] = 0 /\ v[2] = Zero)
      /\ (IF 3 <= index THEN s[3] > 0 /\ v[3] # Zero ELSE s[3] = 0 /\ v[3] = Zero)
      /\ index >= 2 => v[1] # v[2]
      /\ index = 3 => v[2] # v[3]
  BY DEF Tallied
<1>5. \A mv \in Vectors \ { Zero } :
        points[mv] = (IF v[1] = mv THEN s[1] ELSE 0) + (IF v[2] = mv THEN s[2] ELSE 0)
                     + (IF v[3] = mv THEN s[3] ELSE 0)
  BY DEF Tallied, HeldIn, Held
<1>6. v[1] = v[2] => v[1] = Zero
  BY <1>4
<1>7. IF v[1] = Zero THEN s1[1] = 0 ELSE s1[1] > 0 /\ points[v[1]] = s1[1]
  BY <1>1, <1>3, <1>4, <1>5
<1>8. IF v[2] = Zero THEN s1[2] = 0 ELSE s1[2] > 0 /\ points[v[2]] = s1[2]
  BY <1>1, <1>3, <1>4, <1>5
<1>9. ASSUME NEW mv \in Vectors \ { Zero } PROVE points[mv] <= s1[1] \/ points[mv] <= s1[2]
  BY <1>1, <1>3, <1>4, <1>5
<1>10. s1[0] \in 0..5 /\ s1[1] \in 0..5 /\ s1[2] \in 0..5
  BY <1>1, <1>3
<1>11. \A i \in 1..2 : i = 1 \/ i = 2
  OBVIOUS
<1> QED BY <1>1, <1>3, <1>6, <1>7, <1>8, <1>9, <1>10, <1>11, Zenon DEF Ranked

LEMMA OrderedIsRanked ==
  ASSUME NEW s, NEW v, NEW points, Ranked(s, v, points),
         s \in [ Four -> Nat ], v \in [ Four -> Vectors ],
         NEW s1, NEW v1,
         IF s[2] > s[1]
         THEN /\ s1 = [ s EXCEPT ![1] = s[2], ![2] = s[1] ]
              /\ v1 = [ v EXCEPT ![1] = v[2], ![2] = v[1] ]
         ELSE s1 = s /\ v1 = v
  PROVE  Ranked(s1, v1, points) /\ s1[1] >= s1[2]
<1>1. s[1] \in Nat /\ s[2] \in Nat
  BY DEF Four
<1>2. CASE s[2] > s[1]
  <2>1. /\ s1[0] = s[0] /\ s1[1] = s[2] /\ s1[2] = s[1]
        /\ v1[0] = v[0] /\ v1[1] = v[2] /\ v1[2] = v[1]
    BY <1>2 DEF Four
  <2>2. \A i \in 1..2 : IF v1[i] = Zero THEN s1[i] = 0
                                        ELSE s1[i] > 0 /\ points[v1[i]] = s1[i]
    <3>1. 1..2 = {1, 2}
      OBVIOUS
    <3> QED BY <2>1, <3>1 DEF Ranked
  <2>3. s1[1] >= s1[2]
    BY <1>1, <1>2, <2>1
  <2>4. \A mv \in Vectors \ { Zero } : points[mv] <= s1[1] \/ points[mv] <= s1[2]
    BY <2>1, Zenon DEF Ranked
  <2> QED BY <2>1, <2>2, <2>3, <2>4, Zenon DEF Ranked
<1>3. CASE ~(s[2] > s[1])
  BY <1>1, <1>3
<1> QED BY <1>2, <1>3

(* What the candidates and contexts are taken from.                          *)
FairCensus(c, points) ==
  \E s, v :
    /\ Ranked(s, v, points)
    /\ s[1] >= s[2]
    /\ best(c) = IF s[1] >= s[0] THEN v[1] ELSE Zero
    /\ nearest(c) = v[1]
    /\ near(c) = v[2]
    /\ mode_contexts(c)[1] = s[0] /\ mode_contexts(c)[2] = s[1]
    /\ mode_contexts(c)[3] = s[2] /\ mode_contexts(c)[4] \in 0..5

LEMMA BasedIs ==
  ASSUME NEW s, NEW v \in [ Four -> Vectors ], v[0] = Zero, NEW split, NEW index
  PROVE  LET c == Based(Taken(s, v, split, index))
         IN /\ c.scores = s /\ c.split = split
            /\ c.vectors[0] = (IF s[1] >= s[0] THEN v[1] ELSE Zero)
            /\ c.vectors[1] = v[1] /\ c.vectors[2] = v[2]
<1> DEFINE c == Taken(s, v, split, index)
<1>1. c.scores = s /\ c.vectors = v /\ c.split = split /\ c.index = index
  BY DEF Taken
<1>2. CASE s[1] >= s[0]
  <2>1. Based(c) = [ c EXCEPT !.vectors[0] = c.vectors[1] ]
    BY <1>1, <1>2 DEF Based
  <2>2. Based(c) = Taken(s, [ v EXCEPT ![0] = v[1] ], split, index)
    BY <2>1 DEF Taken
  <2>3. [ v EXCEPT ![0] = v[1] ][0] = v[1] /\ [ v EXCEPT ![0] = v[1] ][1] = v[1]
        /\ [ v EXCEPT ![0] = v[1] ][2] = v[2]
    BY DEF Four
  <2>4. /\ Based(c).scores = s /\ Based(c).split = split
        /\ Based(c).vectors = [ v EXCEPT ![0] = v[1] ]
    <3> DEFINE d == Based(c)
    <3>1. d = Taken(s, [ v EXCEPT ![0] = v[1] ], split, index)
      BY <2>2
    <3> HIDE DEF d
    <3>2. /\ d.scores = s /\ d.split = split /\ d.vectors = [ v EXCEPT ![0] = v[1] ]
      BY <3>1 DEF Taken
    <3> QED BY <3>2 DEF d
  <2> HIDE DEF c
  <2>5. /\ Based(c).scores = s /\ Based(c).split = split
        /\ Based(c).vectors[0] = (IF s[1] >= s[0] THEN v[1] ELSE Zero)
        /\ Based(c).vectors[1] = v[1] /\ Based(c).vectors[2] = v[2]
    BY <1>2, <2>3, <2>4
  <2> QED BY <2>5 DEF c
<1>3. CASE ~(s[1] >= s[0])
  <2>1. Based(c) = c
    BY <1>1, <1>3 DEF Based
  <2> QED BY <1>1, <1>3, <2>1
<1> QED BY <1>2, <1>3

(* Scorer::calculate (macroblock.cc:157-174)                                 *)
LEMMA CalculateIsFair ==
  ASSUME NEW c, NEW points, CensusOf(c, 3, 5, points)
  PROVE  FairCensus(Calculate(c), points)
<1>1. PICK s, v, split, index :
        c = Taken(s, v, split, index) /\ Tallied(s, v, split, index, 3, 5, points)
  BY DEF CensusOf
<1>2. /\ s \in [ Four -> Nat ] /\ v \in [ Four -> Vectors ] /\ split \in 0..5
      /\ s[1] \in Nat /\ s[3] \in Nat
  BY <1>1 DEF Tallied, Four
<1>3. c.scores = s /\ c.vectors = v /\ c.split = split /\ c.index = index
  BY <1>1 DEF Taken
<1> DEFINE s1 == IF s[3] > 0 /\ v[index] = v[1] THEN [ s EXCEPT ![1] = @ + s[3] ] ELSE s
           s2 == IF s1[2] > s1[1] THEN [ s1 EXCEPT ![1] = s1[2], ![2] = s1[1] ] ELSE s1
           v2 == IF s1[2] > s1[1] THEN [ v EXCEPT ![1] = v[2], ![2] = v[1] ] ELSE v
<1>4. ThirdJoined(c) = Taken(s1, v, split, index)
  <2>1. ThirdJoined(c) = IF s[3] > 0 /\ v[index] = v[1]
                         THEN [ c EXCEPT !.scores[1] = @ + s[3] ] ELSE c
    BY <1>3, Zenon DEF ThirdJoined
  <2> QED BY <1>1, <2>1 DEF Taken
<1>5. Ranked(s1, v, points)
  BY <1>1, JoinedIsRanked
<1>6. s1 \in [ Four -> Nat ]
  BY <1>2 DEF Four
<1> HIDE DEF s1
<1>7. Ordered(Taken(s1, v, split, index)) = Taken(s2, v2, split, index)
  <2> DEFINE d == Taken(s1, v, split, index)
  <2>1. d.scores = s1 /\ d.vectors = v
    BY DEF Taken
  <2>2. Ordered(d) = IF s1[2] > s1[1]
                     THEN [ d EXCEPT !.scores[1] = s1[2], !.scores[2] = s1[1],
                                     !.vectors[1] = v[2], !.vectors[2] = v[1] ]
                     ELSE d
    <3> HIDE DEF d
    <3> QED BY <2>1, Zenon DEF Ordered
  <2> QED BY <2>2 DEF Taken
<1>8. Ranked(s2, v2, points) /\ s2[1] >= s2[2]
  <2>1. IF s1[2] > s1[1]
        THEN /\ s2 = [ s1 EXCEPT ![1] = s1[2], ![2] = s1[1] ]
             /\ v2 = [ v EXCEPT ![1] = v[2], ![2] = v[1] ]
        ELSE s2 = s1 /\ v2 = v
    BY Zenon
  <2> HIDE DEF s2, v2
  <2> QED BY <1>2, <1>5, <1>6, <2>1, OrderedIsRanked
<1>9. v2 \in [ Four -> Vectors ] /\ v2[0] = Zero
  BY <1>2, <1>8 DEF Four, Ranked
<1> HIDE DEF s2, v2
<1>10. Calculate(c) = Based(Taken(s2, v2, split, index))
  BY <1>4, <1>7, Zenon DEF Calculate
<1> DEFINE d == Calculate(c)
<1>11. /\ d.scores = s2 /\ d.split = split
       /\ d.vectors[0] = (IF s2[1] >= s2[0] THEN v2[1] ELSE Zero)
       /\ d.vectors[1] = v2[1] /\ d.vectors[2] = v2[2]
  BY <1>9, <1>10, BasedIs
<1> HIDE DEF d
<1>12. /\ best(d) = (IF s2[1] >= s2[0] THEN v2[1] ELSE Zero)
       /\ nearest(d) = v2[1] /\ near(d) = v2[2]
  BY <1>11, Zenon DEF best, nearest, near
<1>13. /\ mode_contexts(d)[1] = s2[0] /\ mode_contexts(d)[2] = s2[1]
       /\ mode_contexts(d)[3] = s2[2] /\ mode_contexts(d)[4] \in 0..5
  BY <1>2, <1>11 DEF mode_contexts
<1>14. FairCensus(d, points)
  BY <1>8, <1>12, <1>13, Zenon DEF FairCensus
<1> QED BY <1>14 DEF d

-----------------------------------------------------------------------------
NoPoints == [ mv \in Vectors |-> 0 ]

LEMMA ScorerTally == CensusOf(Scorer, 0, 0, NoPoints)
<1> DEFINE s == [ i \in Four |-> 0 ]
           v == [ i \in Four |-> Zero ]
<1>1. Scorer = Taken(s, v, 0, 0)
  BY DEF Scorer, Taken, Four
<1>2. Tallied(s, v, 0, 0, 0, 0, NoPoints)
  BY ZeroIsVector DEF Tallied, NoPoints, HeldIn, Held, Four
<1> QED BY <1>1, <1>2, Zenon DEF CensusOf

Census3(a, l, al, flipped) ==
  With(With(With(NoPoints, a, flipped, 2), l, flipped, 2), al, flipped, 1)

(* The points handed out one by one are those of Points.                     *)
LEMMA PointsAre ==
  ASSUME NEW a \in Neighbours, NEW l \in Neighbours, NEW al \in Neighbours,
         NEW flipped, NEW mv \in Vectors
  PROVE  Census3(a, l, al, flipped)[mv] = Points(mv, << a, l, al >>, flipped)
<1> DEFINE Gain(n, score) == IF n.inter /\ Turned(n, flipped) = mv THEN score ELSE 0
<1>1. ASSUME NEW p \in [ Vectors -> Nat ], NEW n \in Neighbours, NEW score \in Nat
      PROVE  /\ With(p, n, flipped, score) \in [ Vectors -> Nat ]
             /\ With(p, n, flipped, score)[mv] = p[mv] + Gain(n, score)
  <2>1. Turned(n, flipped) \in Vectors
    BY TurnedIsVector
  <2> QED BY <2>1 DEF With, Gained
<1>2. NoPoints \in [ Vectors -> Nat ] /\ NoPoints[mv] = 0
  BY DEF NoPoints
<1>3. Points(mv, << a, l, al >>, flipped) = Gain(a, 2) + Gain(l, 2) + Gain(al, 1)
  BY DEF Points, Turned
<1>4. Gain(a, 2) \in Nat /\ Gain(l, 2) \in Nat /\ Gain(al, 1) \in Nat
  OBVIOUS
<1> HIDE DEF Gain
<1> DEFINE p1 == With(NoPoints, a, flipped, 2)
           p2 == With(p1, l, flipped, 2)
           p3 == With(p2, al, flipped, 1)
<1>5. p1 \in [ Vectors -> Nat ] /\ p1[mv] = Gain(a, 2)
  BY <1>1, <1>2, <1>4
<1> HIDE DEF p1
<1>6. p2 \in [ Vectors -> Nat ] /\ p2[mv] = Gain(a, 2) + Gain(l, 2)
  BY <1>1, <1>5
<1> HIDE DEF p2
<1>7. p3[mv] = Gain(a, 2) + Gain(l, 2) + Gain(al, 1)
  BY <1>1, <1>6
<1> QED BY <1>3, <1>7 DEF Census3, p1, p2, p3

(* InterFrameMacroblock::motion_vector_census (macroblock.cc:301-312)        *)
LEMMA CensusAlwaysFair ==
  ASSUME NEW a \in Neighbours, NEW l \in Neighbours, NEW al \in Neighbours, NEW flipped
  PROVE  CensusIsFair(a, l, al, flipped)
<1> DEFINE n == << a, l, al >>
           p == Census3(a, l, al, flipped)
           c == motion_vector_census(a, l, al, flipped)
<1>1. FairCensus(c, p)
  <2>1. CensusOf(Add(Scorer, 2, a, flipped), 1, 2, With(NoPoints, a, flipped, 2))
    BY ScorerTally, AddTally
  <2>2. CensusOf(Add(Add(Scorer, 2, a, flipped), 2, l, flipped), 2, 4,
                 With(With(NoPoints, a, flipped, 2), l, flipped, 2))
    <3>1. 2 \in 1..2 /\ 1 \in 0..2 /\ 2 \in Nat /\ (1 = 2 => 2 = 1)
      OBVIOUS
    <3>2. CensusOf(Add(Add(Scorer, 2, a, flipped), 2, l, flipped), 1 + 1, 2 + 2,
                   With(With(NoPoints, a, flipped, 2), l, flipped, 2))
      BY <2>1, <3>1, AddTally, Zenon
    <3>3. 1 + 1 = 2 /\ 2 + 2 = 4
      OBVIOUS
    <3> QED BY <3>2, <3>3
  <2>3. CensusOf(Add(Add(Add(Scorer, 2, a, flipped), 2, l, flipped), 1, al, flipped), 3, 5, p)
    BY <2>2, AddTally DEF Census3
  <2> QED BY <2>3, CalculateIsFair DEF motion_vector_census
<1>2. PICK s, v :
        /\ Ranked(s, v, p)
        /\ s[1] >= s[2]
        /\ best(c) = IF s[1] >= s[0] THEN v[1] ELSE Zero
        /\ nearest(c) = v[1]
        /\ near(c) = v[2]
        /\ mode_contexts(c)[1] = s[0] /\ mode_contexts(c)[2] = s[1]
        /\ mode_contexts(c)[3] = s[2] /\ mode_contexts(c)[4] \in 0..5
  BY <1>1 DEF FairCensus
<1>3. \A mv \in Vectors : Points(mv, n, flipped) = p[mv]
  BY PointsAre
<1>4. p[Zero] = s[0] /\ p \in [ Vectors -> Nat ]
      /\ s[0] \in 0..5 /\ s[1] \in 0..5 /\ s[2] \in 0..5
      /\ v[1] \in Vectors /\ v[2] \in Vectors /\ Zero \in Vectors
  BY <1>2, ZeroIsVector DEF Ranked
<1>5. /\ IF v[1] = Zero THEN s[1] = 0 ELSE s[1] > 0 /\ p[v[1]] = s[1]
      /\ IF v[2] = Zero THEN s[2] = 0 ELSE s[2] > 0 /\ p[v[2]] = s[2]
  BY <1>2 DEF Ranked
<1>6. \A mv \in Vectors \ { Zero } : p[mv] <= s[1]
  BY <1>2, <1>4 DEF Ranked
<1> HIDE DEF n, p, c
<1>7. \A mv \in { best(c), nearest(c), near(c) } \ { Zero } : Points(mv, n, flipped) > 0
  BY <1>2, <1>3, <1>4, <1>5
<1>8. nearest(c) = near(c) => nearest(c) = Zero
  BY <1>2 DEF Ranked
<1>9. Points(best(c), n, flipped) >= Points(Zero, n, flipped)
  BY <1>2, <1>3, <1>4, <1>5
<1>10. ASSUME NEW k \in 1..3, n[k].inter, Turned(n[k], flipped) # Zero
       PROVE  Points(Turned(n[k], flipped), n, flipped) <= Points(nearest(c), n, flipped)
  <2>1. n[k] \in Neighbours
    BY DEF n
  <2>2. Turned(n[k], flipped) \in Vectors \ { Zero }
    BY <1>10, <2>1, TurnedIsVector
  <2>3. p[Turned(n[k], flipped)] <= s[1]
    BY <1>6, <2>2
  <2>4. p[v[1]] >= s[1]
    BY <1>4, <1>5
  <2>5. p[Turned(n[k], flipped)] \in Nat /\ p[v[1]] \in Nat
    BY <1>4, <2>2
  <2> QED BY <1>2, <1>3, <1>4, <2>2, <2>3, <2>4, <2>5
<1>11. \A k \in 1..4 : mode_contexts(c)[k] \in 0..5
  <2>1. 1..4 = {1, 2, 3, 4}
    OBVIOUS
  <2> QED BY <1>2, <1>4, <2>1
<1> QED BY <1>7, <1>8, <1>9, <1>10, <1>11, Zenon DEF CensusIsFair, Turned, n, c

-----------------------------------------------------------------------------
(* Coding one part leaves what is sampled of another as it was.              *)
LEMMA SampleIsSample == Spec => [](sample = NoSample \/ sample \in Samples)
<1> DEFINE SampleInv == sample = NoSample \/ sample \in Samples
<1>1. Init => SampleInv
  BY DEF Init
<1>2. SampleInv /\ [Next]_vars => SampleInv'
  <2> SUFFICES ASSUME SampleInv, [Next]_vars PROVE SampleInv'
    OBVIOUS
  <2>1. Samples' = Samples /\ NoSample' = NoSample
    BY DEF Samples, NoSample
  <2>2. CASE UNCHANGED sample
    BY <2>1, <2>2
  <2>3. CASE sample' \in Samples
    BY <2>1, <2>3
  <2> QED BY <2>2, <2>3, Zenon DEF Next, CodeBit, CodeMacroblock, CodeSample,
                                   WriteAndReadFile, vars
<1> QED BY <1>1, <1>2, PTL DEF Spec

(* The candidates a macroblock's vector is coded by (macroblock.cc:143-174,  *)
(* scorer.hh), for neighbours with any vectors.                              *)
THEOREM CandidatesAlwaysFair == Spec => []CandidatesAreFair
<1>1. sample = NoSample \/ sample \in Samples => CandidatesAreFair
  <2> SUFFICES ASSUME sample = NoSample \/ sample \in Samples, sample.part = "census"
               PROVE  LET n == sample.neighbours
                      IN CensusIsFair(n[1], n[2], n[3], FALSE)
    BY DEF CandidatesAreFair
  <2>1. PICK n \in Neighbourhoods : sample = [ part |-> "census", neighbours |-> n ]
    BY DEF Samples, NoSample
  <2>2. n[1] \in Neighbours /\ n[2] \in Neighbours /\ n[3] \in Neighbours
    BY NeighbourhoodAssumption
  <2>3. sample.neighbours = n
    BY <2>1
  <2> QED BY <2>2, <2>3, CensusAlwaysFair
<1> QED BY <1>1, SampleIsSample, PTL
=============================================================================
