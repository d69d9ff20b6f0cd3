----------------------------- MODULE FrameLayout -----------------------------
(***************************************************************************)
(* The octets of a frame around its partitions: what make_frame puts       *)
(* together (serializer.cc), UncompressedChunk and dct_partitions take     *)
(* apart (uncompressed_chunk.cc), from the whole frame or, with error      *)
(* concealment, from as much of it as has come.                            *)
(***************************************************************************)
EXTENDS Integers, Sequences, SequencesExt

Octets(n, count) == [ i \in 1..count |-> (n \div 256^(i - 1)) % 256 ]

Tag(frame, length) ==
  << (IF frame.key THEN 0 ELSE 1) + (IF frame.show THEN 16 ELSE 0) + 32 * (length % 8),
     (length \div 8) % 256, (length \div 2048) % 256 >>

start_code == << 157, 1, 42 >>

(* make_frame, for a key frame or an inter frame as KeyFrame::serialize and  *)
(* InterFrame::serialize call it.                                            *)
make_frame(frame) ==
  LET parts == frame.dct_partitions
      lengths == [ i \in 1..(Len(parts) - 1) |-> Octets(Len(parts[i]), 3) ]
  IN Tag(frame, Len(frame.first_partition))
     \o (IF frame.key
         THEN start_code \o Octets(frame.width % 16384, 2) \o Octets(frame.height % 16384, 2)
         ELSE << >>)
     \o frame.first_partition \o FlattenSeq(lengths) \o FlattenSeq(parts)

-----------------------------------------------------------------------------
(* A Chunk throws out_of_range when it is asked for more than it holds.      *)
Holds(chunk, offset, length) == length >= 0 /\ offset + length <= Len(chunk)
Part(chunk, offset, length) == SubSeq(chunk, offset + 1, offset + length)
After(chunk, offset) == SubSeq(chunk, offset + 1, Len(chunk))

bits(chunk, offset, length) ==
  LET octets == 1 + ((offset + length - 1) \div 8)
      value == FoldLeft(LAMBDA n, i : n + chunk[i] * 256^(i - 1), 0,
                        [ i \in 1..octets |-> i ])
  IN (value \div 2^offset) % 2^length

NO_CORRUPTION == "no corruption"
CORRUPTED_FIRST_PARTITION == "corrupted first partition"
CORRUPTED_FRAME == "corrupted frame"

Chunks(level, key, first, rest) ==
  [ corruption_level |-> level, key |-> key, first_partition |-> first, rest |-> rest ]

Invalid == Chunks("invalid", FALSE, << >>, << >>)

(* The key frame's start code and its size, which are looked at last.        *)
KeyHeader(frame, width, height) ==
  IF ~Holds(frame, 3, 7) THEN "truncated"
  ELSE IF Part(frame, 3, 3) # start_code THEN "invalid"
  ELSE LET sizes == Part(frame, 6, 4)
       IN IF /\ bits(sizes, 0, 14) = width /\ bits(sizes, 14, 2) = 0
             /\ bits(After(sizes, 2), 0, 14) = height /\ bits(After(sizes, 2), 14, 2) = 0
          THEN "fits" ELSE "unsupported"

UncompressedChunk(frame, width, height, accept_partial) ==
  LET truncated == IF accept_partial THEN Chunks(CORRUPTED_FRAME, FALSE, << >>, << >>)
                                     ELSE Invalid
      key == bits(frame, 0, 1) = 0
      offset == IF key THEN 10 ELSE 3
      length == bits(frame, 5, 19)
      short == Len(frame) <= offset + length
      found == IF short THEN Chunks(CORRUPTED_FIRST_PARTITION, key, After(frame, offset), << >>)
               ELSE Chunks(NO_CORRUPTION, key, Part(frame, offset, length),
                           After(frame, offset + length))
  IN IF Len(frame) < 3 THEN truncated
     ELSE IF short /\ ~accept_partial THEN Invalid
     ELSE IF Len(frame) < offset THEN truncated
     ELSE IF ~key THEN found
     ELSE LET header == KeyHeader(frame, width, height)
          IN IF header = "truncated" THEN truncated
             ELSE IF header = "fits" THEN found ELSE Invalid

(* Undefined stands for out_of_range, which nobody catches here.             *)
Undefined == << << -1 >> >>

dct_partitions(rest, num) ==
  LET lengths == [ i \in 1..(num - 1) |-> bits(After(rest, 3 * (i - 1)), 0, 24) ]
      begin[i \in 1..num] == IF i = 1 THEN 3 * (num - 1) ELSE begin[i - 1] + lengths[i - 1]
  IN IF ~Holds(rest, 0, 3 * (num - 1)) \/ begin[num] > Len(rest) THEN Undefined
     ELSE [ i \in 1..num |-> IF i = num THEN After(rest, begin[num])
                                        ELSE Part(rest, begin[i], lengths[i]) ]

-----------------------------------------------------------------------------
(* A frame comes apart as it was put together.  Of a frame cut short the     *)
(* tolerant reader never says more than it has: what it takes for the first  *)
(* partition begins the real one, and a cut behind it leaves all but the     *)
(* last DCT partition whole, or is not survived.                             *)
LayoutReadsBack(frame) ==
  LET whole == make_frame(frame)
      num == Len(frame.dct_partitions)
      read == UncompressedChunk(whole, frame.width, frame.height, FALSE)
  IN /\ read.corruption_level = NO_CORRUPTION
     /\ read.key = frame.key
     /\ read.first_partition = frame.first_partition
     /\ dct_partitions(read.rest, num) = frame.dct_partitions
     /\ \A cut \in { c \in frame.cuts : c < Len(whole) } :
          LET some == UncompressedChunk(SubSeq(whole, 1, cut), frame.width, frame.height, TRUE)
              parts == dct_partitions(some.rest, num)
          IN /\ some.corruption_level # "invalid"
             /\ IsPrefix(some.first_partition, frame.first_partition)
             /\ some.corruption_level = NO_CORRUPTION =>
                  /\ some.key = frame.key
                  /\ some.first_partition = frame.first_partition
                  /\ parts # Undefined =>
                       /\ \A i \in 1..(num - 1) : parts[i] = frame.dct_partitions[i]
                       /\ IsPrefix(parts[num], frame.dct_partitions[num])
=============================================================================
