------------------------------- MODULE IvfFile -------------------------------
(***************************************************************************)
(* An IVF file as it is written (ivf_writer.cc) and read (ivf.cc): frames  *)
(* are appended and then counted in the file's header, by a process that   *)
(* may die anywhere, and that starts the file anew when it starts again;   *)
(* a reader maps what it finds, reads the count and walks over the frames. *)
(* Bytes are counted; of their contents only the lengths in front of the   *)
(* frames and the number of frames matter.                                 *)
(***************************************************************************)
EXTENDS Integers, Sequences

CONSTANTS
  supported_header_len,   (* of the file's header, 32 in the code            *)
  frame_header_len,       (* of a frame's, 12 in the code                    *)
  FrameLengths,           (* of the frames that are appended                 *)
  MaxAppended             (* bound: frames in one file                       *)

ASSUME IvfAssumption ==
  /\ supported_header_len \in Nat \ {0} /\ frame_header_len \in Nat \ {0}
  /\ FrameLengths \subseteq Nat /\ MaxAppended \in Nat

VARIABLES
  file,       (* its size, the count in its header, the lengths it spells    *)
  writer,     (* what it does, bytes left to write, its count and frame      *)
  appended,   (* what append_frame has returned, with the lengths            *)
  reader      (* its stage, mapped size, count and frame_index_              *)

ivf_vars == << file, writer, appended, reader >>

Empty == [ size |-> 0, frame_count |-> 0, spelled |-> << >> ]
NoReader == [ stage |-> "none", alone |-> FALSE, size |-> 0, frame_count |-> 0,
              index |-> << >>, position |-> 0 ]
NoWriter == [ stage |-> "closed", left |-> 0, frame_count |-> 0, length |-> 0 ]

IvfInit ==
  /\ file = Empty
  /\ writer = NoWriter
  /\ appended = << >>
  /\ reader = NoReader

(* O_TRUNC: nobody reads a file while it is begun again.                     *)
Open ==
  /\ writer.stage = "closed"
  /\ reader.stage = "none"
  /\ file' = Empty
  /\ writer' = [ NoWriter EXCEPT !.stage = "header", !.left = supported_header_len ]
  /\ appended' = << >>
  /\ UNCHANGED reader

(* write() may write less than it is given.                                  *)
Write(n) ==
  /\ n \in 1..writer.left
  /\ writer' = [ writer EXCEPT !.left = @ - n ]

WriteFileHeader ==
  /\ writer.stage = "header"
  /\ \E n \in 1..supported_header_len :
       Write(n) /\ file' = [ file EXCEPT !.size = @ + n ]
  /\ UNCHANGED << appended, reader >>

Opened ==
  /\ writer.stage = "header" /\ writer.left = 0
  /\ writer' = [ writer EXCEPT !.stage = "idle" ]
  /\ UNCHANGED << file, appended, reader >>

(* Seeded fault: the frame is counted before it is written.                  *)
CountFirst(length) ==
  /\ writer.stage = "idle"
  /\ Len(appended) < MaxAppended
  /\ writer' = [ writer EXCEPT !.stage = "frame_header", !.left = frame_header_len,
                               !.length = length ]
  /\ file' = [ file EXCEPT !.frame_count = @ + 1 ]
  /\ UNCHANGED << appended, reader >>

append_frame(length) ==
  /\ writer.stage = "idle"
  /\ Len(appended) < MaxAppended
  /\ writer' = [ writer EXCEPT !.stage = "frame_header", !.left = frame_header_len,
                               !.length = length ]
  /\ UNCHANGED << file, appended, reader >>

(* The length is there when the last byte of the frame's header is.          *)
WriteFrameHeader ==
  /\ writer.stage = "frame_header"
  /\ \E n \in 1..frame_header_len :
       /\ n \in 1..writer.left
       /\ writer' = IF n < writer.left THEN [ writer EXCEPT !.left = @ - n ]
                    ELSE [ writer EXCEPT !.stage = "frame", !.left = writer.length ]
       /\ file' = [ size |-> file.size + n, frame_count |-> file.frame_count,
                    spelled |->
                      IF n < writer.left THEN file.spelled
                      ELSE Append(file.spelled, [ offset |-> file.size + n,
                                                  length |-> writer.length ]) ]
  /\ UNCHANGED << appended, reader >>

WriteFrame ==
  /\ writer.stage = "frame"
  /\ \E n \in 1..writer.left : Write(n) /\ file' = [ file EXCEPT !.size = @ + n ]
  /\ UNCHANGED << appended, reader >>

CountFrame ==
  /\ writer.stage = "frame" /\ writer.left = 0
  /\ writer' = [ writer EXCEPT !.stage = "idle", !.frame_count = @ + 1 ]
  /\ file' = [ file EXCEPT !.frame_count = writer.frame_count + 1 ]
  /\ appended' = Append(appended, [ offset |-> file.size - writer.length,
                                    length |-> writer.length ])
  /\ UNCHANGED reader

(* The process ends, anywhere; what is written stays.                        *)
Die ==
  /\ writer.stage # "closed"
  /\ writer' = NoWriter
  /\ UNCHANGED << file, appended, reader >>

-----------------------------------------------------------------------------
Rejected == [ NoReader EXCEPT !.stage = "rejected", !.alone = reader.alone,
                              !.size = reader.size ]

(* The size is asked for, and that much is mapped.                           *)
Map ==
  /\ reader.stage = "none"
  /\ reader' = [ NoReader EXCEPT !.stage = "mapped", !.alone = writer.stage = "closed",
                                 !.size = file.size ]
  /\ UNCHANGED << file, writer, appended >>

(* The mapping is shared: the count is that of this moment.                  *)
ReadFileHeader ==
  /\ reader.stage = "mapped"
  /\ reader' = IF reader.size < supported_header_len THEN Rejected
               ELSE [ reader EXCEPT !.stage = "indexing", !.frame_count = file.frame_count,
                                    !.position = supported_header_len ]
  /\ UNCHANGED << file, writer, appended >>

(* One frame header: the length is where the position leads.                 *)
IndexFrame ==
  /\ reader.stage = "indexing"
  /\ Len(reader.index) < reader.frame_count
  /\ reader' =
       IF reader.position + frame_header_len > reader.size THEN Rejected
       ELSE LET offset == reader.position + frame_header_len
                frame == CHOOSE f \in 1..Len(file.spelled) : file.spelled[f].offset = offset
            IN [ reader EXCEPT !.index = Append(@, file.spelled[frame]),
                               !.position = offset + file.spelled[frame].length ]
  /\ UNCHANGED << file, writer, appended >>

Indexed ==
  /\ reader.stage = "indexing"
  /\ Len(reader.index) = reader.frame_count
  /\ reader' = [ reader EXCEPT !.stage = "indexed" ]
  /\ UNCHANGED << file, writer, appended >>

Close ==
  /\ reader.stage \in {"indexed", "rejected"}
  /\ reader' = NoReader
  /\ UNCHANGED << file, writer, appended >>

IvfNext ==
  \/ Open \/ WriteFileHeader \/ Opened \/ (\E length \in FrameLengths : append_frame(length))
  \/ WriteFrameHeader \/ WriteFrame \/ CountFrame \/ Die
  \/ Map \/ ReadFileHeader \/ IndexFrame \/ Indexed \/ Close

IvfSpec == IvfInit /\ [][IvfNext]_ivf_vars

-----------------------------------------------------------------------------
(* Where the walk over the frame headers leads, there is a frame header.     *)
WalkFindsHeaders ==
  /\ reader.stage = "indexing"
  /\ Len(reader.index) < reader.frame_count
  /\ reader.position + frame_header_len <= reader.size
  => \E f \in 1..Len(file.spelled) :
       file.spelled[f].offset = reader.position + frame_header_len

(* A reader finds frames at the offsets append_frame returned for them, in   *)
(* order, and none that was not appended; once the writer has ended, however *)
(* it did, the reader finds all that append_frame returned for, whole: at    *)
(* most the frame being appended is lost.  Only a reader that the writer     *)
(* overtakes may count frames past the size it has mapped, and then refuses  *)
(* the file (ivf_writer.cc:99-142, ivf.cc:36-84).                            *)
ReadableAfterCrash ==
  /\ WalkFindsHeaders
  /\ reader.stage \in {"indexing", "indexed"} =>
       /\ Len(reader.index) <= Len(appended)
       /\ \A f \in 1..Len(reader.index) : reader.index[f] = appended[f]
  /\ reader.stage = "rejected" /\ reader.alone => reader.size < supported_header_len
  /\ reader.stage = "indexed" /\ reader.alone =>
       /\ reader.index = appended
       /\ \A f \in 1..Len(reader.index) :
            reader.index[f].offset + reader.index[f].length <= reader.size
=============================================================================
