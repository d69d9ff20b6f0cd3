# A verification of Alfalfa and Salsify

Alfalfa is a VP8 encoder and decoder in state-passing style. Two systems are
built on it in the same repository: ExCamera, which encodes the chunks of a
video in parallel and rewrites them so that they continue one another, and
Salsify, a video call whose sender chooses the decoder state each frame is
encoded from. This directory holds TLA+ models of the parts whose correctness
is a matter of state, order and failure, and of the codec's algorithms in which
two pieces of code must agree; the TLC runs that check them on small instances;
and TLAPS proofs for instances of every size.

Paths below are relative to `src/src/` of the repository.

## Inventory

| part | source | state | operations | hard because | correct when |
|---|---|---|---|---|---|
| Salsify sender | `salsify/salsify-sender.cc` | encoders by state hash and their order, the last acknowledgment, the conservative window | camera frame, encodings done, acknowledgment | it decides from reports a round trip old; hashes repeat | the encoder it selects exists; its view of the receiver never goes back; a call recovers from any loss |
| Sender pipeline | the same | socket pairs, threads, jobs and results, datagrams per frame, delay average | start, finish, choose or skip, ask for the next | threads share vectors without a lock; the capacity changes while a frame is encoded | one frame at a time; a frame fits the path; the call never stops |
| Pacer, poller | `net/pacer.hh`, `net/poller.cc` | datagrams and their due times; actions by descriptor | push, send what is due; a round of poll | late loop, rounding to milliseconds | even spacing, bounded wait |
| Fragmentation | `net/packet.cc` | datagrams of a frame received so far | cut, add, complete, partial | loss, duplicates, reordering | what is stored agrees with what is to come |
| Salsify receiver | `salsify/salsify-receiver.cc` | frames in parts, the player, complete states, decoders by hash | datagram: give up, store, load, trim, decode, save, acknowledge | partial frames decode to something; decoders are erased while frames that need them may be on the way | never aborts; frames in order, exact when their source is kept |
| Decoder | `decoder/decoder.cc`, `decoder_state.hh`, `frame.cc` | probabilities, segmentation, filter adjustments, three references | parse and apply a header, decode, update references, serialize | optional fields, saved and restored tables, copies between references | the same state as the encoder after the same frame |
| Encoder | `encoder/*` | the same state again, safe references, statistics | encode at a quantizer or for a size, write, re-encode | follows the decoder by code of its own | the same |
| ExCamera tools | `encoder/reencode.cc`, `frontend/xc-*.cc` | files of frames and of states | close a chunk, re-encode from a state, join | a state file holds one reference of three | the joined video plays as if encoded in one go |
| Raster and frame pools | `decoder/raster_handle.cc`, `frame_pool.cc` | unused buffers, cached hashes | get, freeze, copy, hash, release | reuse in several threads | reuse is invisible |
| Bitstream | `encoder/serializer.cc`, `bool_encoder.hh`, `decoder/bool_decoder.hh`, `macroblock.cc`, `tokens.cc`, `frame_header.hh`, `tree.cc` | coder registers, contexts of neighbours | write and read fields, modes, vectors, tokens; conceal what is missing | two codings of one format, each with its own copy of the frame; a carry runs back through octets written | what is written is read; what is made up is known to be |
| Containers | `decoder/uncompressed_chunk.cc`, `util/ivf*.cc`, `decoder/enc_state_serializer.hh` | frame layout, file header, frame table | write, append, read whole or in part | truncation, crash between writes, a reader of a file being written | what was appended is read back |
| Encoder's searches | `encoder/encoder.cc`, `encode_intra.cc`, `encode_inter.cc`, `costs.cc` | the window of a search; the buffers a macroblock is predicted and reconstructed in | search a quantizer, a filter level, a mode, a vector | modes are tried in the buffer the next block predicts from; two passes | searches end with what they look for; the residue is that of the prediction a decoder makes |
| Pixels | `decoder/prediction.cc`, `loopfilter.cc`, `transform.cc`, `quantization.cc`, `encoder/dct.cc`, `safe_raster.cc` | none but the picture | predict, transform, quantize, filter | several paths to one pixel, edges of the picture, saturation | the paths agree; encoder and decoder undo each other |
| Player, display, input | `decoder/player.cc`, `display/*`, `input/*` | decoder, queue of rasters | decode, draw | a display thread | frames drawn in order |
| Assembly kernels | `*.asm` | none | the same pure functions | long | compared by the decoding tests |

How they interact: the sender's poller calls its handlers one at a time; a
detached thread per frame runs the encodings and answers over a socket pair;
datagrams go through the pacer to UDP. The receiver's handler reassembles,
decodes and acknowledges in one go. Sender and receiver share nothing but the
two UDP paths; what ties them together is the 32-bit hash of the decoder's
state. The ExCamera tools share only files. Everything that holds pictures
shares the raster pool.

`PROJECT.json` lists every component with its status and every hazard with its
line and the properties that watch it.

## Modules

| module | models | is extended by |
|---|---|---|
| `SalsifyStates` | hashes, `Optional`, newest of a list | sender, receiver |
| `SalsifySender` | encoder selection, cleanup, send, acknowledgment | `Salsify` |
| `SalsifyReceiver` | reassembly, decoding, decoder store | `Salsify` |
| `Salsify` | both ends and the two paths; the properties and the inductive invariant | `SalsifyRecovery`, proofs |
| `SalsifyRecovery` | the same call on a network that turns good | |
| `ExactPlayback` | abstract: what a call promises its viewer | (instantiated by `Salsify`) |
| `Pacer`, `SenderPipeline` | encoding threads, capacity, skipping, pacing | proofs |
| `Vp8State` | the decoder: what a header does to tables, segmentation, filters, references; state files | `EncoderState` |
| `EncoderState` | the encoder's own version of the same | `RebasedChunks` |
| `RebasedChunks` | ExCamera's tools and the player of the joined chunks | proofs |
| `BoolCoder` | the arithmetic coder: carries, flushing, look-ahead, made-up octets | `Bitstream`, proofs |
| `SymbolCoding` | trees, numbers, components of vectors, both directions | the three below |
| `TokenCoding` | a block's coefficients as tokens, the counting of branches | `Costs` |
| `Costs` | the rates the encoder adds up for a block, a vector, a macroblock's modes | `Bitstream` |
| `HeaderCoding` | key and inter frame headers: the writer's list of fields, the reader's | `Bitstream` |
| `MotionVectors` | the census of neighbours' vectors, clamping, chroma | `FrameCoding`, proofs |
| `FrameCoding` | a frame's macroblocks in partitions, contexts, concealment, branches counted | `Costs`, `Bitstream` |
| `FrameLayout`, `StateFile` | octets of a frame, of a saved decoder state | (instantiated by `Bitstream`) |
| `IvfFile` | a file appended to by a process that may die, and its readers | `Bitstream`, proofs |
| `Bitstream` | the above side by side | |
| `QuantizerSearch` | the searches for size, quality and filter level | `Encoding`, proofs |
| `MacroblockSearch` | coding one macroblock in shared buffers | `Encoding`, proofs |
| `RasterSize`, `MotionSearch` | the diamond search in a bordered reference | `Encoding`, proofs |
| `Prediction` | intra prediction's sources, inter prediction's paths | `Encoding`, proofs |
| `Residue`, `LoopFilter` | transform and quantization there and back; the filter | `Encoding`, proofs |
| `Encoding` | the above side by side | |
| `PictureValues` | abstract: a handle to a picture is a value | (instantiated by `RasterPool`) |
| `RasterPool` | the pool, handles and cached hashes in any number of threads | proofs |
| `*Proofs` | theorems and their proofs | |
| `MC*` | constants for TLC | |

Definitions marked "Seeded fault" are the mutants `PROJECT.json` lists: each
stands for a mistake someone could make in the code, and makes a property fail.

### One Salsify call

A decoder state is its hash, and so is the encoder that starts from it.
`encoders` and `encoder_states` are the map and the deque of the sender,
`decoders` and `complete_states` those of the receiver. The pictures, the
quantizers and the bytes are abstracted to two choices: an encoding of frame n
ends in a member of `Targets[n]` and fills a number of datagrams in
`FragmentCounts[n]`. Targets may coincide, so that hashes repeat.

- `StartEncode` is the handler of `encode_start_pipe`: cleanup of the deque up
  to the acknowledged or assumed state, then the selection, then `encoders.at`,
  which ends the process (`sender_up`) when the state has no encoder.
  `ConservativeExpires` is the five seconds running out, at any time.
- `SkipFrame` and `SendFrame` are the two ways out of the handler of
  `encode_end_pipe`; `SenderPipeline` refines when each is taken.
- `HandleAck` is the socket handler; `ack_seq_no` and the test for old
  acknowledgments are as in the code.
- `HandlePacket` is the receiver's handler in one step: frames given up because
  a later one has begun, reassembly with `sanity_check`, and, when the frame
  the receiver waits for is complete, load, trim, decode and save. Decoding a
  frame from its source ends in its target, a key frame does so from anywhere,
  and everything else ends in a hash from `Corrupt`.
- `DeliverPacketStep` and `DeliverAckStep` are UDP: all that was ever sent stays
  available, so a datagram can be lost, late, repeated or out of order.
  `DataFifo` and `AckFifo` forbid the last on a path. In a FIFO path a datagram
  can still be lost, but is not repeated.

`TailIsPadding` names frames whose last datagram the decoder can do without:
`BoolEncoder` pads its output and `BoolDecoder` reads zeros past the end, so a
truncated frame may decode exactly.

`last_saved` and the `saved` field of acknowledgments are auxiliary: no guard
reads them.

### The sender's pipeline

One message goes round: `start_pipe` (asked for), a detached thread, `end_pipe`
(done). `StartEncode` makes the jobs, `FinishJob` gives one its size, in any
order in mode `s2` and one after the other in the deferred modes, `ReportEnd` is
the thread's write, `EncodeEnd` chooses an output, pushes its datagrams or skips
the frame, and on every way out clears the jobs and asks for the next
(`finally`). Quantizers are left out: the size of an encoding is any member of
`Sizes`. `avg_delay` is whatever an acknowledgment carries, from `Delays`.
`UpdateQuality` is the one step of the conventional mode that can end the
process, a division by `avg_delay`, which is 0 in the first acknowledgment of a
call (`salsify-receiver.cc:69`); `target_size` guards against it, the rate
computation does not.

An entry of the pacer's queue is the time left until it is due; `ClockTick`
lowers all of them, so no clock is needed. `ms_until_due` drops the part of a
millisecond.

### Chunks of a video

`Vp8State` reduces a header to what it does to persistent state: whether the
entropy tables are saved, whether coefficient and mode probabilities, filter
adjustments and segmentation change, which references are refreshed or copied
and which the frame predicts from. A picture is the number of its frame, or
`Garbled` when it was read with tables, references or optional fields other
than it was written with. `ParseAndApply` and `CopyTo` are the decoder's;
`UpdateDecoderState` and `AfterFrame` are the encoder's separate code for the
same. `Serialize` keeps one reference, as `References::serialize` does.

`RebasedChunks` runs the tools one frame at a time and feeds each frame to a
player at once. This is sound because the tools are functions of their input
files: a worker can start once its predecessor's state file exists, and nothing
else orders them.

### The raster pool

Each critical section of the pool's mutex is a step, and so is clearing the
cached hash, which `RasterDeleter` does outside the mutex (`dying` to
`cleared`). `Holders` is the shared pointer's count. `Make` covers a new raster,
a reused one and, with `allow_resize`, the throwing away of the queue.
Hashes are taken to tell contents apart.

### Bits

`BoolCoder` keeps the registers of `BoolEncoder` and `BoolDecoder` as they are;
`Delay` is the number of bits the encoder holds back, 24 in the code and 8 in
the run, so that short inputs reach the octets and the carry.
`DecodesWhatWasEncoded` flushes after every bit put and reads all back;
`RightWhileValid` reads every part of what was written the way the decoder
reads a chunk that is only partly there, and asks that a bit read while
`valid()` holds is right.

Above the coder a bit is a bit and the name of the probability it was coded
with: a table and an entry. A reader that asks with another name does not
agree, so contexts are checked without numbers. The writer's and the reader's
field lists, trees and loops are translated from the two pieces of code and not
from each other. In `FrameCoding` a macroblock has `Side` by `Side` luma blocks
and a block's tokens are one bit, whether there are any; `TokenCoding` spells
blocks of 16 out. `DecideMacroblock` is an encoder deciding on anything its
header allows. `DamageIsConfined` cuts the first partition after every bit and
lets the reader make up the next two at will, which is what arithmetic decoding
of missing octets may do; the rest are `FALSE`.

`CountsMatch` compares what `accumulate_token_branches` counts with what is
written: node by node in a block of each type that is counted, and over the
frame, where a macroblock is counted as soon as it is decided and written when
the frame is complete. The code does not count all it writes: Y2 blocks are
written and never counted, skipped macroblocks are counted and not written
(`serializer.cc:432`, `584-586`). `FrameCountsMatch` says exactly this, and that
there is no other difference.

`RatesMatchBits` is about the encoder's estimates (`Costs`). A rate is kept as
the bits it is the sum of, each with the table and entry its price comes from.
For every path through the trellis of `trellis_quantize` the rate is of the
branches that the tokens of the resulting block take, and of each level once;
the rate of a vector, and of the modes of a macroblock in a key frame or
predicted from the last frame, is bit by bit of what is written. The tables of
modes are filled as `fill_mode_costs` and `fill_mv_ref_costs` do, which put intra
and inter modes into one table. For intra modes in inter frames only the bits
agree and not the tables (see below), and no more is claimed. What a level costs
besides its token comes from `dct_value_cost`, 4096 numbers taken from libvpx
(`costs.cc:267-611`), of which nothing is assumed or shown but which entry is
looked up.

`FrameLayout` works on octets, for whole frames and for frames cut anywhere.
`IvfFile` counts bytes; each `write` may be short, the process may die between
any two, and a reader maps the size it finds but reads the shared header, and
so can see a count that is younger than its size.

### Encoding and pictures

The searches are state machines; what an attempt yields (a size, an SSIM, the
cheapest mode or vector) depends on the pictures and is left open, so every
choice is covered. In `QuantizerSearch` a frame's picture is the set of
quantizers or levels that would do, of any shape, monotone or not.
`MacroblockSearch` keeps the names of what is in the prediction and
reconstruction buffers and asks that at the end the residue was taken from the
prediction in place (`ResidueIsOfThePrediction`). `MotionSearch` checks the
bounds the code relies on and never tests: the tables of costs, and the margin
of `SafeRaster`.

`Prediction` names pixels by their place. For intra prediction it keeps which
samples are mixed: `PredictsFromThePast` asks that they are reconstructed by
then. For inter prediction `PathsAgree` compares the fast path, the slow one
near the edges, the one with an edge-extended block and the encoder's with the
six-tap filter over a picture extended without end. `Residue` and `LoopFilter`
compute with the code's widths and clamping.

## Runs

| run | instance | states | shows |
|---|---|---|---|
| `fifo_acks` | 5 frames, two of them of 1 or 2 datagrams, encodings that come to a new state or back to an old one, 6 acks; datagrams lost, repeated, reordered | 375,644 | with acknowledgments in order the sender always finds its encoder; at most the frame waited for is stored; maps and deques agree when hashes repeat; the whole inductive invariant; the call implements `ExactPlayback` |
| `fifo_data` | the same, acknowledgments reordered instead | 16,770 | `ack_seq_no`'s test keeps the sender's knowledge from going back, and the sender alive |
| `recovery` | 5 frames, the network good from the fourth | 35,364 | `PictureRecovers` under fairness |
| `reordering` | 3 frames of 2 datagrams, both paths reorder | violation | see Findings |
| `padding` | the same, both in order, last datagram dispensable | violation | see Findings |
| `pipeline` | 3 frames, 3 modes, sizes on both sides of a datagram, delays none, moderate and blocking | 70,538 | threads take turns, frames fit the path, spacing, the call goes on |
| `bitstream` | 6 bits of 3 probabilities; frames of 2 by 2 macroblocks; symbols, blocks and headers at their limits; a file of 3 frames | 89,031 | what is written is read, at every level; made-up bits are never taken for valid ones; branches counted are those of the tokens written, but for Y2 blocks and skipped macroblocks; rates are of the bits they stand for; a file is readable after a crash |
| `encoding` | a raster of 2 by 2 macroblocks; windows of 16 quantizers; diamonds of 8; blocks and lines at the limits of pixels, quantizers and levels | 405,099 | searches end and end rightly; vectors stay in bounds; the residue is that of the prediction; paths of prediction agree; transforms undo each other; the filter smooths |
| `quality` | the same with the property the option promises | violation | see Findings |
| `rebase` | 5 frames in any chunks, 11 headers | 129,802 | encoder, state file and player agree after every frame |
| `segments` | 3 frames, one header with segmentation | violation | see Findings |
| `raster_pool` | 3 handles, 3 rasters, 2 sizes, 2 contents | 36,233 | reuse is invisible, hashes are never stale |

Why the bounds are enough to meet the hazards:

- Four frames let the sender be two cleanups ahead of an acknowledgment and
  enter and leave the conservative window; five let a repeated hash be
  erased and reached again. Two datagrams per frame are the least with which a
  frame can be incomplete, completed out of order or cut. `MaxAcks` bounds the
  datagrams delivered; each frame can be acknowledged in full and once more.
- In `bitstream` probabilities 1 and 226 and six bits reach the carry that runs
  through more than one octet; two by two macroblocks give every combination of
  neighbours inside and outside the frame, four blocks each of all positions
  in a macroblock, two partitions of rows that alternate. Vectors include the
  longest codable ones, coefficients every category at its first and last value.
  `MostDamaged` limits the cutting to frames of two macroblocks: one before the
  cut, one after. The samples are finite lists, chosen at the boundaries of the
  code's own cases; larger alphabets add no case.
- In `encoding` the raster is 32 by 32 pixels, of which 29 by 26 are shown, so
  that both borders of the copy differ; vectors end inside, across and beyond
  each border. Residues range from flat to alternating extremes, at the ends of
  the quantizers' tables and, through segments, past them.
- In `recovery` three bad frames suffice for every state the receiver can be
  left in (never synchronized, behind, damaged, in a state the sender dropped),
  and two good ones are what the property claims to need.
- In `pipeline` a size of 3 at 2 per datagram needs rounding up, a size of 2
  does not; with the delays chosen the budget is ample, a frame or two, or
  nothing. `MaxLate` bounds how late the loop can be and is the only limit on
  time. Three frames fill the pacer while a previous frame waits in it.
- In `rebase` each header differs from a plain one in one respect; combinations
  arise along the video. The proof covers all headers.
- In `raster_pool` two handles can share a raster while the third takes one;
  three rasters leave one in use, one on its way back and one in the pool.

`CHECK_DEADLOCK FALSE` is set where calls, videos and processes end: at the
bound on frames, or with the death of a process that a property is about.

### Fairness

`RecoverySpec` assumes weak fairness of taking the next frame, sending what was
encoded, and delivering on the stable network. The pollers serve every ready
descriptor in each round (`poller.cc:51-103`), encoding jobs end, and a stable
network is the hypothesis. The conservative window's end is not assumed; the
picture recovers with or without it. Nothing is assumed of skipping.

`SenderPipeline!Fairness` assumes weak fairness of the handlers, the threads
and the clock, for the same reasons, and nothing of the network: `CallGoesOn`
holds when no acknowledgment ever arrives.

## Findings

Each is checked by a run that TLC ends with a counterexample.

1. **Both paths reorder** (`reordering`). An acknowledgment is judged by the
   place of its datagram in the call, not by when the receiver sent it. When
   datagrams are reordered too, a report with a larger place may carry older
   complete states than one already used; after the cleanup for the newer one
   the conservative branch selects an erased encoder, and `encoders.at` ends the
   sender. With either path in order it cannot happen (`fifo_acks` and
   `fifo_data`; both proved).
2. **Only padding lost** (`padding`). A frame given up for a datagram that held
   only padding decodes to exactly its target, but abandoned frames are not
   saved in `complete_states`. The next frame, encoded from that state, meets
   `assert( it != complete_states.end() )`. The default build has no assertions
   (`configure.ac:45`); there the trim erases all of `complete_states` instead.
3. **Segmentation in re-encoded interframes** (`segments`).
   `reencode_as_interframe` refuses segmentation; `update_residues` copies it
   into the new header, and the encoder's state never follows.

4. **The SSIM asked for is ignored** (`quality`). `encode_with_quantizer_search`
   calls `encode_raster` without its fourth argument, `compute_ssim`
   (`encoder.cc:533`, default `false`), and compares the minimum with 0.0: the
   search always ends with quantizer 0.

Limits without a run: a state dumped by `xc-dump` in the middle of a chunk
is not restored when the three references differ; and `salsify-receiver.cc:277`
says the sender "won't refer to any decoder older than this", which a delayed
acknowledgment of a damaged state can make it do. Neither breaks a property
above: the receiver then shows a damaged picture, as `ExactPlayback` allows.

Noticed while translating, and modelled as the code does it or left out as said:

- Probabilities of Y2 tokens are never fitted to a frame, because Y2 blocks are
  not counted (`serializer.cc:584-586`).
- Intra modes in inter frames are priced with tables they are not written with:
  subblock modes by context (`costs.cc:194-198`, written with
  `invariant_b_mode_probs`, `serializer.cc:320-324`), luma modes with the default
  probabilities rather than the current ones (`costs.cc:203`), chroma modes with
  those of key frames, since `chroma_mb_best_prediction_mode` is not told that the
  frame is an inter frame. The choices may be worse for it; nothing else depends
  on them.
- The trellis, which runs in second passes only, prices tokens with the tables
  before the frame's update of them (`encode_intra.cc:414`); inter frames fill
  the token prices (`encode_inter.cc:596`) and use none. The model's names of
  probabilities do not tell older and newer tables apart.
- `Costs::block_cost` is never called.
- In the second pass of a `B_PRED` macroblock the trellis runs before the block
  is marked as one without Y2 (`encode_intra.cc:62`, `:66`); where the first pass
  left the other mark, it does not quantize the first coefficient.
- A segment's relative quantizer wraps in eight bits before it is clamped
  (`frame.cc:196`); `Residue` covers the values it takes.
- `FilterAdjustments::hash` mixes the iterators of two arrays
  (`decoder.cc:337`).
- The concealment branch for a macroblock keeps whatever reference the
  unreadable header left (`macroblock.cc:347`), which is the last frame only
  because the header's own concealment comes first.
- `dct_partitions` of a frame received in part throws `out_of_range`, which
  nobody catches; `FrameLayout` has it as `Undefined`.
- `zero_decoder()` is one static object for all threads (`bool_decoder.hh:111`),
  whose registers are written without a lock; its answers are zeros all the same.
- A state file without the tag of the last frame is read with a raster of
  whatever the pool hands out (`enc_state_serializer.hh:167`).

## Proofs

All theorems hold for every value of the constants that satisfies the named
assumptions; nothing is assumed besides.

**Salsify** (`SalsifyProofs`). `TypeCorrect`, `OneFrameStored` and `NewestStored`
hold on any paths, with any damage; the last two follow from `StorageCorrect`,
whose invariant adds that stored datagrams agree with those to come. `CallCorrect`, and from it `SenderRuns`, `ReceiverRuns`
and `EncodersMatch`, assume `SafeCall`: the datagrams or the acknowledgments
arrive in order, no truncation decodes exactly, no hash collision between a
damaged state and one of the call. Findings 1 and 2 show that the first two are
needed. "The encoder exists" is not inductive. `CallInv` adds why: the deque holds the targets of all frames
sent after `Dropped`; the newest complete state in any acknowledgment is the
target of the frame `saved` in it; along the acknowledgments `saved` never
decreases, nor does the receiver's own; and the cleanup stops at a state at most
as new as the newest complete one, because the acknowledged state, if it has an
encoder, is that state. So what the conservative branch selects is not older
than what the cleanup kept. An acknowledgment used is never older than the one
used before (`AcksInOrder`): on an ordered path of acknowledgments by its
position there; on an ordered path of data because acknowledgments are sent in
the order of the datagrams they acknowledge (`PlacesInv`), which is what
`ack_seq_no` compares. The receiver's assertion holds because every state
it can load, and every undamaged state it can be in, is the initial one or in
`complete_states`.

From `AcksInOrder` follows the action property `KnowledgeAdvances`: the newest
state the sender knows the receiver to keep never becomes that of an earlier
frame. It assumes in addition that no two frames end in the same state
(`NoStateTwice`): the property names a frame by the state it ends in.

`CallShowsWhatItPromises` is the refinement: under `SafeCall` every step of the
call is one of `ExactPlayback` or leaves its variables alone. It needs one more
invariant, `InitialKept`: the initial state's decoder is never erased, because
that state is never among `complete_states`. With it a frame whose source has no
decoder is no key frame and does not start where the player is (the newest
complete state has a decoder), so it decodes to damage and erases nothing; any
other is decoded from its source.

**Pipeline** (`SenderPipelineProofs`). `ThreadsTakeTurns`, `QueueIsPaced`,
`PipelineTyped` from one inductive invariant, which adds that finished jobs
have sizes, that a measured delay comes with an acknowledged place and that the
last job is the one for bad quality. `FramesFit` is an action property: the
chosen output is at most a whole number of payloads, and rounding it up to
datagrams does not exceed that number. `PacedEvenly` speaks of any two entries
rather than neighbours so that it is inductive without induction over the queue.

**Chunks** (`RebasedChunksProofs`). `EncoderInStep`, `FileSuffices` and
`ReadAsWritten` assume that no source header has segmentation (finding 3). The
invariant: writer and player are equal, the file restores the player between
chunks because the last frame of a chunk refreshes all references, and no
reference is garbled.

**Raster pool** (`RasterPoolProofs`). `PlacesDisjoint`, `HandlesKeepRasters`,
`HashesFresh`, and `PoolImplementsValues`, the refinement of `PictureValues`:
every step maps to a step of it or a stutter, because no raster in use is in
the pool or on its way to it.

**Arithmetic coder** (`BoolCoderProofs`). `DecodesWhatWasEncodedAlways` and
`RightWhileValidAlways`, for any number of bits, any probabilities and any
beginning of a partition. Octets written and bits held back are taken for one
number, `Low`, of `Shifts + 8` bits: the low end of an interval as long as
`range`. Putting a bit keeps one side of the interval and shifts it, carries
included (`PutIs`); finishing appends bits that stay within it (`FinishIs`). The
partition is then in the last interval, and backwards along the encoders so far,
which the invariant `CoderInv` remembers, in every earlier one (`PutPlaced`).
The decoder's value is the distance of the first 16 bits of the partition from
the low end (`Follows`), enough to tell the half the partition lies in
(`Looks`). Octets made up differ from the partition's only once the decoder
has stopped being `valid`. What an output spells is a recursive function
(`Worth`), so each step is an induction, from the well-foundedness of the
naturals (`AllOf`, `Recursion`). `Delay` is assumed between 8 and 24: octets
leave whole, and `bottom_` has 32 bits. `RegistersAlwaysSuffice` says that those
are enough, and that a carry always finds an octet below 255, which
`add_one_to_output` asserts: it justifies registers that are plain naturals.

**IVF file** (`BitstreamProofs`). `IvfReadableAfterCrash`, for headers and frames
of any length and any number of frames. The invariant: the frames appended form
a chain, each where the one before ends; what the file spells is that chain and
at most one frame more; the count in the header is that of the chain; a reader
has followed it frame by frame. That the walk finds each header only once needs
that offsets in a chain increase (`ChainGrows`, `NextIsSpelled`).

**Census of vectors** (`BitstreamProofs`). `CandidatesAlwaysFair`, for neighbours
with any vectors. Going through the neighbours, the entries' scores tally with
the points of the vectors they hold (`Tallied`): a vector has two entries only
when another came between. The exchanges at the end rank the first two
(`Ranked`), which makes the nearest vector one that no other outscores.

**Quantizer searches** (`SearchProofs`). `SearchesEndRightly`, for any
windows and any set of quantizers that do, and `SearchesNarrow`: the window
shrinks at every attempt, which bounds the number of times a frame is coded.
The invariant says what the search has established of both ends of its window.

**Motion search** (`SearchProofs`). `MotionSearchIsSafe`, for any raster,
bases and first step, assuming that the margin covers the overhang, the
farthest vector, what of the raster is hidden and three pixels
(`SearchAssumption`): with the code's 256 pixels it does. `MotionSearchEnds`:
the outer loop's diamonds only get smaller, because every step size is a power
of two.

**Coding of a macroblock** (`SearchProofs`). `ResidueFitsPrediction`, for any
number of subblocks, modes, vectors and passes. The invariant follows what is
kept of the best mode so far. Of subblock modes it is a chain of predictions,
residues and restored pixels: it grows in the reconstruction buffer while
subblocks are tried and outlives the other modes in the macroblock only, which
no later try touches; of any other mode it is the prediction in the buffer.
`B_PRED` comes first or not at all, which the chain needs (the mutant tries it
last). That `decoded_luma`, a recursive function, is the chain is shown by
induction over subblocks (`UpTo`, from the well-foundedness of the naturals,
`NatMin`), as its definition is a choice among functions that satisfy the
recursion (`DecodedIs`).

**Intra prediction** (`PixelProofs`). `PredictionIsOfThePast`, for rasters of
any size: every sample of every mode lies in a macroblock or subblock before
the one at hand, or is made up. The lemmas go through the left, the corner, the
row above and the four pixels above right (`EastKnown`), with the pixels
addressed relative to the macroblock, where subblocks are a matter of division
by 4 and 16.

**Inter prediction** (`PixelProofs`). `PathsAlwaysAgree`, for any picture,
raster, block and vector the margin allows. The paths that leave out a pass
agree because the filter of a whole vector lets bytes through unchanged
(`WholeFilter`, `SseIsSafe`); memory addressed row after row is the plane where
the block fits (`PlainIsEdge`), and the copy with a margin is the extended
picture as long as a column stays within a margin, because its rows wrap around
into one another's margins (`SafeIsEdge`).

**Loop filter** (`PixelProofs`). `FilterAlwaysSmooths`, for every line of bytes,
level, sharpness and adjustment. Cutting off at the ends of a byte brings two
pixels no further apart than their sums are (`PlusApart`, `MovedLine`), so the
ups and downs of a filtered line are bounded by what an unbounded filter would
leave; for that, `MacroblockStep` and `SubblockStep` do the arithmetic of the
taps: the step at the edge shrinks by at least what the other steps grow, but
for 4 of rounding at the edge of a macroblock.

**Residues** (`PixelProofs`). `ResidueAlwaysRestored`, for any pixels, prediction,
quantizer indices, pass and set of lowered levels. A level is within one step of
its coefficient, two in the second pass, and never farther from zero
(`QuantizeIs`, `TrellisIs`), so it can be spelled as soon as coefficients are
bounded: 2040 after the DCT, 16321 after the transform of the first ones, whose
factor is at least 8 (`StandIsSpelled`, `StandIsSpelledY2`). An error of `E` in
the first coefficient of a line and `D` in the others comes back from a pass of
the inverse DCT as at most `20E + 57D` twentieths plus a constant of rounding
(`ColumnReturns`, `RowReturns`), which after both passes is
`400E + 5529D + 11048` parts in 3200 of a pixel (`Restores`), below the tolerance
for every factor of the tables (`ToleranceIs`, `WholeTolerance`). By way of Y2 a
first coefficient loses at most `25 + 2E + 30D` sixteenths (`WhtReturns`), also
when its block is dropped (`DroppedIs`). The same bounds show that nothing wraps
around in the 16 bits that are kept between passes.

Only model-checked: of `bitstream` all but the arithmetic coder, the census
of vectors and the IVF file (reading back there is recursion over symbols and
fields, and the trees and headers are finite data that the run goes through
whole), and everything that needs fairness (`PictureRecovers`, `CallGoesOn`).

## What the models leave out

- In the modules of a call and of chunks: pixels and bits; a damaged decoding is
  an arbitrary hash in `Corrupt`. `Bitstream` and `Encoding` model those apart
  from the call: the composition would multiply the two.
- The numbers in the tables of probabilities, and the metrics (SAD, variance,
  SSIM) and multipliers by which the encoder chooses: any choice is allowed.
- Fields of a frame's lengths past their width (a first partition of 2^19
  bytes): no frame of the call comes near.
- The simple loop filter, which throws `Unsupported`; in `Residue` the
  trellis stands as any set of lowered levels (`Costs` has its rates, for any
  path through it); the numbers in `dct_value_cost`; the details of the size
  estimate, which counts the bits of a sampled frame.
- Hashes of decoders and their parts, except the raster's cached one.
- Restarts of one end during a call, and acknowledgments of an earlier session
  (`connection_id` is constant in the receiver).
- 32-bit hash collisions between states of a call, except that targets may
  coincide; wrap-around of frame numbers and 16-bit fragment numbers.
- The clock set back during a call.
- Exceptions of the encoder inside a job, and failures of the camera.
- The per-macroblock segment map across frames.
- The frame pool, a pool like the rasters' without cached hashes or sizes.
- The components with status `not_modelled` in `PROJECT.json`, for the reasons
  given there.

## Plan

In this order, each with its proofs where they are in reach:

1. A restart of the sender in `Salsify`, and the receiver's display task: a
   queue under a mutex that the socket handler waits for.
2. Proofs: the reading back of trees, tokens and headers by induction over what
   was written; the pipeline's skipping as a refinement of
   `SalsifySender`'s.
3. `MacroblockSearch` and `Prediction` as one: the encoder's picture after a
   frame is the decoder's, from the agreement of residues and of predictions.
4. The segment map and the decoder's hashes in `Vp8State`, with the hash's two
   possible orders of arrays.
