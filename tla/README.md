# rusty-opus: a verification project in TLA+

rusty-opus is an Opus encoder and decoder in Rust. The modules here model it in
three layers: the control (how packets are framed and cut apart, how threads
share the work, how the encoder decides what to code, how encoder and decoder
follow each other through switches of codec and through losses, how several
streams share one packet), the coding of a frame (the entropy coder, the CELT
frame with its energies, pitch filter, budget and concealment, the SILK packet
with its redundant copies and its rate loop), and the
arithmetic below it (transforms, filters, linear prediction, the pulse search,
the division of bits, and every vector loop next to the plain loop it replaces).
TLC checks the modules on small instances; TLAPS proves some of the results for
every instance.

Source lines are cited as `src/src/...`, the crate's own directory in the
repository. `PROJECT.json` maps every definition to the lines it models.

## 1. The system

### Components

| Component | State it keeps | Operations | Who it talks to |
|---|---|---|---|
| Packet framing, `Repacketizer` (`repacketizer.rs`) | `toc`, `framesize`, the held frames | `cat`, `reset`, `out*`, `pad_packet`, `unpad_packet`, `parse_frames` | encoder (long packets), multistream (self-delimited parts) |
| A second parser inside `OpusDecoder::decode` (`lib.rs:2706`) | none | cuts a packet into frames | repacketizer: must agree with it |
| Parallel encoding (`parallel.rs`) | one atomic counter, a mutex-protected slot per stream | `encode_streams`, `encode_parallel` | an encoder per thread |
| `OpusEncoder` decisions (`lib.rs:937-1497`) | previous mode, automatic bandwidth, voice ratio, analysis frames, inactivity counter | `encode`, `encode_multiframe` | analysis, both codecs |
| `OpusEncoder` transitions (`lib.rs:1380-2004`) | `prev_enc_mode`, codec states, prefill and prediction flags | redundancy, resets, next mode | decoder, through the packet only |
| `OpusDecoder` (`lib.rs:2140-3570`) | `prev_mode`, `prev_redundancy`, deferred fades, resampler rates, codec states, an auxiliary decoder | `decode`, `decode_plc`, `decode_fec` | both codecs |
| Multistream (`multistream.rs`) | channel layout, a codec per stream | `encode`, `decode` | framing, `OpusEncoder`, `OpusDecoder` |
| Range coder (`range_coder.rs`) | range register, held-back bytes, raw-bit window, buffer | coding, `save_state`/`restore_state`, `shrink`, `patch_initial_bits`, `pad_to_bits`, `done`, `finish` | every codec |
| CELT (`celt.rs`, `quant_bands.rs`, `rate.rs`) | energy history, overlap, pitch filter of both ends, VBR reservoir, concealment counters | encode, decode, conceal | range coder, band coding, signal processing |
| CELT band coding (`bands.rs`, `pvq.rs`) | none between frames but the folding seed | normalise, quantise and read a band | range coder |
| Signal processing (`mdct.rs`, `kiss_fft.rs`, `pitch.rs`, `celt_lpc.rs`) | buffers, constants | transforms, correlations, filters, each in several instruction sets | codecs |
| SILK (`silk/`) | prediction history, redundant copies (LBRR) of the last packet, rate loop, loss counters | encode, decode, conceal, recover | range coder |
| Analysis (`analysis.rs`) | ring of results, its reader and writer, network state | run, read | `OpusEncoder` |
| Instruction-set dispatch, profiling | what the processor has | pick a kernel, count | signal processing |

### What makes it correct, and what makes it hard

* **Framing.** What any writer writes, both parsers read back, frame for frame,
  whatever the sizes. Hard: sizes around 252 and 255, padding counts, headers
  that no writer produced, a repacketizer whose fields outlive a failed `cat`.
* **Threads.** Every stream is encoded once and lands in its place, in any
  interleaving; a panic is neither lost nor invented. Hard: workers finish in
  any order and some die.
* **Decisions.** Whatever was decided must be expressible in the TOC byte, within
  the caller's and the signal's limits, and must settle. Hard: six overrides in
  a row, thresholds that depend on the previous choice, counters that run
  through frames of different lengths.
* **Transitions.** The decoder learns of every reset, redundant frame and switch
  from packets alone; both ends must do the same at the same frame. Hard: any
  sequence of modes, redundant frames that do not fit, losses at the worst
  place, recovery calls, frames without payload.
* **Multistream.** The decoder must find each stream's bytes and put each channel
  back. Hard: all but the last stream are framed differently.
* **Range coder.** Decoding gives what was coded, and both sides count bits
  alike at every symbol. Hard: carries, two ends that grow towards each other,
  snapshots that are not copies, flags patched when everything else is done.
* **CELT frames.** Nothing says which symbols a frame holds: the decoder asks for
  one when the bits it has counted allow it, and must ask for exactly what was
  written. The energies and the pitch filter of both ends are predicted from the
  last frame, so they must agree after every frame and again after a loss. Hard:
  a budget that runs out at every symbol, a frame whose size is chosen after part
  of it is coded, a concealment that depends on how long the loss has lasted.
* **SILK packets.** As with CELT, nothing says what a packet holds, and each frame's
  lag, gain and type are coded relative to the frame before. Hard: a frame is
  coded up to seven times into the same buffer until it fits; an earlier trial, or
  an empty frame, may be what is sent; copies of the last packet come first, coded
  relative to each other, and each end must skip or follow the same ones.
* **Arithmetic.** A wrong index, stride, bound or sign gives a plausible wrong
  number. Hard: the same loop is written up to five times, with remainders of
  every length, and encoder and decoder may run different ones.
* **Analysis.** The verdict a frame is coded by is the verdict of its own sound.
  Hard: writer and reader go round one ring with steps of different lengths.

`PROJECT.json` lists these dangers under `hazards`, each at its line, with the
properties that would show it; those without a property say why.

## 2. The modules

| Module | Models | Used by |
|---|---|---|
| `PacketFraming`, `FramingLemmas` | packet layout, the writer, both parsers (operators); lemmas about them | `Repacketizer`, `Multistream` |
| `Repacketizer`, `MCRepacketizer` | the repacketizer as a state machine with one packet in the caller's hands | `MCFraming` |
| `ChannelLayout` | channel tables, gathering and remuxing (operators) | `Multistream` |
| `Multistream` | surround packets from encoder to decoder | `MCFraming` |
| `FramingProofs` | proofs about `Repacketizer` and `Multistream` | |
| `BatchEncode` | what `encode_streams` promises, without threads | `EncodeStreams` |
| `EncodeStreams` | the thread pool | `MCEncoding` |
| `EncodeParallel` | one stream cut into ranges, one thread each | `MCEncoding` |
| `EncodingProofs` | proofs about `EncodeStreams`, `EncodeParallel`, `AnalysisRing` and `OpusControl` | |
| `OpusControl`, `MCOpusControl` | the encoder's decisions, multi-frame packets, discontinuous transmission, the TOC | `MCEncoding` |
| `OpusDecoder`, `OpusDecoderProofs`, `MCOpusDecoder` | `decode`, `decode_plc`, `decode_fec` as sequences of calls into the codecs; its proofs | `OpusLink`, `MCCodec` |
| `OpusEncoder` | packets from mode decisions: redundancy, resets, prediction | `OpusLink` |
| `OpusLink`, `OpusLinkProofs` | both on a link that may lose packets; its proofs | `MCCodec` |
| `RangeCoder`, `MCRangeCoder` | the entropy coder, both directions | `MCFrameCoding` |
| `CeltMode` | band edges and integer logarithms of the 48 kHz mode (operators) | CELT modules |
| `CeltEnergy` | coarse, fine and final energies: quantised, predicted, read (operators) | `CeltFrame` |
| `CeltFrame`, `MCCeltFrame` | clips of CELT frames from an encoder to a decoder, some lost | `MCFrameCoding` |
| `CeltLemmas`, `CeltProofs` | what the pieces of a CELT frame do, for frames of every content; the proofs about `CeltFrame` | |
| `SilkSymbols` | the symbols of a SILK frame: indices, pulses, gains, each with its table, written and read (operators) | `SilkFrame` |
| `SilkFrame`, `MCSilkFrame` | talks of SILK packets from an encoder to a decoder, some lost, some recovered from copies | `MCFrameCoding` |
| `Arrays`, `Field` | zero-based arrays; exact arithmetic in a prime field | arithmetic modules |
| `Transform` | mixed-radix FFT, MDCT and its inverse, short blocks | `MCDsp` |
| `Kernels` | correlations and energies, plain and in strips | `StripLoops`, `Filters` |
| `StripLoops` | the passes over a band, a frame or the butterflies of a transform | `MCDsp` |
| `LinearPrediction` | Levinson, Schur, Burg, covariance, warped autocorrelation, line spectral frequencies | `MCDsp` |
| `PulseCoding` | pulse search, rotation, numbering of pulse vectors | `MCDsp` |
| `BandAllocation` | division of a frame's bits among bands, written and read | `MCDsp` |
| `Filters` | comb filter, LPC and shaping filters, each with its inverse | `MCDsp` |
| `AnalysisRing` | the ring of analysis results | `MCDsp` |
| `DataInduction` | induction over naturals and logs of calls (lemmas) | the proofs of framing, control, CELT frames, decoder and link |
| `MCFraming`, `MCEncoding`, `MCCodec`, `MCFrameCoding`, `MCDsp` | the parts side by side for TLC | |

Names follow the source where they can. Definitions commented *Slip* are the
code with one plausible mistake; every checked property has one that breaks it.
The five modules of the last row choose a part in the initial state and let only
that part step: one run explores several components, and none sees the others.
(`MCCodec` is the exception: the decoder alone, or the decoder on a link.)

### How state and actions correspond

**PacketFraming / Repacketizer.** A packet is its header bytes, its frames as
[identity, length] and a count of trailing zeros; header bytes are the code's
arithmetic byte for byte, payload bytes are opaque. Every public operation that
returns `Ok` is an action; `CatRejected` is the one failure that changes state
(`toc` and `framesize` are assigned before the packet is validated).

**EncodeStreams / EncodeParallel.** One action per atomic step of a worker:
claim an index (`fetch_add`), encode, store under the mutex, leave or panic; then
the scope's join and the unwrapping of the slots. Encoders are opaque; a set of
streams, chosen at the start, cannot be encoded.

**OpusDecoder / OpusEncoder / OpusLink.** A codec's state is a token naming the
frame it last processed, `Fresh` after a reset. A coded frame says which encoder
state it was predicted from and whether it uses it. An operation of the decoder
appends the calls it makes (conceal, reset, redundant frame, main frame, fade,
resample) in the order of the code, so that properties speak about order.

**OpusControl.** Bit rates, thresholds and hysteresis are the code's integers.
The samples are reduced to what the analysis says of them, which may be
anything the instance lists. `encode` and all sub-frames of a long packet are
one action; the frames' TOCs are computed and read back.

**Multistream.** One action per stream on each side; a decoded channel is named
by the input channel it came from, so a swapped channel is visible.

**RangeCoder.** The code's arithmetic with the byte and the register as
parameters (8 and 32 in the code). `log` is the list of calls that were not
rewound. `Save`, `Rewind`, `TakeBack` and `Settle` are what `quant_bands.rs:234-301`
and the SILK rate loop do with `save_state`/`restore_state`; the bytes a trial
wrote are copied and put back by the caller, as there. A frame is finished in
three ways: as CELT (padded to its budget, whole buffer), as SILK (trailing
zeros stripped), or by `finish` (unused middle left out).

**CeltFrame.** A clip is a sequence of sounds, each with its band energies and
what the analyses would find in it (pitch, transient, boosts, trim). A frame
goes through the steps of `encode_impl`: `EncodeHeader` (silence,
pitch filter, transient), `EncodeCoarse` (predicted or not), `EncodeChoices` (time-frequency
changes, spread, dynamic allocation, trim), `ChooseSize` (the VBR decision, which
shrinks the frame with part of it written), `EncodeBands` (allocation, shapes,
fine and final energies); then `DecodeHeader`, `DecodeCoarse`, `DecodeChoices`,
`DecodeBands`, or `Lose`. What passes between the two is a list of symbols with
their cost in eighths of a bit, and the decoder's own count of bits decides what
it asks for; `rcod` keeps whether every question met the symbol that answers it, `pairing`
which pitch filters each end faded over.
Energies are the code's, in units of 2^-10. Concealment is `conceal_lost`: its
kind, the decay of energies and gain, what it resets.

**SilkFrame.** A talk is a list of packets, each with its rate, length and what the
analyses found in its frames. `StartPacket` codes the flags' place and the copies
(`enc_api.rs:657-799`), `StartFrame` makes the copy for the next packet and sets
up the rate loop, `Trial` is one pass of it (gains requantised, pulses shrunk or
emptied, indices and pulses coded), `Recall` the pass that finds its gains were
already tried, `Judge` what follows a pass (bounds, locked subframes, the next
multiplier, or the best trial taken back), `SettleFrame` the last resort, and
`SendPacket` patches the flags. What a trial costs is chosen by the model among
values on both sides of the limit. The coder is the list of symbols written, each
with the row of the table it was written with; a rewind takes back the count and
leaves the symbols in the buffer, as the code's `restore_state` does. The decoder
asks for symbols with the rows it thinks they have (`DecodeFrame`, `SkipCopy`); a
question that meets another row is not met. `Conceal` and `Recover` are
`decode_plc` and `decode_fec`.

**The arithmetic modules.** A behaviour is one job: one transform, one loop, one
filter. Reals are elements of the field of 15361 elements, in which every angle
of the transforms has a sine and a cosine and 7 generates all of them; sums,
products and quotients are exact, so a wrong index is a wrong number and nothing
is put down to rounding. `Kernels` and `StripLoops` drop the numbers and keep the
indices: which elements meet, how often, and how far a load reaches. The
instruction set is a field of the job, and each variant is checked against the
plain loop, never against itself. `PulseCoding` and `BandAllocation` use integers,
as the code does or exactly as it compares its floats.

**AnalysisRing.** Time counts in windows of 2.5 ms. `RunAnalysis` is `run_analysis` with
its inner loop over the network's windows, `GetInfo` is `tonality_get_info`. A
result names the window of sound it was computed from, so that a verdict can be
compared with the frame it is used for. Every 12 windows, 4 of them old, make a
result; the ring holds 100. `Horizon` ends the behaviours TLC explores (840
windows: the ring goes round once); the proofs set no bound.

## 3. The runs

Every run finishes. Deadlock is checked except where the system may stop: a
batch call that has returned or panicked, a packet or a clip that has been read
to its end, a job that is done.

| Run | Question | Bounds, and why they are enough |
|---|---|---|
| `framing` | Does everything written read back the same in both parsers, do the parsers agree on thousands of malformed headers, is a repadded packet exact? In surround packets, are boundaries found and channels in place? | Frames of 0, 1, 3, 252 and 1275 bytes (both sides of the length fields), up to 14 frames held, padding by 0, 1, 256 and 300; headers up to four bytes with payload on each side of every comparison. Every layout of `surround()`, four payload shapes per stream, delivered or lost |
| `encoding` | Threads: each stream once, results in order, panics propagate, calls return, the pool implements `BatchEncode`; ranges partition the frames. Decisions: can each be signalled, is every duration coded whole, are limits kept, do pauses start late and refresh in time, do decisions settle? | 4 streams, 3 requested threads on 2 cores, any subset of streams bad (the theorems cover all sizes); serial fallback, even and uneven ranges, warm-up shorter and longer than a range. Eight kinds of stream (16 and 48 kHz, one and two channels, voice and audio, 24 and 56 kb/s) in frames from 2.5 to 100 ms, rates on both sides of the thresholds, signals on both sides of the classifier's hysteresis; histories are unbounded |
| `codec` | Is SILK fresh when it should be, do resamplers match, are switches smoothed once, is CELT handed over in order? On a link: is every frame decoded from the state it was predicted from, and does one good packet re-align the ends? | Stereo with packets of two frames, mono with its auxiliary decoder; all modes, all redundancy positions, empty frames, losses, FEC. Link: all mode sequences, two SILK rates, two CELT bandwidths, one and two frames; tokens are recycled, so sequences are unbounded |
| `coding` | Range coder: is everything coded decoded, do both sides count alike, does what fits by `tell()` fit, do trials leave no trace? CELT: are the symbols asked for those written, are energies and pitch filters of both ends alike after every frame, does concealment fade, is a frame of variable rate never shrunk below what is coded of it? SILK: are the symbols asked for those written, copies included, and is the trial that was sent the one the encoder goes on from? | Two-bit bytes, eight-bit register, three symbols of every kind, one shrink, storage of 4, 6 or 8 bytes: carries, held-back runs, errors and shared last bytes all occur. Clips: every triple of ten mono sounds (three frame sizes, hits, silences, pitches, budgets down to 3 bytes), every pair in stereo, with VBR, and behind SILK; short VBR frames with a buffer of 1275 bytes, beyond what their length may fill, with steep spectra and boosts at the limit of `BoostsAssumption`; near-silence and then a stereo transient in three bytes, whose last bit is left to a first band (without that exception `EnergyInStep` would be violated); clips of five frames of which any may be lost. Talks: one, two and three frames in a packet at 8, 12 and 16 kHz, one and two channels, frames that fit at once, after several trials or never, copies that fit and copies that do not, pauses between copies, rates and lengths that change, losses concealed or recovered |
| `dsp` | Are transforms exact and inverse to each other, do vector loops visit what plain loops visit and read nothing outside, do filters undo each other, do the recursions solve their equations, are pulses, their numbers and the bit division the same on both sides, is a frame coded by its own analysis? | Every FFT size, short blocks with the hit inside, outside and between overlaps; every remainder of every strip width; orders odd, even and multiples of four; dimensions 2 to 96 with few and many pulses; budgets from 0 bits up, both ends of the band range; for each variant every instruction set. The transforms are linear and the units' positions cover each region, so a few units tell the rest |

Seven runs show what the code does against what it, its comments or its tests
say; each checks one property, which TLC violates.

| Run | What happens |
|---|---|
| `fec_silk_reset` | After a CELT packet, `decode_fec` moves `prev_mode` to SILK without resetting SILK, and the packet that follows sees no change: its SILK frame is decoded on the state from before the CELT run. `decode` has the reset (`lib.rs:2894-2905`). |
| `link_no_room` | The redundant frame of a switch to CELT is dropped because it does not fit, but `prev_enc_mode` still says it was sent. The next CELT frame is predicted from an old state while the decoder resets. |
| `silk_kept` | On the way back from CELT the decoder resets SILK. The encoder only asks for its SILK to be set up again, and `silk_setup_fs` (`control_codec.rs:31-43`) clears the history only when the internal rate has changed: with the rate SILK had before, the first frame is predicted from history the decoder no longer has. |
| `multistream_boundary` | `OpusMSDecoder::decode` finds a stream's boundary with the self-delimited framing but hands the same bytes to `OpusDecoder::decode`, which reads ordinary framing: the explicit last size is taken for payload. |
| `range_pad` | `pad_to_bits` writes zero bytes at the end of the buffer while raw bits are still in the window; they end up in front of the zeros and the decoder reads zeros instead. It needs 8 unused bits at the end of a frame: in a mono 20 ms fullband frame the caps of all bands add up to 4776 bits, so CBR above some 250 kb/s leaves them. |
| `celt_silence` | On a silent frame the decoder floors the band energies at -28 and predicts the next frame from there (`celt.rs:3591`); the encoder keeps what its starved coarse coding left, a step below the last frame (`celt.rs:2905`). Until a frame is coded without prediction every band is decoded at another level than meant. The comment at `celt.rs:2317` says that running the whole pipeline keeps the two in lockstep. The property, `SilenceInLockstep`, has a second half, `SilentFiltersPaired`, which TLC also violates when it is put in the configuration alone: `run_prefilter` is not asked whether the frame is silent (`celt.rs:2177`), so a pitch found below the threshold of silence filters the frame and is remembered (`celt.rs:2935`), and nothing of it is sent (`celt.rs:2332`). |
| `silk_stale_lbrr` | The frame length changes from 20 to 10 ms while copies wait for the next packet. They are coded with the tables of the new length: a pitch contour of a 20 ms frame is outside the table of 10 ms frames, and `encode_icdf` reads past it in a call with legal arguments. |

`coding` checks `RoundTripUnlessBuried`, the round trip outside `range_pad`'s case, and its
talks leave out what `silk_stale_lbrr` shows (no copies wait when 10 ms packets follow
longer ones);
`codec` sets `Fits = {TRUE}`, which leaves `link_no_room` to its own run, and
checks `SilkStraysAfterCelt`: SILK gets out of step only at the first frame after
CELT, and until the rate changes.

### Fairness

`EncodeStreams` and `EncodeParallel` assume weak fairness of each worker's and of
the caller's steps: the operating system schedules every runnable thread, and a
`thread::scope` blocks its caller until all are done. In `MCEncoding` the same
fairness is stated of the steps as composed there. Nothing else assumes fairness.
`Settles` in `OpusControl` says that under one repeated call the choice changes
finitely often; a behaviour that stops satisfies it, so it needs none. Nothing
is assumed of the network: it may lose any packet.

## 4. What is proved

TLAPS checks the theorems of five modules, for every value of their constants, and
the lemmas of three more (`FramingLemmas`, `CeltLemmas`, `DataInduction`).

**`FramingProofs`**, the repacketizer, for every set of packets that may come in
(`SettingsAssumption`: bytes, frames and padding, nothing more), every sequence of
operations, padding to any length:

* `WritingExact`: whatever is written, `parse_frames` and the parser inside
  `OpusDecoder::decode` both read back as the frames that went in, and the buffer
  `out_vec` allocates ahead holds it.
* `CuttingAlike`: the two parsers cut every packet into the same frames or both
  refuse it. A packet of arbitrary bytes is a `head` without a body, so this is
  about malformed packets too. A self-delimited packet is read to its end and no
  further, whatever follows.
* `RepaddingExact`: `pad_packet` makes the length asked for, `unpad_packet` nothing
  longer than it was given.

`RepacketizerInv`, the inductive invariant, says that the packet in hand is bytes, that
a written one is what `write_range` makes of frames `Selected` for its TOC byte (at
most 1275 bytes each, 120 ms in all), and that the held frames are such frames too.
That last half needs the order of `cat`'s assignments: `toc` and `framesize` change
before the checks, so they are tied to each other only while frames are held.
What the invariant is worth is in `FramingLemmas`:
`SameCuts` walks the two parsers side by side, each loop over size fields an
induction over frames; `WrittenIs` and `DelimitedIs` follow the writer's header
byte by byte (`HeadCode3`, `Head012`, padding length, size fields) and then the
parser's cursor over it; `KeptIs` says that no packet that parses is shorter than
what its own frames need, from which `unpad_packet` follows, and `pad_packet`: a code-3
header is at most one byte longer than the packet it replaces, and padding asks
for at least one.

**`FramingProofs`**, the multistream packets, for every layout that maps its channels
one to one onto coded ones (`LayoutsAssumption`; all of `surround()` does) and all
frames the streams may code (`PayloadsAssumption`: an encoder makes packets of at
most 120 ms in frames of at most 1275 bytes):

* `ChannelsReturn`: every channel is back in its place, whatever was coded or lost.
  The invariant says that what was gathered so far is each stream's own channels,
  and that the channels of the streams decoded so far are in place;
  `RemuxInPlace` is the lemma that remuxing a stream brings its channels home
  and disturbs no other, `AllTaken` that every channel belongs to some stream.
* `StreamsCutApart`: the decoder starts every stream where the encoder did, and the
  last stream's decoder plays the frames that were coded. `PartsInv` says what each
  part of the packet is; parts are not empty, so a position tells which part starts
  there (`SumTells`), and `DelimitedFound` says that its end is found with other parts
  behind it. That the other streams' decoders play their frames is false
  (`multistream_boundary`).

**`EncodingProofs`**, `encode_streams`, for every number of streams, cores and requested
threads (`PoolAssumption`: naturals, at least one core, two markers that are no
naturals).

* `TypeCorrect`: the pool's variables keep their types.
* `WorkersApart`: no two workers hold one stream, none encodes a finished one.
* `ResultsComplete`: a call that returns has every stream's packets in its place.
* `PanicsOnlyWhenBad`: it panics only if a stream is bad, returns only if none is.
* `PoolImplementsBatch`: every step is a step of `BatchEncode` or a stutter.

None of these is inductive. The strengthening, `IInv`, adds where each index can
be: below the counter every index is held by exactly one live worker, stored,
or abandoned by a worker that panicked on a bad stream; at or above it nobody
has it. The proof has one step per action, and the theorems follow from it.

**`EncodingProofs`**, `encode_parallel`, for every number of frames, warm-up, requested
threads and processors (`RequestsAssumption`: naturals, at least one processor).

* `RangesCoverFrames`: the planned ranges are adjacent, none is empty, they end with
  the last frame, and with several workers each is at least four warm-ups long.
* `OnePacketPerFrame`: the call returns one packet per frame, in order, each from an
  encoder that has heard the warm-up before it, whatever the order of steps.

The invariant, `ChunksInv`, says where each range starts (`starts`: w times the quotient,
and one more for each range that gets a frame of the remainder), that a worker holds
the packets of its range up to the frame it is at (`WorkersKeep`), and that the caller
holds those of the ranges joined so far (`CallerHolds`). The arithmetic is in four
lemmas: `Quotient`, `Share` (a range is no shorter than the least chunk, since there
are no more workers than chunks), `PlanFacts` and `StartsFacts`.

**`EncodingProofs`**, the ring of analyses, for every set of legal frame lengths (`DurationsAssumption`),
every sequence of sounds (`SoundsAssumption`), any resets and any length of input;
TLC's `Horizon` is not assumed.

* `RingFollowsAudio`: writer and reader of the ring are where the audio heard since
  the last reset puts them.
* `VerdictInStep`: the verdict of a frame is that of a window that ended during
  it, or of the last one before; never of another turn of the ring.

The invariant consists of the types, that nothing is analysed or read before
the analysis has begun (`Begun`), the two positions as functions of the elapsed
windows (`WriterInStep`, `ReaderInStep`), what a read frame was given (`VerdictOfFrame`)
and which slot holds which window's result (`ResultsPlaced`). It rests on one
number: the longest frame takes six windows of a ring of a hundred, so a slot is
read long before it is written again (`Apart`).

**`EncodingProofs`**, the encoder's decisions, for every set of kinds of stream (`KindsAssumption`: one or two
channels, a sampling rate of Opus) and of calls (`CallsAssumption`: a duration of
Opus, a bandwidth the analysis can report), every sequence of calls and every
verdict of the analysis:

* `RequestsAreCoded`: the TOC of each frame reads back as what was decided, encoder
  and decoder agree on it, and the frames of a long packet add up to the request.
* `CapsAreKept`: no frame is wider than user, rate and signal allow, but for the two
  exceptions the code makes (section 5).
* `PausesAreBounded`: no frame is left out before 200 ms without activity, and a
  refresh follows after 400 ms at most.

`ControlInvariant` says of each call what it left: `Decision` is what the six
overrides can come to, `Histories` relates the inactivity counter to the length of
the pause, `PacketServed` what the frames have in common. The loop over sub-frames is
unfolded and then carried by induction over their number.

**`OpusDecoderProofs`**, for every set of packets with modes, channels and kinds of
redundancy of Opus (`PacketsAssumption`), of any number of frames, every order of
packets, losses and recovery calls:

* `ResamplersKeepTheRate`: without `decode_fec`, no resampler runs at a rate it was not
  set up for. `SilkRestartsAfterCelt`: nor is SILK resumed from before CELT.
* `SwitchesAreSmoothed`: a packet on the other side of CELT is faded in once;
  `CeltIsHandedOver`: redundancy hands CELT over from the state the last operation
  left. Both also with `decode_fec`.

`DecoderInvariant` is the inductive invariant of decoder and auxiliary decoder: the
types, and, while there is no FEC, resamplers tuned for the rate that concealment
will ask for. A call into a codec is one entry of a log; `Good` says what is asked of
an entry and `Sound` that all are. Each step of `decode` has a lemma that says which
fields it leaves, that it keeps the log sound, and how many fades it starts; the
loop over frames is again an induction.

**`OpusLinkProofs`**, encoder and decoder together, for every set of requests
(`InputsFit`: modes and channels of Opus, packets of at least one frame, redundancy
that fits), packets of any number of frames, every sequence of
decisions:

* `CeltStaysInSync`: on a link that loses nothing, every CELT frame, redundant or
  not, is decoded from the state it was predicted from, or needs none.
* `SilkStraysOnlyAfterCelt`: SILK gets out of step only at the first frame after CELT
  and until its rate changes (`silk_kept` shows that it does).
* `SwitchFadesOnce`: a packet that leaves CELT is faded in exactly once.
* `PacketsResync`: whatever was lost before, a packet that arrives brings the mode
  histories together, and the CELT states if it renews CELT.

That the ends agree is not inductive while a packet is under way. `IInv` has two
halves: with no packet in flight the ends are `Together` (the decoder's mode history,
deferred redundancy included, is the encoder's; the CELT state is the encoder's
unless SILK came last; SILK is the encoder's, or behind it since CELT); a packet in
flight is a chain of frames, each predicted from the one before, that begins where
the decoder is and ends where the encoder is (`InFlight`). The encoder's half (`Sent`)
and the decoder's (`Loop`, which is `Ready` for each next frame) are inductions over
frames. The hypotheses are not axioms: `InputsFit` is an assumption that `MCCodec`
has TLC evaluate, and `FreshIsNoToken` says that the mark of a reset state, a model
value there, is not a frame's token. TLC has checked `IInv` on the instance of `codec`.

**`CeltProofs`**, CELT frames from an encoder to a decoder, for every set of clips
(`ClipsAssumption`: one or two channels; frames of Opus's lengths, with a band range
that a stream keeps, because `lib.rs:1391` resets the encoder when the mode changes; two
bytes or more, and room for what SILK wrote before). What the analyses find in a
sound (levels, pitch, transient, boosts, trim, what the rate asks for) may be anything,
and any frame may be lost:

* `SymbolsMirrorProved`: the decoder asks for exactly the symbols the encoder wrote, to
  the last one, and they fit. The encoder counted bits with the buffer it was
  given, the decoder counts with the size the frame was cut to in its middle.
* `SizeSparesProved`: a frame of variable rate is never shrunk below what is coded of it,
  the boosts promised included, and two bytes of margin, whatever reservoir, drift
  and cap make of the size that was wished for.
* `EnergyInStepProved`: both ends predict the next frame from the same energies,
  unless since the last frame coded without prediction a frame was lost, was silent
  or left the last bit to one of its first bands.
* `PitchFiltersPairedProved`: the decoder takes back each crossfade of the encoder's pitch
  filter 120 samples later, whatever the lengths of the frames, once three frames
  running were neither lost nor filtered in silence.
* `ConcealmentFadesProved`: a concealed frame makes no band louder.

They assume nothing of the behaviour: what they rest on are two conditions on the
clips, which TLC evaluates on the instance.

* `ClipsAssumption`, above.
* `BoostsAssumption`: of a frame of variable rate whose buffer is longer than its length may
  fill, so few boosts are asked that all of it fits. The longest such a frame may be,
  1275 bytes divided by 8, 4 or 2 for short frames (`Longest`, `celt.rs:2691`), is
  taken last, whatever is coded already. Frames of 20 ms have no longer buffer
  (`lib.rs:1504`); frames of 2.5 ms have no boosts (`celt.rs:1821`); in frames of 10 ms,
  and of 5 ms in mono, even the most `dynalloc_analysis` ever asks for fits, which TLC
  evaluates (`DynallocFits`). For stereo frames of 5 ms the most of all bands at once does
  not fit, and the assumption excludes it: less than nine tenths of it in
  all. Bands are boosted that stand out of their neighbours (`celt.rs:1840`), so
  that all bands should be at once is implausible, but no line of the code
  forbids it. What the other symbols of a frame can cost at most, 7168
  eighths of a bit (`WORDS`), is proved in `CeltLemmas` (`HeaderCosts`, `EnergiesCost`,
  `ChoicesCost`).

One case is in the property and not in an assumption. With exactly one bit left when a
first band is coded, `quant_bands.rs:161-163` sends one step and keeps the whole
fall, where the decoder reads one step (`quant_bands.rs:385-386`): the clamp that bounds
the steps of the other bands (`quant_bands.rs:137`) passes over the first, as in libopus.
`LastBitFirst` says when that happens, and `pairing.strayed` carries it on to the frames
predicted from there. An instance frame reaches it.

The proof has three floors. `CeltLemmas` proves of each piece that its reader reads
what its writer wrote: of a Laplace code (that the decoder's walk over the widths of
the code ends at the interval the encoder chose), of coarse, fine and final energies,
time-frequency changes, boosts and the pitch filter. A loop over bands is a recursive
function; each has a lemma that unrolls it by a step, one that says what it
preserves, and one that lets the reader's loop follow the writer's. The last is
stated with `Follows`: as far in the frame and as many bits on, with every symbol so
far the one asked for. Guards differ between the ends until the size is known, and
agree because, after `ChooseSize`, either nothing was cut off or 128 eighths
of a bit are left beyond what was coded and boosted (`Afford`, which is what
`SizeSpares` says of the step), and no guard
that is evaluated before asks for more.

`CeltProofs` then tells the story of a frame as a function of the sound `f` and the
encoder's state `h` before it: its header (`Front`), the pass chosen (`Picked`), what was
decided (`Decided`), the size (`Cut`), the whole of its symbols (`Symbols`) and the levels
it ends with (`Levelled`). `FrameInv` says at each of the ten stages how far the
story is told or read: while the encoder works, that its coder and state are the
story's so far; while the decoder does, that its coder `Follows` the story, that it knows
what the encoder had decided, and, unless a loss or a silence came between, that it
started from the same energies. Neither `SymbolsMirror` nor `EnergyInStep` is inductive
without it: that a question meets its answer depends on every decision of the
frame, and on energies only in so far as the encoder used them. There is one
lemma per action. `FadeInv` adds that the background never lies above what is
kept of any band that concealment may touch (`Under`); `PairInv` adds which filters each
end remembers, and how many of them are the other end's.

`DataInduction` holds two tools of the framing, control, CELT, decoder and link proofs: a
set of naturals that has 0 and, with each number, the next is all of Nat (from
the well-foundedness of their order), and what appending does to a log.

### What is only model-checked, and why

* Liveness under fairness (`CallsReturn`) and stabilisation (`Settles`): the prover
  has neither `ENABLED` nor a rule for what a fair process eventually does.
* The entropy coder (`RangeCoder`): that decoding undoes coding is a statement about
  carries, divisions and a register that is rescaled at every symbol, products and
  powers of two throughout, of which the SMT backend knows little. `CeltProofs` takes
  the coder as what `CeltFrame` makes of it, a list of symbols with their costs.
* SILK packets (`SilkFrame`): the mirror of its symbols is of the kind proved for
  CELT, but `SilkSymbols` is written with `RECURSIVE` operators, in whose presence the
  backend is lost, and the loop over trials leaves symbols of earlier trials behind the
  end, so that the story of a frame is not a function of its sound.
* The arithmetic (`Transform`, `StripLoops`, `Filters`, `LinearPrediction`, `PulseCoding`,
  `BandAllocation`): what these promise is what a recursion computes from its data, in
  a finite field.
* Everything `decode_fec` breaks, `link_no_room` and `silk_kept` show: a theorem would
  be false.

## 5. What is not modelled, and known limits

**Left out.** The decisions taken from the signal (pitch, noise shaping, voice
activity, transients, the neural network): what they find is an input. The
resampler, `hp_cutoff`, comfort noise and the synthesis of concealment. The
recursive splitting of CELT bands and stereo angles (`quant_partition`,
`quant_band_stereo`): `BandAllocation` gives a band its bits and `PulseCoding` codes a
vector, what is between is not there. Rounding: the arithmetic is exact.
Instruction-set detection and profiling change no result.

**Simplifications, by module.**

* `OpusDecoder`, `OpusEncoder`: a codec's state is one token; a reset, a frame and a
  concealment are events. Calls that fail are left out, as are `decode_fec`'s
  left-only resampling of stereo and the mode history of a mono decoder's
  auxiliary decoder after recovery.
* `OpusControl`: sampling rate, channels and application are fixed per stream;
  the research switches `force_mode` and `mode_dwell` are left out; the analysis
  may say anything at any time. Two exceptions the code makes are part of
  `CapsKept`: CELT has no mediumband, and stereo hybrid above 28 kb/s becomes
  fullband CELT (`lib.rs:1258-1261`) whatever the maximum bandwidth.
* `Multistream`: a lost packet is refused by a decoder of several streams, as in
  the code, and nothing is concealed; when a later stream fails, the decoders
  before it have moved on. Setters are left out.
* `RangeCoder`: bytes and register are narrow. The Laplace coder and `tell_frac` are
  in `CeltEnergy`, as bits counted.
* `CeltFrame`: the allocation and the shapes are one symbol each. Costs are rounded
  to eighths of a bit. `PitchFiltersPaired` speaks of
  frames in which `run_prefilter` runs (`celt.rs:2166`). Stereo VBR frames of 5 ms whose
  bands are nearly all boosted to the utmost are excluded by `BoostsAssumption`. The
  encoder writes the tapset without the decoder's `tell + 2` guard, which is
  harmless because the guard before it implies it.
* `SilkFrame`: the encoder codes mid only, as the code does, and the side channel is
  not there; what a trial costs is chosen freely; a frame without pulses costs 105
  bits (`enc_api.rs:784-788`); the change of lambda between trials only affects
  costs. Recovery compares indices and pulses, not levels, for mono packets of one
  frame. The table a count turns to after ten shifts is left out.
  `QuantisersInStep` excepts frames that were emptied in the end: the
  noise-shaping state is then that of the last trial, as in libopus.
* `AnalysisRing`: the look into the past (`analysis.rs:511-528`) is left out; below
  16 kHz there is no analysis; `analysis_offset` is 0 in every call of the library.

**Seen while modelling, shown by no run.**

* `decode_fec` on a stereo packet reads the header of a mono one (`lib.rs:2548`), so what
  it recovers is not the copy; on packets of 40 and 60 ms it recovers the first
  frame only and returns the full length, the rest zero (`lib.rs:2545-2572`).
* In 10 ms frames at 12 kHz the last block of pulses is half a block. The loops over
  low bits and signs (`encode_pulses.rs:145-174`) read the encoder's array to the
  block's end, where pulses of a longer frame before may be left, and code signs
  the decoder does not ask for. The talks leave out 12 kHz at 10 ms after a longer
  frame.
* The first copy after a frame without one is coded absolutely although its gain
  was made conditional: the copy is quieter or louder than meant.
* A multi-frame packet restarts the analysis for every sub-frame (`lib.rs:988`),
  although the comment at `lib.rs:972-973` says that sub-frames skip it; it costs
  the classifier its memory.
* Loops with a wrong remainder that nothing calls, or not with such a length:
  `celt_fir_neon` (`celt_lpc.rs:147-190`), `celt_iir_c`'s tail (`celt_lpc.rs:352`),
  `silk_biquad_alt_stride2_neon` (`sigproc_fix.rs:1543`), `silk_burg_modified_flp`
  (`lpc_analysis.rs:499`).

**Hazards without a property** are three: a decoder of streams that fails in the
middle (`multistream.rs:298`), a packet that does not fit after it was coded
(`lib.rs:911`), and `decode_fec` on stereo packets (`lib.rs:2549`). Each is described in
`PROJECT.json` with the reason.

## 6. Plan

What is left, in the order of what it would add:

1. Calls that fail, in `OpusEncoder`, `OpusDecoder` and `Multistream`: what state a
   failed call leaves, and what the next one may rely on.
2. `quant_partition` and `quant_band_stereo` between `BandAllocation` and `PulseCoding`:
   the bits a split hands to its halves, and the folding of what has none.
3. `CeltFrame` and `SilkFrame` in place of the tokens of `OpusLink`, for the hand-over of a
   frame's budget in hybrid packets.
4. The resampler's delays and SILK's concealment.

## 7. Running it

    tlc -workers 2 -config MCCodec.cfg MCCodec.tla
    tlapm EncodingProofs.tla

`PROJECT.json` names each run's module, configuration and properties. The longest
run, `coding`, takes two to three minutes, the longest proofs, `CeltLemmas` and
`CeltProofs`, ten to fifteen.
