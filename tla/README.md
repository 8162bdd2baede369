# A TLA+ verification of CharLS

CharLS reads and writes JPEG-LS (ISO/IEC 14495-1) images, lossless or with every
sample within NEAR of the original. These modules model its core: the statistics
that steer the coder, the codes, the bit stream, the scan codec, the way of the
pixels to and from it, the segments of the stream, and the objects and functions
that applications encode and decode with. TLC checks
them on small instances; TLAPS proves the results on the context statistics, the
preset coding parameters, the colour transformations, the codes, the bit stream, the
decoder, the transfer of the pixels, the encoder with its decoder, and the legacy functions
for every value of their constants.

Paths below are relative to the repository; a file named alone is in `src/`.

## 1. Inventory

CharLS is a library without threads: one object, one call at a time. What is
hard about it is not concurrency but *agreement at a distance*. An encoder and a
decoder that share no state have to take the same decisions for millions of
samples; the bits in between must survive stuffing, flushes and refills at every
alignment; and applications drive both objects through sequences of calls, with
failures in the middle, that no unit test enumerates.

| Component | State | Operations | Interacts with | What makes it correct |
|---|---|---|---|---|
| Regular contexts (`context.h`) | A, B, C, N of 365 contexts | update, Golomb parameter, error correction | updated by the scan codec on both sides, for each sample | sums and counter stay in the bounds that the ASSERTs and the widths need; the search for k ends |
| Run contexts (`context_run_mode.h`) | A, N, Nn, nReset | update, map and unmap an error, Golomb parameter | as above, at the end of a run | every error can be unmapped in every state reached |
| Preset coding parameters (`jpegls_preset_coding_parameters.h`) | none | default, validate, fill in | API, reader, writer, codec | thresholds in order for every depth and NEAR |
| Entropy coder (`scan.h`, `jpegls.cpp`, `lookup_table.h`) | RUNindex, tables | code and decode an error or a run length | bit stream | prefix codes of bounded length; tables agree with the long way |
| Bit writer and reader (`encoder_strategy.h`, `decoder_strategy.h`) | bit buffer, read cache, positions | append, flush, refill, end a scan | codec above, memory or `std::streambuf` below | a lossless channel without markers inside; the position after a scan is that of the next marker |
| Traits (`default_traits.h`, `lossless_traits.h`) | RANGE, qbpp, LIMIT | quantise, reduce, reconstruct | codec | reconstruction within NEAR |
| Scan codec (`scan.h`, `jls_codec_factory.h`) | lines, contexts, RUNindex of each component | DoScan, in three interleave modes | all of the above | decoder and encoder in lockstep |
| Stream reader (`jpeg_stream_reader.cpp`) | state, frame, component ids, parameters, position | ReadHeader, ReadStartOfScan, ReadNextStartOfScan, Read | decoder API, codec | a header is reported only when complete; every plane comes from its scan |
| Stream writer (`jpeg_stream_writer.cpp`) | position, componentId_ | one function for each segment | encoder API | what it writes can be read |
| Decoder API (`charls_jpegls_decoder.cpp`) | a state of five | source, read_header (twice), decode, getters | reader | no order of calls, failed ones included, yields a wrong image |
| Encoder API (`charls_jpegls_encoder.cpp`) | a state of three, settings | setters, destination, SPIFF header and entries, encode | writer, codec | what is encoded decodes to the same settings |
| Line processing (`process_line.h`) | a pointer into the image, or the position of a stream | NewLineRequested, NewLineDecoded, of three classes | codec, caller's memory or `std::streambuf` | every sample arrives in its place, and no other byte is touched |
| Colour transformations (`color_transform.h`) | none | HP1, HP2, HP3, their inverses, the shifted forms | line processing | each inverse restores every pixel |
| Legacy interface (`interface.cpp`, the ends of both API files) | none | four functions on memory, three on a ByteStreamInfo | encoder and decoder objects, or reader and writer | they accept what can be decoded, describe what was encoded, and agree with each other |
| Errors, version, public headers, .NET, samples, tests | | | | not modelled |

Hard behaviours: the failure of a call at any segment and a retry; a destination
that ends anywhere; a source that ends anywhere or, as a stream, never says so;
scans that follow one another with segments in between; counters at their widths
and at their reset value; and, everywhere in the codec, two sides that must
repeat each other. `PROJECT.json` lists these hazards line by line, with the
properties for each.

## 2. Modules

    Util            arithmetic of util.h; the search for a Golomb parameter
      JlsContext ---- RegularStatistics --- MCRegularStatistics    ContextProofs
      RunModeContext  RunStatistics ------- MCRunStatistics        RunContextProofs
      PresetParameters                                             (CodingProofs,
        CodecFactory                                                UtilProofs: lemmas)
      EntropyCoding - CodeWords ----------- MCCodeWords            CodingProofs
        Scan -------------------------------MCScan      uses Traits (CodingProofs),
                                            JlsContext, RunModeContext, CodecFactory
    Words, BitWriter, BitReader, BitStream - MCBitStream           BitStreamProofs
                                             implements BitChannel
    JpegStreamReader - JpegLSDecoder ------- MCJpegLSDecoder       DecoderProofs
    JpegLSEncoder ------ EncodeDecode ------ MCEncodeDecode  with JpegLSDecoder
                           LegacyInterface - MCLegacyInterface     EncodeDecodeProofs
    ColorTransform ----- ImageTransfer ----- MCImageTransfer       TransferProofs

**Context statistics.** `JlsContext` and `RunModeContext` translate the update
functions line by line, with the widths of their members (`ToInt16` of N,
`ToUInt8` of nReset_). `RegularStatistics` and `RunStatistics` give one context
any sequence of errors that an image can bring.

**PresetParameters** holds `compute_default`, `is_valid` and `SetPresets`.

**EntropyCoding** has the limited-length Golomb codes, the decoding tables and
the run lengths, as functions from and to sequences of bits; `CodeWords` codes
one value and reads it back. The loops of the code are recursive functions over
the bits or the pixels that are left, not RECURSIVE operators, so that TLAPS can
reason about them.

**Bit stream.** `BitWriter` and `BitReader` model the two strategies with bits
(as sets of bit positions, `Words`), the byte after 0xFF, the fast refill and
its cached position of the next 0xFF, refills of the stream buffer, and the way
back from the cache to the position behind a scan. The widths are constants, so
that an instance with bytes of 3 bits meets every alignment within a few codes.
`BitStream` composes them; `BitChannel` is what they promise, and `BitStream`
implements it under the mapping queue |-> the codewords in `sent`.

**Scan** runs DoScan of an encoder and of a decoder in turn, one pixel or run
at a time. Each side has its own contexts, lines and RUNindex; the decoder sees
only bits. `Scans` is the set of images: `WithCodec` does for each what
CreateCodec and SetPresets do.

**JpegStreamReader** makes each iteration of the loops of the reader one step.
The bytes are chosen while they are read: a stream is any sequence of the
segments of its kind, the malformed ones included. An ASSERT that fails is
recorded in `asserts` and the model goes on, as a release build does.
`JpegLSDecoder` adds the application: any order of calls that the state of the
decoder accepts, also (`Retry`) after one that threw. A call that is refused
because of the state changes nothing and is no action.

**JpegLSEncoder** has the setters in any order, the destination, the SPIFF
header and its entries, and encode. Encode is one step that succeeds
(`Encode`), throws in a scan (`EncodeFailsInScan`: the writer has not advanced
past the scan, and the application may go on), or meets the end of the
destination in any segment (`EncodeRunsFull`: nothing can follow).
**EncodeDecode** gives the segments that were written to the decoder.

**LegacyInterface** extends that composition: a function encodes, or an encoder
object does, and up to `MaxCalls` different functions read what was written, one
after the other. JpegLsEncode and JpegLsEncodeStream differ in what they accept
(`JpegLsEncodeAccepts`, `VerifyInput`) and then take the steps of
`JpegLSEncoder`, whose segments both write in the same order. JpegLsDecode,
JpegLsDecodeRect and JpegLsReadHeader take the steps of a new `JpegLSDecoder`;
the two functions on a stream call the reader themselves (`StreamStep`).

**ColorTransform** has the transformations as operators on samples of any width
w, with the casts where the code has them. **ImageTransfer** moves one image from
the source of an application, line by line and plane by plane, into the lines
of a codec, and from these into a destination: one step is one call of
NewLineRequested or NewLineDecoded. The codec between is the identity, which is
what `Scan` shows of lossless scans. The bytes of the source are a function of
their place (`SourceByte`), the destination a function from the places written;
`image` holds what both applications ask for: kind of buffer, stride and size on
either side, region, BGR. A line of memory that does not hold it is read or
written all the same; that is undefined behaviour, so `ReadOutside` and
`WriteOutside` lead to step "outside", of which nothing more is said.

### Correspondence in short

`reader` is the members of JpegStreamReader (`state_`, `frame_info_`,
`component_ids_`, `parameters_`, `preset_coding_parameters_`), `source` its
`byteStream_`, `call` the C++ stack: the function that runs and its locals,
`api` the `state_` of the decoder object, `encoder` and `state` the members of
the encoder object, `writer` those of JpegStreamWriter. In `ImageTransfer`,
`plane` is the rawData of the ByteStreamInfo that encode and Read advance with
SkipBytes, `at` the `rawData_` of the ProcessLine or the position of a stream.
In `LegacyInterface`, `reading` is the function on the stack. `history`,
`planes`, `attempts`, `results` and `sent` exist to state properties only.

## 3. Runs

| Run | Shows | Bounds, and why they are enough |
|---|---|---|
| MCRegularStatistics | `StatisticsBounded`: N, B and A in range across halvings; `GolombBounded`: k selects one of the decoding tables | NEAR 1, reset 4, errors -5..4: contexts halve every few samples, C moves both ways to its limits |
| MCRunStatistics | `RunStatisticsBounded`, `RunErrorRoundTrip` (the ASSERT of EncodeRIError), `RunSearchEnds` | reset 6, errors to 5, both types: every combination of N, Nn and k at which the map bit changes |
| MCBitStream | no negative room, no marker in a scan, nothing rejected, nothing lost, the right position at the end; implements `BitChannel` | bytes of 3 bits, 24 bits: a 0xFF is 3 one bits, so stuffing, double flushes, refills and the end of the buffer meet at each alignment |
| MCCodeWords | a value read back is the one written, with nothing left over; codes within LIMIT; tables agree | depths 2 to 16; every mapped error up to 8 bits, around each power of 2 beyond; every RUNindex |
| MCScan | `Lockstep`, `NearLossless`, legal calls; `DefaultsOrdered`, default thresholds in order | all images of five kinds: 4x2 lossless of 2 bits; near-lossless with reset 3; runs over 7 samples; three components by line; three by sample. Two lines are the least in which every neighbour matters |
| MCJpegLSDecoder | complete headers, fitting parameters, planes from their scans, a frame that never changes, calls that return | 10 segments of 25 kinds or 14 of 8; a colour image with a SPIFF header and presets between its scans takes 10; frames of up to 4 components (`MaxComponents`; 255 in the code, and any number in the proofs) |
| MCEncodeDecode | `EncodedIsDecodable`, `CodecsAgree`, `DecodedIsEncoded`, `SpiffIsFound` | three frames (gray, colour of 4 and of 16 bits), two values of each setting, two calls of encode with one setting changed in between, failures at every segment |
| MCImageTransfer | `PixelsArrive`; nothing is written between lines or behind planes, and outside only in the two cases that no check covers (`BuffersRespected`), nothing refused without need (`EnoughIsEnough`); the codec gets legal samples (`CodedSamplesFit`) | bytes of 4 bits, so that every colour of one byte is a pixel of some image and two-byte samples stay small; images of one pixel or of 3 by 3, 1 to 4 components; strides without and with padding; the whole image, an inner and a corner region; sides that lack a byte; with a stride also a destination of the size without it |
| MCLegacyInterface | `HeaderDescribesImage`, `ReencodesAlike`, `LegacyCallsAgree`, `EncodedIsReadable` | parameters with 2 components, 3 of 4 and of 16 bits, and an invalid depth; NEAR 0, 7 and 263 (7 in a byte); three presets, one never valid and one valid for samples of 8 bits only; failures at every segment; every two of the five functions that read, in either order |
| MCScanQuad | violation, see 4 | |
| MCTransferShifted | violation, see 4 | |
| MCTransferPadded | violation, see 4 | |

**Fairness.** Only `CallsReturn` is a liveness property. Its specification
assumes weak fairness of `Running`, the steps of a call that was made: the code
is sequential, and a call that can go on does. Nothing is assumed of the
application: it may stop calling at any time (`Stop`), and so may the encoder
in `EncodeDecode`, whose specification states safety only. (`FairSpecLegacy`, for
MCLegacyStream in section 4, assumes the same of a legacy function that runs.)

**Deadlock** is checked in every run. Where a scan or a stream is complete a
`Done` or `Stop` step says so.

## 4. Disagreements between code and documents

Three runs show one each:

1. `MCScanQuad`. Four components of 8 bits interleaved by sample, lossless:
   the comparison of two Quads is that of their Triplets, and a run continues
   although the fourth component changes.
2. `MCTransferShifted`. public_types.h:989 calls the colour transformations
   lossless. For samples of 9 to 15 bits TransformShifted moves them to the high
   bits of their type, transforms, and drops the low bits again; HP2 and HP3 keep
   a part of a mean there, and the inverse yields other samples. HP1, which has
   no mean, is not affected: MCImageTransfer includes it.
3. `MCTransferPadded`. Of the size of a destination charls.h:185 says "If the
   array is too small the function will return an error". Read compares it with
   the size of the image without padding (jpeg_stream_reader.cpp:50-53) and
   writes with the stride; a destination with a stride and the size of the image
   without one is accepted, and the last lines are written behind its end.

Further ones met while modelling. Each is shown by a configuration kept beside
those of the runs (`tlc -config <name>.cfg <module>.tla`), or by that of a run
with the given constants and property in place of its own:

| Configuration, or run with its changes | What differs |
|---|---|
| MCRegularStatistics, NEAR = 0, RESET = 65535, ErrorValues <- ExtremeErrors, MaxError = 32768, InitialA = 1024, `SumAssertsHold` | reset 65535 lets A pass the bound of context.h:45 |
| MCRegularStatistics, NEAR = 0, RESET = 65535, ErrorValues <- ZeroErrors, MaxError = 0, `CounterAssertsHold` | with a reset value above 32767 the 16-bit N wraps to 0 (context.h:57) |
| MCScan, Scans <- MixedScan, `UsedPresetsOrdered` | is_valid takes a T1 above the defaults that replace T2 and T3 |
| MCScan, Scans <- MaxvalScan, `NearLossless` | CorrectPrediction masks with MAXVAL where it should compare, for MAXVAL + 1 no power of 2 (default_traits.h:97) |
| MCRunStatistics, RESET = 256, MaxError = 1, RITypes = {1}, `RunSearchEnds` | the reset value is kept in 8 bits (context_run_mode.h:29): 256, valid for samples of more than 8 bits, becomes 0, N wraps to 0, and GetGolomb, whose ASSERT at line 42 says k <= 32, never ends |
| MCScan, Scans <- ResetOnlyScan, `NearLossless` | when the reset value is the only preset that is set, CreateCodec takes the 0 that stands for a default as MAXVAL (jpegls.cpp:102) |
| MCJpegLSDecoder, Retry = FALSE, Streams <- ImageStreams, `ReadAssertHolds` | decode() may be called twice; Read then starts where no scan does, against its ASSERT (jpeg_stream_reader.cpp:33) |
| the same, `HeaderAssertHolds` | a SPIFF header after the frame is reported as found; the next read_header() meets the ASSERT at jpeg_stream_reader.cpp:88 |
| MCJpegLSDecoder, Retry = FALSE, Streams <- PresetStreams, `PresetAssertHolds` | presets between two scans are not compared with the frame (ASSERT at jpeg_stream_reader.cpp:614) |
| MCJpegLSDecoder, Retry = FALSE, Streams <- ImageStreams, `PresetOfFirstScan` or `ModeOfFirstScan` | after decode() the decoder reports preset and interleave mode of a later scan; charls.h:148 and charls_jpegls_decoder.cpp:82 say the first |
| MCJpegLSDecoder, Retry = FALSE, Source = "stream", Streams <- ImageStreams, `CallsReturn` | a stream buffer that has ended yields 0xFF for ever to ReadNextMarkerCode |
| MCEncodeDecode, Frames <- TwoComponents, InterleaveModes = {"none", "line", "sample"}, Nears = {0}, PresetSettings = {}, ColorTransformations = {"none"}, MaxEncodes = 1, MaxChanges = 0, `InterleaveIsDecodable` | the encoder interleaves two components; the decoder refuses the result (public_types.h:307) |
| `MCTransferStrided.cfg`, MCImageTransfer | Read goes on to the next plane by the bytes of one without padding (jpeg_stream_reader.cpp:50, 66): with a stride the lines of a plane are put over the last ones of the plane before. charls.h:186 calls the stride the bytes to the next line, and destination_size (unittest/jpegls_decoder_test.cpp:165) has room for every plane with it |
| MCImageTransfer, Images <- StridedSources, `PixelsArrive` | encode finds the planes of its source by their bytes without padding (charls_jpegls_encoder.cpp:188; charls.h:341), as Read does |
| MCImageTransfer, Images <- StridedStream, `EnoughIsEnough` | the padding behind the lines of a stream: the loop that reads a line has counted bytesToRead down to 0, and the whole stride is skipped (process_line.h:122-124) |
| MCLegacyInterface, `NearIsWritten` | JpegLsEncodeStream encodes with a NEAR above 255 and writes its low 8 bits (public_types.h:312 has an error for it) |
| `MCLegacyStream.cfg`, MCLegacyInterface | JpegLsDecodeStream, given a stream buffer with an image in planes, does not return: decoding the first plane has taken the others into its buffer |

encode compares the size of its source with nothing (charls_jpegls_encoder.cpp:185),
and a source in memory that is too short is read behind its end; no document
promises an error for it, so `BuffersRespected` names it as an exception.

`MCBitStreamWide.cfg` checks the bit stream, without a disagreement, with bytes
of 8 bits and the widths of the code. Two more facts that no document of the
repository speaks about: a second encode() continues the component identifiers
of the first, and after a SPIFF header it writes the end of the directory again
in place of a start of image. Neither reaches a decoder, which stops at the end
of the first image.

`EncodedIsDecodable` is stated for settings that are `Supported`; the settings
that the encoder takes and the decoder refuses are an interleave mode with 1, 2
or more than 4 components, a NEAR above half the largest sample value, and
presets for another depth than that of the frame.

`ReencodesAlike` is stated for presets that JpegLsEncode would take itself. The
setter checks presets as for samples of 16 bits (charls_jpegls_encoder.cpp:67), and
JpegLsEncodeStream does not check them. A preset with a T2 of 30 and the other
thresholds 0 is valid for NEAR 7 and 8 bits, because the default T1 is below 30,
and not for 16 bits: JpegLsEncodeStream encodes with it, JpegLsReadHeader reports
it, and JpegLsEncode refuses what was reported. MCLegacyInterface has that preset;
without the hypothesis TLC finds this.

## 5. Proofs

Run `tlapm` on `UtilProofs`, `ContextProofs`, `RunContextProofs`, `CodingProofs`,
`BitStreamProofs`, `DecoderProofs`, `TransferProofs` and `EncodeDecodeProofs`.

### Statistics, presets and colours

- `RegularStatisticsBounded` (`ContextProofs`): for every NEAR, initial A, set
  of errors and reset value up to 32767, `Spec => [](TypeOK /\ StatisticsBounded)`.
  The invariant is inductive as it stands, because it bounds A by N times the
  largest magnitude: that survives one more sample and, by the lemma
  `MeanPreserved`, the halving of both. A bound on A alone would not.
- `RegularGolombBounded`: k is at most that of one sample of the largest
  magnitude, from the bound on the mean and `LeastShiftOfMean`. For 16-bit
  samples that is 15, an index of the decoding tables.
- `RunContextBounded` (`RunContextProofs`): N, Nn and A of a run context, for
  every reset value up to 255; Nn < N is what the next results need.
- `RunErrorsRoundTrip`: in every reachable state ComputeErrVal inverts the
  mapping of every error; the lemma `MappedErrorRoundTrip` shows it for any
  statistics, and the proof adds that an error of 0 never meets type 1.
- `RunSearchesEnd`: the search ends when magnitudes are below 2^24.
- `DefaultThresholdsOrdered` (`CodingProofs`): for every largest sample value
  and every NEAR up to half of it, from `ClampInRange` (`UtilProofs`),
  applied three times: each clamped threshold is a lower bound that the next can have.
- `TransformationsRestore` (`TransferProofs`): for samples of 8 and of 16 bits, the
  inverse of each colour transformation restores every pixel. Each cast adds a
  multiple of 2^w (`CastAddsMultiple`); the means cancel because both directions
  take them of the same values, and a multiple of 2^w is all that is left
  (`CastUndone`). The run shows it with bytes of 4 bits, and MCTransferShifted
  that the shifted forms have no such theorem.

The assumptions RESET <= 32767 and RESET <= 255 are not for convenience: the
first rows of the second table in section 4 show what happens beyond them.

### Samples and codes

- `SamplesWithinNear` (`CodingProofs`): for every depth from 2 to 16 bits, every
  NEAR up to half of the largest sample value, both families of traits, every
  sample and every prediction below 2^18, the corrected prediction and the
  reconstructed sample are samples, the latter within NEAR of the sample
  of the image, and the coded error is one of RANGE values. MAXVAL is the one of
  the depth (`Fits`): `CorrectPrediction` masks with MAXVAL, and a mask clamps only
  when MAXVAL is 2^n - 1 (`SampleIsMasked`, `LargerIsNotMasked`). For DefaultTraits,
  `ModuloRangeShifts` and `WrapUndone` show that what encoder and decoder shift by
  RANGE cancels; for LosslessTraits both work modulo 2^n.
- `CodesAreRead`, `CodesAreLegal`, `CodesAreLimited`, `TablesAreComplete`, from
  `CodesInvariant`: the four properties of MCCodeWords for every set of depths from 2
  to 16 bits, every k, every RUNindex, every mapped error and every length of a line.
  The calls of an error make a code of a simple shape, `Code(z, v, n)`: z zeros, a 1,
  and v in n bits (`ShortCode`, `EscapedCode`), however the zeros were split over
  calls. The reader counts the zeros (`ReadPrefix`) and gets v from its bits
  (`NumberOfCall`); the limit tells an escape from a quotient (`ErrorRead`). No code
  starts another (`CodesArePrefixFree`), so that a table has at most the entry of the
  error itself, and InitTable, which stops at the first code that is too long, misses
  none because lengths do not shrink with the error (`ShortErrorsTabulated`). For a
  run, the loop of the reader at some bit and some number of pixels follows the loop
  of the writer through all its blocks (`Follows`, `BlocksRead`), to the end of the
  line or to the 0 bit and the rest (`RunRead`).

  These are inductions over bits and pixels. They are made without an induction
  theorem: of the arguments at which a statement fails, take the smallest
  (`LeastElement`), and show that it holds there. That a recursive function is
  defined at all is shown in the same way (`FlattenDefined`, `BlocksDefined`,
  `ReadDefined`).

### The bit stream

`BitStreamProofs` is about every sequence of codewords that fit one call
(`ValuesAssumption`, `ZeroRunsAssumption`), every width of a byte from 3 bits and of
the cache from 3 bytes up, every destination, and sources in memory or behind a
stream buffer of any size above the bytes at which it is filled again.

**The writer** (`WriterInvariant`). Between two calls a writer is `Sound`: the bits that
count are above the free ones, `ff` says whether the last byte was a 0xFF, and no
byte behind a 0xFF has its top bit set. While it writes it has 0 to BufferBits
free bits; after EndScan it has nothing left, its last byte is no 0xFF, and a
stream has everything.

The step is one turn of the loop in Flush (`PutByteStep`): a byte frees ByteBits
bits, one less behind a 0xFF. A 0xFF is followed by a byte that is none, so of the
four bytes of a flush at most two are one bit short: it leaves at most two bits,
and the second flush takes the rest of any codeword that fits. That is the
ASSERT of AppendToBitStream (`WriterAssertions`). EndScan fills the last byte with 0
bits, one less behind a 0xFF, and so ends on a whole number of bytes.
`ScansHoldNoMarker` and `StreamsAreComplete` follow from the same invariant.

**What was sent** (`ScanInvariant`). `ScanInv` says where the bits of the codewords
are that were sent and not yet read. While a scan is written, the writer `Carries`
them: the first are those of the bytes put, less the stuffed ones, and the others
are in the buffer from its top on. `PutByteCarries`, `FlushCarries`, `AppendCarries`
and `EndScanCarries` show that no step loses or adds one, also when a codeword is
split over two or three flushes. A sequence of bits is compared through the
places of its 1 bits, so that the buffer, a set of places, needs no other view.

Once the scan has ended the reader `Holds` them, with less than a byte of fill
behind: those that are valid in the cache, and those `Ahead` of it in the bytes. Two
facts make this inductive. The cache may have some of the bits ahead
already, because the fast refill reads a whole word and counts whole bytes only;
what it has must be exactly those bits, since later loads add to them with an OR.
And of a 0xFF only the bits but the last are valid, as the next byte brings the
last one again in the place of the stuffed bit; so it is `Ahead` until that byte is
loaded, and in the cache, not valid, all the while.

`LoadByteStep` and `OptimizedReadStep` are the two ways to refill, `MakeValidStep`
is all of MakeValid: it fills the cache or ends at the marker. That it does
not end at the limit of a stream's buffer needs RefillLimit bytes to fill the
cache (`RefillAssumption`; in the code 64 bytes of at least 7 bits for 56).
`TakeStep` takes bits off the top, `ReadHighBitsStep` follows the loop over a run
of 0 bits of any length, `ReadsDeliver` collects the four reads. The loops are
recursive functions of the model; that they are defined, and what they
return, is shown with the smallest argument that fails (`LoadsDefined`,
`ZerosDefined`).

- `StreamsKeepTypes`, `ReadersNeverReject`: `TypeOK` and `NeverRejected` are part of the
  invariant. No read asks for more than MakeValid provides or the scan has.
- `PositionsAreMarkers`: with nothing but fill left the reader is at the marker and its
  cache is empty of 1 bits (`FillIsLeft`), and the way back of GetCurBytePos stops at
  once, for not a whole byte is cached (`BytePositionStep`).
- `NothingIsLost`: `Pending`, as the run states it from the registers, is the sequence
  that `ScanInv` speaks of (`PendingIsSent`).
- `ScansAreChannels`: the refinement of `BitChannel`. Sending puts one codeword in the
  queue (`PutInChannel`), a read takes the first out, and is the only one to deliver
  (`StepOfChannel`); all other steps stutter.

### The decoder

`DecoderInvariant` (`DecoderProofs`) is about every set of streams, well formed or
not, of any length, from memory or a stream, every order of calls, and calls
repeated after an error. The properties are not inductive: each says something
about a return that only the way there justifies. `IInv` says what the way is:

- `CallFitsApi`: which function can be on the stack in which state of the decoder
  object. Without it ReadHeader could run while a header is reported as read.
- `StateFitsHistory`: the reader is in a state only behind the segments that lead
  there; it gives `HeaderComplete` its start of image, frame and directory end.
- `StateFitsCall`: bits can only be ahead of a decoder that has returned from
  read_header; otherwise a scan could be read twice.
- `ScansCounted`: each scan came from a segment of its own, so that the number
  of a scan is bounded by that of the segments.
- `ParametersFit`: in front of the bits of a scan its NEAR and presets were
  compared with the frame, unless the ASSERT at jpeg_stream_reader.cpp:614
  failed (`ScanParametersChecked`).
- `PlanesSoFar`: while a decode runs, plane p holds the p-th scan of that decode.
  It needs that component counts no further than the frame has components, and
  that a decode in planes stays in mode none; `PlanesComplete` is what is left
  of it at the return.

`FrameNeverChanges` is an action property of the same invariant: once the header
was read no segment that is accepted is a frame. TLC agreed with every conjunct
before it was proved (MCJpegLSDecoder with IInv as invariant).

### The transfer of an image

`TransferInv` (`TransferProofs`) numbers the lines that either side handles over all
scans: line l of scan s is row (s - 1) * height + l, of the source for the
encoder and of the region for the decoder. It says that `at` (and `plane`, in memory)
is where that row starts; that the lines taken so far are those of the image,
coded (`CodedRow`); and that the destination holds the rows written so far, each
byte what the decoder makes of its sample, and no other byte (`Holds`). One lemma
for each action adds a row or moves on to the next scan (`TransferIsInLine`). Under it are the
arithmetic of places (`DivMod`: a place names one row, pixel, sample and byte) and
one lemma for each direction of a line: what PixelsAt reads off the bytes of
the source are its samples (`PixelsOfLine`), and what RawBytes writes are the
bytes of the decoded pixels (`RowIsWritten`).

- `PixelsAlwaysArrive`: `PixelsArrive` for every image, from `PixelRestored`,
  which lifts `TransformationsRestore` to pixels of 3 or 4 samples and to the
  shifted HP1.
- `BuffersAlwaysRespected`, for buffers of any size: a line that lies outside is one
  of a source in memory that lacks something (`SourceLacksLine`), or of a destination
  whose size, which passed the check of Read, ends before its last line with the
  stride (`WriteOutsideStep`); and each byte that was written is the place of a sample
  (`RowsAreOfSamples`).
- `SamplesAlwaysFit`: the transformations cast to the type, and the shift down
  leaves the bits of a sample (`PixelCoded`).
- `EnoughIsAlwaysEnough`: a side that refuses lacks something, because the row
  that does not fit is one of those that a complete side has room for.

The theorems have two hypotheses. `InterfaceIsKept` fixes bytes of 8 bits, as
the code does, and says what the application owes the library, since no check
does: a stride is for one plane or interleaved samples in memory, and is no
shorter than a line; a region of width 0 stands for the whole image. It says
nothing of the sizes of buffers. Section 4 shows what the code does with strides
for several planes. `Restorable`, for `PixelsAlwaysArrive` alone, leaves out HP2
and HP3 of samples that are shifted, which MCTransferShifted refutes.
MCImageTransfer keeps its images to the same rules with bytes of 4 bits, where
TLC can go through all colours.

### What is encoded can be decoded

`EncodeDecodeProofs` is about an encoder and a decoder that share nothing but the
segments, for every set of frames (`Frames`, of 2 to 16 bits and 1 to 255
components), NEAR, presets and transformations, any number of calls of encode
and of SPIFF entries, and a failure of the destination or of a scan at any
segment. None of the properties is inductive: each compares what was read last
with settings that may have changed many calls ago. Three invariants, one built
on the other, carry the comparison.

**`EncoderInv`**, of the encoder alone (`EncoderInvariant`, without hypotheses). The
first `Prefix` segments are those of the SPIFF calls; segment Prefix + b is the
b-th of the `Length(settings)` segments that an encode with the settings of the
first attempt consists of (`IsWritten`), as far as it came: up to the segment that
did not fit, or to the scan that threw. What later calls add stands behind, and
somewhere in front of a second encode there is, where a scan of the first should
be, something that is no good scan, or the end (`StopsBefore`, `ScansAreOfFirst`).
Without these a second attempt could complete the scans of the first, and
`DecodedIsEncoded` would not be inductive. One lemma for each way encode can go
shows what it appends (`EncodeAdds`, `FailingScanAdds`, `FullDestinationAdds`), and
two that the rest stays (`FirstEncode`, `LaterEncode`).

**`DecoderInv`** says, for each function that can be on the stack (`Place`), how many
segments it has read and what the reader then holds: `HeaderTo(k)` are the members
of the reader behind segment k of the header, `ScanOf` those behind a start of
scan, `Between` and `BehindLast` its place between scans. So it is exact, not a
bound: the reader is a function of the settings and of the segments read. A call
has failed only where the stream cannot be read (`Failed`): the header if presets
or NEAR do not fit, or if it is not complete (`HeaderReadable`); the scans if one
is missing or bad, or if the mode does not go with the number of components
(`Decodable`). `asserts` stays empty but for a decode() that is called again, which
meets the ASSERT at jpeg_stream_reader.cpp:33. One lemma for each kind of segment
in each function (`FrameStep`, `TablesStep`, `FirstScanStep`, ...) takes the step.

**`LegacyInv`** adds the functions: what each has checked of the settings (`Given`),
which calls of the decoder object or of the reader it is in (`CallOf`), that its
result is "ok" only when the stream can be read that far and "error" only when it
cannot (`ResultFits`), and that what it reported is the header of the first encode
(`InHeaderOf`).

- `EncoderTypes`: `EncoderTypeOK`, from `EncoderTyped`.
- `DecodedWasEncoded`: a decode that returns has seen `ScanCount` good scans, all in
  the part of the first encode; `ScansCounted` turns that into a cardinality.
- `SpiffFound`: a reader that is behind the first segment without a SPIFF header has
  Prefix = 0.
- `EncodedDecodable`: an encode that returned has left everything (`DoneIsReadable`),
  and what `Supported` says of presets and NEAR is what the reader checks of
  those that were written (`SupportedFits`): the byte of NEAR loses nothing.
- `CodecsAgreed`: `CodecOfWritten` compares the presets that the stream carries with
  those the encoder had; where they differ the stream spells out the defaults.
- `HeaderDescribes`, `LegacyAgree`, `EncodedReadable`: from `LegacyInv`.
- `ReencodedAlike`: the default presets that a header of more than 12 bits spells out
  are valid (`DefaultsTaken`, from `DefaultsInOrder`) and are no defaults any more
  to the encoder that gets them, so that it writes them once (`ReportedAlike`).

The theorems on the decoder and the functions have the hypotheses Source =
"memory" and Retry = FALSE. A source that is a `std::streambuf` need not end, so
that a call on an incomplete stream is not one that fails; and after a failed
call the decoder may be behind any segment, which is the subject of
`DecoderProofs`. TLC has confirmed the invariants with all their conjuncts on the
instances of MCEncodeDecode and MCLegacyInterface.

### Assumptions, and what is only model-checked

Every assumption on a constant is a named ASSUME that TLC evaluates in the runs.
Most give types. Those that say more: `EncoderAssumption` (what frame_info, near_lossless
and the writer check of their arguments: 2 to 16 bits, 1 to 255 components, NEAR up
to 255); `ValuesAssumption` and
`ZeroRunsAssumption` (the ASSERT on the length of a codeword, and the cut of long
runs, in scan.h), `RefillAssumption` (decoder_strategy.h:69, see the bit stream), `IsSegment` in `ReaderAssumption` (the fields of a segment have
the width they have in a stream), `ImageAssumption` (a region within its image,
which the code does not check either; at most two bytes for a sample).

Only model-checked:

- `CallsReturn`: TLAPS does not treat fairness and ENABLED here.
- `Lockstep`, `NearLossless` and `CallsAreLegal` of `Scan`: that each code is read and
  each sample restored is proved (`CodingProofs`), and what is left is the state
  of two codecs that take the same steps over whole images.

## 6. Not modelled

- The codec between the two halves of `ImageTransfer` is the identity on lines;
  `Scan` is the model of the codec. Composing them would multiply the images of
  both without a new interaction: a line is all that they share. One exception
  is left out of both: with a reset value and samples interleaved, CreateCodec
  makes a codec whose lines hold single samples (jpegls.cpp:97).
- `std::streambuf`: sgetn and sputn transfer what was asked for or reach the end.
- Fields of a SPIFF header and the dimensions of an image: no decision of the
  modelled code depends on them beyond the refusals that `defect` stands for.
- The C functions around the two objects, which map exceptions to error codes,
  and the C++ classes of charls.h that map them back.
- Out of memory, and undefined behaviour of arguments that the API forbids.

## 7. Plan

Every safety property of the runs is proved but those of the scan. What could
follow is `Lockstep` of `Scan` from `CodesAreRead` and `SamplesWithinNear`: the contexts
stay the same on both sides because both update them with the same errors, within
the bounds of `ContextProofs` and `RunContextProofs`, which keep k and the mapped errors
in the range of the codes.
