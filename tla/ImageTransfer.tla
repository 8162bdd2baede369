---------------------------- MODULE ImageTransfer ----------------------------
(***************************************************************************)
(* How the pixels of an image get from an application to the lines that    *)
(* the scan codec codes, and from those back to an application: the        *)
(* ProcessLine classes (process_line.h), the plane after plane of encode   *)
(* (charls_jpegls_encoder.cpp) and of Read (jpeg_stream_reader.cpp), and   *)
(* the lines that DoScan hands over (scan.h).                              *)
(*                                                                         *)
(* Either side is memory (rawData) or a stream buffer (rawStream), a line  *)
(* of it is stride bytes behind the one before, and an interleaved image   *)
(* goes through a colour transformation.  The decoder may be asked for a   *)
(* region of the image and for BGR.  The codec in between is lossless      *)
(* (Scan); a line of it is a sequence of pixels, whether interleaved by    *)
(* line or by sample.  Encoding ends before decoding begins.               *)
(*                                                                         *)
(* Memory that is shorter than the lines in it is not always refused: a    *)
(* line that reaches behind its end is undefined behaviour, and nothing is *)
(* said of what follows it.                                                *)
(***************************************************************************)
EXTENDS ColorTransform, SequencesExt

CONSTANTS
  ByteBits,  \* the width of a byte: 8 in the code
  Images     \* the images, with what both applications ask for

\* A region is within its image.  The bits of a sample fill at most two bytes,
\* and a transformation is for interleaved samples of a byte or more.
ASSUME ImageAssumption ==
  /\ ByteBits \in Nat \ {0}
  /\ \A i \in Images :
       /\ i.width \in Nat \ {0} /\ i.height \in Nat \ {0}
       /\ i.bits \in 1..(2 * ByteBits)
       /\ i.mode # "none" => i.components \in {3, 4}
       /\ i.transformation # "none" => i.bits >= ByteBits
       /\ i.rect.width > 0 => /\ i.rect.x + i.rect.width <= i.width
                              /\ i.rect.y + i.rect.height <= i.height

VARIABLES
  image,       \* the image, and what was asked for
  step,        \* what goes on: encode, read, decode, done, refused, outside
  scan, line,  \* the scan, and the line of it that is next
  plane,       \* rawData of the caller's ByteStreamInfo: where the plane starts
  at,          \* rawData_ of the ProcessLine, or the position of the stream
  lines,       \* the lines of each scan, as they were coded
  rect,        \* JpegStreamReader::rect_
  destination  \* the bytes that were written, by their place

vars == <<image, step, scan, line, plane, at, lines, rect, destination>>

-----------------------------------------------------------------------------
(* Sizes.                                                                  *)

BytesPerSample == (image.bits + ByteBits - 1) \div ByteBits
Interleaved == image.mode # "none"
PixelSamples == IF Interleaved THEN image.components ELSE 1
Planes == IF Interleaved THEN 1 ELSE image.components

LineBytes(width) == width * PixelSamples * BytesPerSample

\* A stride of 0 leaves the choice to the library.
StrideOf(stride, width) == IF stride = 0 THEN LineBytes(width) ELSE stride
SourceStride == StrideOf(image.source.stride, image.width)
DestinationStride == StrideOf(image.destination.stride, rect.width)

FromStream == image.source.kind = "stream"
ToStream == image.destination.kind = "stream"

-----------------------------------------------------------------------------
(* The bytes of the application.  External: the layout that an encoder is  *)
(* given.  A plane, or the whole interleaved image, has its lines one      *)
(* after the other, a stride apart.  A sample of two bytes has its low     *)
(* byte first, but for the planes of a stream.                             *)

SourceSize == SourceStride * image.height * Planes - image.source.missing

SourceByte(a) ==
  LET perPlane == SourceStride * image.height
      inLine == a % SourceStride
      inPixel == inLine % (PixelSamples * BytesPerSample)
      y == (a % perPlane) \div SourceStride + 1
      x == inLine \div (PixelSamples * BytesPerSample) + 1
      c == (IF Interleaved THEN inPixel \div BytesPerSample ELSE a \div perPlane) + 1
      low == inPixel % BytesPerSample
      k == IF FromStream /\ ~Interleaved THEN BytesPerSample - 1 - low ELSE low
  IN  IF inLine >= LineBytes(image.width) THEN 0
      ELSE (image.samples[y][x][c] \div 2^(k * ByteBits)) % 2^ByteBits

-----------------------------------------------------------------------------
(* A line on its way.                                                      *)

\* Mutant: samples of more bits than a byte are not shifted.
TransformationUnshifted ==
  [kind |-> image.transformation, shift |-> 0, width |-> BytesPerSample * ByteBits]

\* CreateProcess: the transformation, for the type of the samples.
Transformation ==
  [kind  |-> image.transformation,
   width |-> BytesPerSample * ByteBits,
   shift |-> IF image.transformation = "none" \/ image.bits = BytesPerSample * ByteBits THEN 0
             ELSE 2 * ByteBits - image.bits]

\* A sample of one byte, or of two with the low one first.
SampleOf(bytes) ==
  IF BytesPerSample = 1 THEN bytes[1] ELSE bytes[1] + bytes[2] * 2^ByteBits

BytesOf(sample) ==
  [k \in 1..BytesPerSample |-> (sample \div 2^((k - 1) * ByteBits)) % 2^ByteBits]

\* ByteSwap: the planes of a stream have the high byte first.
ReadSample(bytes) ==
  SampleOf(IF FromStream /\ ~Interleaved THEN Reverse(bytes) ELSE bytes)

\* The pixels of a raw line that begins at a place of the source.
PixelsAt(place) ==
  [x \in 1..image.width |->
     [c \in 1..PixelSamples |->
        LET first == place + ((x - 1) * PixelSamples + c - 1) * BytesPerSample
        IN  ReadSample([k \in 1..BytesPerSample |-> SourceByte(first + k - 1)])]]

\* PostProcessSingleComponent copies; ProcessTransformed transforms, also
\* when the transformation is none.
ToCodec(pixel) == IF Interleaved THEN TransformPixel(Transformation, pixel) ELSE pixel

\* TransformRgbToBgr, on what the inverse of the transformation yields.
SwapRedAndBlue(pixel) == [pixel EXCEPT ![1] = pixel[3], ![3] = pixel[1]]

FromCodec(pixel) ==
  IF ~Interleaved THEN pixel
  ELSE LET original == InversePixel(Transformation, pixel)
       IN  IF image.bgr THEN SwapRedAndBlue(original) ELSE original

\* The bytes of a line that NewLineDecoded writes: pixel after pixel, sample after
\* sample.
RawBytes(pixels) ==
  [j \in 1..LineBytes(Len(pixels)) |->
     LET x == (j - 1) \div (PixelSamples * BytesPerSample) + 1
         c == ((j - 1) % (PixelSamples * BytesPerSample)) \div BytesPerSample + 1
     IN  BytesOf(FromCodec(pixels[x])[c])[((j - 1) % BytesPerSample) + 1]]

-----------------------------------------------------------------------------
(* Encoding.                                                               *)

Init ==
  /\ image \in Images
  /\ step = "encode"
  /\ scan = 1 /\ line = 0
  /\ plane = 0 /\ at = 0
  /\ lines = [s \in 1..Planes |-> <<>>]
  /\ rect = image.rect
  /\ destination = <<>>

\* Mutant: a stride without padding is skipped too.
StreamPaddingAlways ==
  IF Interleaved THEN 0 ELSE SourceStride

\* The planes of a stream are read without padding behind their lines: when a
\* stride calls for some, the whole stride is skipped, for bytesToRead has been
\* counted down to 0.  A stride below the line does too: the difference is unsigned.
StreamPadding ==
  IF Interleaved \/ SourceStride = LineBytes(image.width) THEN 0 ELSE SourceStride

SourceHoldsNext == at + LineBytes(image.width) <= SourceSize

\* NewLineRequested, of a line that the source holds.
EncodeLine ==
  /\ step = "encode" /\ line < image.height
  /\ SourceHoldsNext
  /\ LET pixels == PixelsAt(at)
     IN  lines' = [lines EXCEPT ![scan] = Append(@, [x \in DOMAIN pixels |-> ToCodec(pixels[x])])]
  /\ line' = line + 1
  /\ at' = at + (IF FromStream THEN LineBytes(image.width) + StreamPadding ELSE SourceStride)
  /\ UNCHANGED <<image, step, scan, plane, rect, destination>>

\* sgetn returns 0 before the line is complete.
SourceEnds ==
  /\ step = "encode" /\ line < image.height
  /\ FromStream /\ ~SourceHoldsNext
  /\ step' = "refused"
  /\ UNCHANGED <<image, scan, line, plane, at, lines, rect, destination>>

\* The size of a source in memory is compared with nothing: the line is read.
ReadOutside ==
  /\ step = "encode" /\ line < image.height
  /\ ~FromStream /\ ~SourceHoldsNext
  /\ step' = "outside"
  /\ UNCHANGED <<image, scan, line, plane, at, lines, rect, destination>>

\* SkipBytes leaves a stream where it is.
NextPlane(isStream, bytes) ==
  /\ scan' = scan + 1 /\ line' = 0
  /\ plane' = IF isStream THEN plane ELSE plane + bytes
  /\ at' = IF isStream THEN at ELSE plane'

\* byteCountComponent of encode.
PlaneBytes == image.width * image.height * BytesPerSample

\* encode_scan returns.
EndEncodeScan ==
  /\ step = "encode" /\ line = image.height
  /\ IF scan < Planes
     THEN NextPlane(FromStream, PlaneBytes) /\ UNCHANGED step
     ELSE /\ step' = "read"
          /\ scan' = 1 /\ line' = 0 /\ plane' = 0 /\ at' = 0
  /\ UNCHANGED <<image, lines, rect, destination>>

-----------------------------------------------------------------------------
(* Decoding.                                                               *)

\* Mutant: the size of a plane is compared.
FitsOnePlane(bytesPerPlane) == image.destination.count >= bytesPerPlane

\* The size of a destination in memory, whatever its stride.
Fits(bytesPerPlane) == image.destination.count >= bytesPerPlane * image.components

Region == IF rect.width <= 0 THEN [rect EXCEPT !.width = image.width, !.height = image.height]
          ELSE rect

\* bytesPerPlane of Read.
BytesPerPlane(r) == r.width * r.height * BytesPerSample

\* Read, up to its loop.
BeginRead ==
  /\ step = "read"
  /\ rect' = Region
  /\ step' = IF ToStream \/ Fits(BytesPerPlane(Region)) THEN "decode" ELSE "refused"
  /\ UNCHANGED <<image, scan, line, plane, at, lines, destination>>

InRegion == rect.y <= line /\ line < rect.y + rect.height

RoomForNext == at + LineBytes(rect.width) <= image.destination.count

\* NewLineDecoded, for a line of the region that there is room for.
DecodeLine ==
  /\ step = "decode" /\ line < image.height /\ InRegion
  /\ RoomForNext
  /\ LET bytes == RawBytes(SubSeq(lines[scan][line + 1], rect.x + 1, rect.x + rect.width))
         places == at..(at + Len(bytes) - 1)
     IN  destination' = [a \in DOMAIN destination \cup places |->
                           IF a \in places THEN bytes[a - at + 1] ELSE destination[a]]
  /\ at' = at + (IF ToStream THEN LineBytes(rect.width) ELSE DestinationStride)
  /\ line' = line + 1
  /\ UNCHANGED <<image, step, scan, plane, lines, rect>>

\* sputn writes less than the line.
DestinationIsFull ==
  /\ step = "decode" /\ line < image.height /\ InRegion
  /\ ToStream /\ ~RoomForNext
  /\ step' = "refused"
  /\ UNCHANGED <<image, scan, line, plane, at, lines, rect, destination>>

\* Memory that Read accepted is not looked at again: the line is written.
WriteOutside ==
  /\ step = "decode" /\ line < image.height /\ InRegion
  /\ ~ToStream /\ ~RoomForNext
  /\ step' = "outside"
  /\ UNCHANGED <<image, scan, line, plane, at, lines, rect, destination>>

\* DoScan decodes the lines outside the region, and keeps them to itself.
DropLine ==
  /\ step = "decode" /\ line < image.height /\ ~InRegion
  /\ line' = line + 1
  /\ UNCHANGED <<image, step, scan, plane, at, lines, rect, destination>>

\* DecodeScan returns to the loop of Read.
EndDecodeScan ==
  /\ step = "decode" /\ line = image.height
  /\ IF scan < Planes
     THEN NextPlane(ToStream, BytesPerPlane(rect)) /\ UNCHANGED step
     ELSE step' = "done" /\ UNCHANGED <<scan, line, plane, at>>
  /\ UNCHANGED <<image, lines, rect, destination>>

Stop == step \in {"done", "refused", "outside"} /\ UNCHANGED vars

Next ==
  \/ EncodeLine \/ SourceEnds \/ ReadOutside \/ EndEncodeScan
  \/ BeginRead \/ DecodeLine \/ DestinationIsFull \/ WriteOutside \/ DropLine
  \/ EndDecodeScan
  \/ Stop

Spec == Init /\ [][Next]_vars

-----------------------------------------------------------------------------
(* Properties.                                                             *)

\* Where a byte of a sample of the region belongs: charls.h:186 gives a line its
\* stride, and destination_size makes a plane as long as its lines.
PlaceOf(y, x, c, k) ==
  LET stride == IF ToStream THEN LineBytes(rect.width) ELSE DestinationStride
      sampleInLine == IF Interleaved THEN (x - 1) * image.components + c - 1 ELSE x - 1
      planeOfSample == IF Interleaved THEN 0 ELSE c - 1
  IN  planeOfSample * stride * rect.height + (y - 1) * stride
        + sampleInLine * BytesPerSample + k - 1

\* The component that an application finds in place of another.
ComponentAt(c) ==
  IF image.bgr /\ Interleaved /\ c \in {1, 3} THEN 4 - c ELSE c

Places ==
  {PlaceOf(y, x, c, k) : y \in 1..rect.height, x \in 1..rect.width,
                         c \in 1..image.components, k \in 1..BytesPerSample}

\* Every sample of the region arrives with its value in its place: through the
\* copy or transformation of either side, from memory or a stream, in planes or
\* interleaved, whatever the strides, the region and the order of the colours.
PixelsArrive ==
  step = "done" =>
    \A y \in 1..rect.height, x \in 1..rect.width, c \in 1..image.components,
       k \in 1..BytesPerSample :
         LET place == PlaceOf(y, x, c, k)
         IN  /\ place \in DOMAIN destination
             /\ destination[place]
                  = BytesOf(image.samples[rect.y + y][rect.x + x][ComponentAt(c)])[k]

\* The end of the last line of a destination in memory, whatever its stride.
EndOfLines == (Planes * rect.height - 1) * DestinationStride + LineBytes(rect.width)

\* Each side keeps to its buffer, with two exceptions that the code leaves to its
\* caller: a source in memory that lacks a part of the image (encode compares no
\* size), and a destination in memory with a stride that ends before its last line
\* does (Read compares a size without stride).  A destination without a stride is
\* safe whatever its size.  What is written is bytes of samples, none of them behind a
\* plane or between lines with a stride.
BuffersRespected ==
  /\ step = "outside" =>
       \/ image.source.missing > 0
       \/ ~ToStream /\ image.destination.stride # 0 /\ image.destination.count < EndOfLines
  /\ \A a \in DOMAIN destination : destination[a] \in 0..(2^ByteBits - 1)
  /\ step # "read" => DOMAIN destination \subseteq Places

\* charls.h:185, of the size of the destination: "If the array is too small the
\* function will return an error."  So decoding an image that was encoded from all of
\* its samples writes nothing outside.  It does not hold: Read compares a size without
\* the stride that it writes with (jpeg_stream_reader.cpp:50-53).
TooSmallIsRefused == step = "outside" => image.source.missing > 0

\* The codec is given samples that its largest sample value allows, after every
\* transformation.
CodedSamplesFit ==
  \A s \in 1..Planes : \A l \in DOMAIN lines[s] : \A x \in DOMAIN lines[s][l] :
    \A c \in 1..PixelSamples : lines[s][l][x][c] < 2^image.bits

\* A source that holds the image and a destination that has room for it are
\* enough: nothing is refused, from memory or from a stream.
EnoughIsEnough ==
  step = "refused" =>
    \/ image.source.missing > 0
    \/ image.destination.count
         < Region.width * Region.height * image.components * BytesPerSample
=============================================================================
