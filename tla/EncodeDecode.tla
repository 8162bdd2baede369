---------------------------- MODULE EncodeDecode ----------------------------
(***************************************************************************)
(* An application encodes with a charls_jpegls_encoder (JpegLSEncoder) and *)
(* decodes what it wrote with a charls_jpegls_decoder (JpegLSDecoder): the *)
(* segments of the writer are those that the reader finds, one after the   *)
(* other.  The encoder can fail on the way, be told to encode again, or be *)
(* given other settings; the decoder is given whatever was written.        *)
(***************************************************************************)
EXTENDS JpegLSEncoder, JpegLSDecoder, CodecFactory

allVars == <<encoderVars, vars>>

InitBoth == InitEncoder /\ InitDecoder

\* The encoder is done when the decoder is given the stream.
EncoderStep == api = "initial" /\ NextEncoder /\ UNCHANGED vars

AtEnd == source.ended \/ source.read >= Len(writer.segments)

\* The segment that the reader is in front of.
Upcoming == writer.segments[source.read + 1]

\* The reader in front of a segment or of the end; ReadStartOfScan in the
\* segment whose marker was read.  There is room for the image.
ReadSegment ==
  \/ /\ ~AtEnd
     /\ ReadStartOfImage(Upcoming) \/ ReadHeaderSegment(Upcoming) \/ ReadNextStartOfScan(Upcoming)
  \/ source.read > 0 /\ ReadStartOfScan(writer.segments[source.read])
  \/ AtEnd /\ SeeksMarker /\ EndOfInput
  \/ BeginRead(TRUE) \/ ReadLoop \/ DecodeScan

\* source() takes what was written, also after an encode that threw.
DecoderStep ==
  /\ \/ attempts # <<>> /\ (SetSource \/ ReadSpiffHeader \/ ReadHeader \/ Decode)
     \/ ReadSegment /\ UNCHANGED api
     \/ HeaderRead \/ Return
  /\ UNCHANGED encoderVars

NextBoth == EncoderStep \/ DecoderStep \/ (Stop /\ UNCHANGED encoderVars)

SpecBoth == InitBoth /\ [][NextBoth]_allVars

-----------------------------------------------------------------------------
(* Properties.                                                             *)

First == attempts[1]
settings == First.settings

\* Settings that ISO/IEC 14495-1 and the decoder know: the encoder takes more.
Supported(e) ==
  LET maxval == CalculateMaximumSampleValue(e.frame.bits)
  IN  /\ e.mode # "none" => e.frame.components \in {3, 4}
      /\ IsValid(e.preset, maxval, e.near)
      /\ e.near <= MaximumNearLossless(Or(e.preset.maxval, maxval))

\* No call of a decoder that is used for one image fails.
NoCallFails == asserts = {} => call.outcome = "ok"

\* What encode has written with settings that are supported, the decoder reads
\* without an error, in whatever order the settings were made and the optional
\* calls for SPIFF used on both sides, and whatever was appended afterwards.
EncodedIsDecodable ==
  (attempts # <<>> /\ First.done /\ Supported(settings)) => NoCallFails

\* public_types.h:307: an interleave mode that is invalid in combination with the
\* component count is refused, so that what is encoded can be decoded.
InterleaveIsDecodable ==
  (attempts # <<>> /\ First.done) => NoCallFails

\* The codec that CreateCodec and SetPresets make for a scan.
CodecOf(frame, near, mode, preset) ==
  LET codec == CreateCodec(frame.bits, near, mode, frame.components, preset)
  IN  [codec |-> codec, presets |-> Presets(preset, codec.maxval, near)]

\* The decoder makes the same codec as the encoder for each scan, though the
\* stream spells out presets that the encoder has left to their defaults, and
\* though it takes the frame of the scan in one place and that of the image in
\* the other.
CodecsAgree ==
  (call.op = "DecodeScan" /\ reader.scanData = "good") =>
    /\ reader.frame = settings.frame
    /\ <<reader.near, reader.mode, reader.transformation>>
         = <<settings.near, settings.mode, settings.transformation>>
    /\ CodecOf(reader.frame, reader.near, reader.mode, reader.preset)
         = CodecOf([settings.frame EXCEPT !.components = IF settings.mode = "none" THEN 1 ELSE @],
                   settings.near, settings.mode, settings.preset)

\* A SPIFF header that was written is found by an application that asks for one,
\* whatever entries, transformation and presets follow it.
SpiffIsFound ==
  api = "spiff_header_not_found" =>
    ApplicationData8("spiff", "none") \notin {writer.segments[i] : i \in 1..(First.first - 1)}

\* The scans that were coded completely by the first encode.
ScansOfFirst ==
  {i \in DOMAIN writer.segments :
     /\ writer.segments[i].marker = "SOS" /\ writer.segments[i].data = "good"
     /\ Len(attempts) > 1 => i < attempts[2].first}

\* An image is decoded only when encode had coded all of its scans: also when the
\* call threw later, or another encode went on behind what a failed one left.
DecodedIsEncoded ==
  (call.op = "returned" /\ call.client = "decode" /\ call.outcome = "ok") =>
    Cardinality(ScansOfFirst) = (IF settings.mode = "none" THEN settings.frame.components ELSE 1)
=============================================================================
