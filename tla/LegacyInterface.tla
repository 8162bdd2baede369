--------------------------- MODULE LegacyInterface ---------------------------
(***************************************************************************)
(* The functions from before the encoder and decoder objects: JpegLsEncode,*)
(* JpegLsReadHeader, JpegLsDecode and JpegLsDecodeRect, which make such an *)
(* object for one call (charls_jpegls_encoder.cpp and _decoder.cpp), and   *)
(* those on a ByteStreamInfo (interface.cpp), which use the writer and the *)
(* reader on their own, with checks of their own.                          *)
(*                                                                         *)
(* An application encodes with a function, or with an encoder object       *)
(* (JpegLSEncoder), and gives what was written to the functions that read, *)
(* each at most once and one after the other.  A call that refuses its     *)
(* arguments writes nothing: it is no action here.                         *)
(***************************************************************************)
EXTENDS EncodeDecode

CONSTANTS
  LegacyFrames,  \* the frame of a JlsParameters, valid or not
  LegacyNears,   \* its allowedLossyError
  MaxCalls       \* bound: functions that read one stream

ASSUME LegacyAssumption ==
  /\ LegacyFrames \subseteq [bits : Int, components : Int]
  /\ LegacyNears \subseteq Nat /\ MaxCalls \in Nat

VARIABLES
  encodedBy,  \* the function that encodes, or the object
  reading,    \* the function that reads, or none
  results,    \* what each function that reads has returned
  params      \* the JlsParameters that a function has reported a header in

legacyVars == <<allVars, encodedBy, reading, results, params>>

HeaderFunctions == {"JpegLsReadHeader", "JpegLsReadHeaderStream"}
DecodeFunctions == {"JpegLsDecode", "JpegLsDecodeRect", "JpegLsDecodeStream"}
ReadFunctions == HeaderFunctions \cup DecodeFunctions
StreamFunctions == {"JpegLsReadHeaderStream", "JpegLsDecodeStream"}

InitLegacy ==
  /\ InitBoth
  /\ encodedBy = "object"
  /\ reading = "none"
  /\ results = [f \in ReadFunctions |-> "none"]
  /\ params = [f \in HeaderFunctions |-> encoder]

-----------------------------------------------------------------------------
(* Encoding.                                                               *)

\* JlsParameters: what the setters of an encoder object take, not yet checked.
\* holdsImage tells whether the source is as large as the image.
LegacyParameters ==
  [frame : LegacyFrames, mode : InterleaveModes, near : LegacyNears,
   preset : PresetSettings \cup {NoPreset}, transformation : ColorTransformations]

IsFrame(f) == f.bits \in 2..16 /\ f.components \in 1..255

\* Mutant: NEAR is not checked, as JpegLsEncodeStream does not check it.
JpegLsEncodeAcceptsAnyNear(p, jfif, holdsImage) ==
  ~jfif /\ IsFrame(p.frame) /\ IsValid(p.preset, 65535, p.near)

\* JpegLsEncode, with the setters of the object that it makes.
JpegLsEncodeAccepts(p, jfif, holdsImage) ==
  /\ ~jfif
  /\ p.near <= 255
  /\ IsFrame(p.frame)
  /\ IsValid(p.preset, 65535, p.near)

\* Mutant: any number of components can be interleaved, as for JpegLsEncode.
VerifyInputModeless(p, jfif, holdsImage) == IsFrame(p.frame) /\ holdsImage

\* VerifyInput of JpegLsEncodeStream: no more than this is checked.
VerifyInput(p, jfif, holdsImage) ==
  /\ IsFrame(p.frame)
  /\ holdsImage
  /\ p.mode # "none" => p.frame.components \in {3, 4}

\* An encoding function, up to its first write.  It goes on with the steps of
\* JpegLSEncoder: JpegLsEncodeStream calls the writer as encode does, on
\* parameters that went through no setter.
BeginEncode ==
  /\ state = "initial" /\ encoder.frame = NoFrame
  /\ \E p \in LegacyParameters, jfif, holdsImage \in BOOLEAN :
       /\ \/ JpegLsEncodeAccepts(p, jfif, holdsImage) /\ encodedBy' = "JpegLsEncode"
          \/ VerifyInput(p, jfif, holdsImage) /\ encodedBy' = "JpegLsEncodeStream"
       /\ encoder' = p
  /\ state' = "destination_set"
  /\ UNCHANGED <<writer, attempts, vars, reading, results, params>>

\* The rest of that function, or the object.
LegacyEncoderStep ==
  /\ IF encodedBy = "object" THEN EncoderStep
     ELSE attempts = <<>> /\ (Encode \/ EncodeFailsInScan \/ EncodeRunsFull) /\ UNCHANGED vars
  /\ reading = "none" /\ \A f \in ReadFunctions : results[f] = "none"
  /\ UNCHANGED <<encodedBy, reading, results, params>>

-----------------------------------------------------------------------------
(* Reading.                                                                *)

Called == {f \in ReadFunctions : results[f] # "none"}

NewReader == InitReader

\* Mutant: the source is read on from where the last function has stopped.
SourceContinued == source

\* The application passes the beginning of the stream each time.
SourceFromStart == [source EXCEPT !.read = 0, !.ended = FALSE]

\* A function makes a decoder and gives it the source (SetSource), or makes a
\* reader and calls its ReadHeader.
BeginReading(f) ==
  /\ attempts # <<>> /\ reading = "none"
  /\ f \notin Called /\ Cardinality(Called) < MaxCalls
  /\ reading' = f
  /\ reader' = NewReader
  /\ source' = SourceFromStart
  /\ planes' = NoPlanes
  /\ history' = [soi |-> 0, sof |-> 0, spiff |-> FALSE, eod |-> FALSE, scans |-> 0]
  /\ IF f \in StreamFunctions
     THEN Begin("ReadHeader", "header") /\ UNCHANGED api
     ELSE call' = NoCall /\ api' = "source_set"
  /\ UNCHANGED <<encoderVars, asserts, encodedBy, results, params>>

\* The calls of the decoder object: read_header, and decode after it.
ObjectStep ==
  /\ reading \notin StreamFunctions
  /\ ReadHeader \/ (reading \in DecodeFunctions /\ call.client = "header" /\ Decode) \/ Return

\* JpegLsDecodeStream calls Read of the reader when the first start of scan has
\* been read.
StreamStep ==
  /\ reading = "JpegLsDecodeStream"
  /\ call.op = "returned" /\ call.client = "header" /\ call.outcome = "ok"
  /\ Begin("Read", "decode")
  /\ UNCHANGED <<reader, source, planes, asserts, history, api>>

LegacyReaderStep ==
  /\ reading # "none"
  /\ ObjectStep \/ StreamStep \/ HeaderRead \/ (ReadSegment /\ UNCHANGED api)
  /\ UNCHANGED <<encoderVars, encodedBy, reading, results, params>>

\* Mutant: the preset coding parameters are left out, as the other function does.
ReportedWithoutPreset(f) ==
  [frame |-> reader.frame, mode |-> reader.mode, near |-> reader.near,
   preset |-> NoPreset, transformation |-> reader.transformation]

\* The JlsParameters of a header that was read.
Reported(f) ==
  [frame |-> reader.frame, mode |-> reader.mode, near |-> reader.near,
   preset |-> IF f = "JpegLsReadHeader" THEN reader.preset ELSE NoPreset,
   transformation |-> reader.transformation]

\* Nothing is left to call, or a call threw.
Finished ==
  \/ Idle /\ call.outcome = "error"
  \/ Idle /\ call.client = (IF reading \in HeaderFunctions THEN "header" ELSE "decode")
  \/ /\ reading \in StreamFunctions /\ call.op = "returned"
     /\ call.outcome = "error" \/ reading \in HeaderFunctions \/ call.client = "decode"

\* The function returns; the decoder or the reader is destroyed.
FinishReading ==
  /\ reading # "none" /\ Finished
  /\ results' = [results EXCEPT ![reading] = call.outcome]
  /\ params' = IF reading \in HeaderFunctions /\ call.outcome = "ok"
               THEN [params EXCEPT ![reading] = Reported(reading)] ELSE params
  /\ reading' = "none"
  /\ api' = "initial" /\ call' = NoCall
  /\ UNCHANGED <<encoderVars, reader, source, planes, asserts, history, encodedBy>>

StopLegacy == reading = "none" /\ UNCHANGED legacyVars

NextLegacy ==
  \/ BeginEncode \/ LegacyEncoderStep
  \/ \E f \in ReadFunctions : BeginReading(f)
  \/ LegacyReaderStep \/ FinishReading
  \/ StopLegacy

SpecLegacy == InitLegacy /\ [][NextLegacy]_legacyVars

\* The code of a function that was called keeps running.
FairSpecLegacy == SpecLegacy /\ WF_legacyVars(LegacyReaderStep \/ FinishReading)

-----------------------------------------------------------------------------
(* Properties.                                                             *)

Reads(f) == results[f] = "ok"
Image(p) == <<p.frame, p.mode, p.near, p.transformation>>

\* What a function reports of a header is what was encoded, whichever function or
\* object encoded it, unless JpegLsEncodeStream was given a NEAR above 255.
HeaderDescribesImage ==
  \A f \in HeaderFunctions :
    Reads(f) /\ (encodedBy = "JpegLsEncodeStream" => settings.near <= 255)
      => Image(params[f]) = Image(settings)

\* public_types.h:312 (invalid_argument_near_lossless), which JpegLsEncodeStream
\* does not return: a NEAR that was accepted is the one in the header.
NearIsWritten ==
  \A f \in HeaderFunctions : Reads(f) => params[f].near = settings.near

\* The parameters that JpegLsReadHeader reports of an image are accepted by
\* JpegLsEncode, and give the same segments but for a SPIFF header.  So it is if
\* JpegLsEncode would have taken the presets, which it checks as for samples of 16
\* bits: thresholds that are mixed with defaults can be valid for fewer bits only.
ReencodesAlike ==
  LET again == params["JpegLsReadHeader"]
  IN  ( /\ Reads("JpegLsReadHeader")
        /\ Supported(settings) /\ IsValid(settings.preset, 65535, settings.near) ) =>
        /\ JpegLsEncodeAccepts(again, FALSE, TRUE)
        /\ Header(again, "destination_set") = Header(settings, "destination_set")
        /\ Scans(again, 1) = Scans(settings, 1)

\* JpegLsDecodeStream returns when it is given, as a stream buffer, an image that
\* was encoded completely.
StreamDecodeReturns ==
  (reading = "JpegLsDecodeStream" /\ First.done) ~> (reading = "none")

\* The functions agree on a stream, also on what a call that failed has left: one
\* that decodes it implies those that read its header, and all decode it or none.
\* The order in which they call decoder and reader fails none of the ASSERTs there.
LegacyCallsAgree ==
  /\ asserts = {}
  /\ \A d \in DecodeFunctions, h \in HeaderFunctions : Reads(d) => results[h] # "error"
  /\ \A d, e \in DecodeFunctions : Reads(d) => results[e] # "error"
  /\ \A g, h \in HeaderFunctions : Reads(g) => results[h] # "error"

\* What JpegLsEncodeStream accepts and encodes, and presets and NEAR aside it
\* accepts only what is decodable, every function reads; so too what the object
\* and JpegLsEncode encode with settings that are supported.
EncodedIsReadable ==
  ( /\ attempts # <<>> /\ First.done
    /\ Supported(IF encodedBy = "JpegLsEncodeStream" THEN [settings EXCEPT !.mode = "none"]
                 ELSE settings) ) =>
      \A f \in Called : Reads(f)
=============================================================================
