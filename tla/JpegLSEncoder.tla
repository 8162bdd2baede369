---------------------------- MODULE JpegLSEncoder ----------------------------
(***************************************************************************)
(* charls_jpegls_encoder (charls_jpegls_encoder.cpp) and the               *)
(* JpegStreamWriter it writes with (jpeg_stream_writer.cpp).  The          *)
(* application sets a destination in memory, sets what it wants in any     *)
(* order, may write a SPIFF header and entries, and calls encode.          *)
(*                                                                         *)
(* The stream is a sequence of segments, as JpegStreamReader reads them; a *)
(* scan is good when all its samples were coded.  Nothing follows a        *)
(* segment the destination had no room for.  A call whose arguments or     *)
(* whose state it refuses changes nothing: it is no action here.           *)
(***************************************************************************)
EXTENDS PresetParameters, Sequences, SequencesExt

CONSTANTS
  Frames,        \* what frame_info is set to: bits per sample and components
  InterleaveModes, Nears, PresetSettings, ColorTransformations,
  MaxEncodes,    \* bound: calls of encode
  MaxChanges,    \* bound: settings that differ between one encode and the next
  MaxEntries     \* bound: calls of write_spiff_entry

ASSUME EncoderAssumption ==
  /\ Frames \subseteq [bits : 2..16, components : 1..255]
  /\ Nears \subseteq 0..255
  /\ MaxEncodes \in Nat /\ MaxChanges \in Nat /\ MaxEntries \in Nat

VARIABLES
  encoder,   \* the members that are set: frame_info_, interleave_mode_ and so on
  state,     \* charls_jpegls_encoder::state_
  writer,    \* componentId_, whether the destination is full, and its segments
  attempts   \* the calls of encode: their settings, and whether they returned

encoderVars == <<encoder, state, writer, attempts>>

NoFrame == [bits |-> 0, components |-> 0]

InitEncoder ==
  /\ encoder = [frame |-> NoFrame, mode |-> "none", near |-> 0,
                preset |-> NoPreset, transformation |-> "none"]
  /\ state = "initial"
  /\ writer = [componentId |-> 1, full |-> FALSE, segments |-> <<>>]
  /\ attempts = <<>>

-----------------------------------------------------------------------------
(* The settings. *)

\* A setter.  After an encode the application changes few of its settings, and
\* none when it encodes no more.
Set(field, value) ==
  /\ encoder' = [encoder EXCEPT ![field] = value]
  /\ attempts # <<>> =>
       /\ Len(attempts) < MaxEncodes
       /\ LET last == Last(attempts).settings
          IN  Cardinality({f \in DOMAIN last : encoder'[f] # last[f]}) <= MaxChanges
  /\ UNCHANGED <<state, writer, attempts>>

SetFrameInfo == \E f \in Frames : Set("frame", f)
SetInterleaveMode == \E m \in InterleaveModes : Set("mode", m)
SetNearLossless == \E n \in Nears : Set("near", n)
SetColorTransformation == \E t \in ColorTransformations : Set("transformation", t)

\* Mutant: thresholds are taken as they come.
IsAcceptedUnchecked(p) == p.reset <= 65535

\* preset_coding_parameters: valid for the NEAR of the moment and for samples
\* of 16 bits, whatever the frame is or will be.
IsAccepted(p) == IsValid(p, 65535, encoder.near)

SetPreset == \E p \in PresetSettings : IsAccepted(p) /\ Set("preset", p)

SetDestination ==
  /\ state = "initial"
  /\ state' = "destination_set"
  /\ UNCHANGED <<encoder, writer, attempts>>

-----------------------------------------------------------------------------
(* The segments that the writer makes. *)

Marker(name) == [marker |-> name]
ApplicationData8(kind, value) == [marker |-> "APP8", kind |-> kind, value |-> value]

StartOfFrame(frame) ==
  [marker |-> "SOF", bits |-> frame.bits, ids |-> [k \in 1..frame.components |-> k],
   badSampling |-> 0, defect |-> FALSE]

PresetSegment(p) == [marker |-> "LSE", preset |-> p, defect |-> FALSE]

\* WriteStartOfScanSegment: the components follow componentId_, a byte as NEAR is.
StartOfScan(e, first, count) ==
  [marker |-> "SOS", ids |-> [k \in 1..count |-> (first + k - 1) % 256],
   near |-> e.near % 256, mode |-> e.mode, data |-> "good", defect |-> "none"]

\* Mutant: a custom preset is written for deep samples only.
PresetToWriteOfDepth(e) ==
  IF e.frame.bits > 12
  THEN <<PresetSegment(ComputeDefault(CalculateMaximumSampleValue(e.frame.bits), e.near))>>
  ELSE <<>>

\* The preset coding parameters that the header carries.
PresetToWrite(e) ==
  IF ~IsDefault(e.preset) THEN <<PresetSegment(e.preset)>>
  ELSE IF e.frame.bits > 12
  THEN <<PresetSegment(ComputeDefault(CalculateMaximumSampleValue(e.frame.bits), e.near))>>
  ELSE <<>>

\* Mutant: a start of image marker follows the directory of a SPIFF header.
StartAlways(s) ==
  IF s = "spiff_header" THEN <<ApplicationData8("endOfDirectory", "none"), Marker("SOI")>>
  ELSE <<Marker("SOI")>>

\* The entry that ends a SPIFF directory holds the start of image marker.
Start(s) ==
  IF s = "spiff_header" THEN <<ApplicationData8("endOfDirectory", "none")>>
  ELSE <<Marker("SOI")>>

Header(e, s) ==
  Start(s) \o <<StartOfFrame(e.frame)>>
  \o (IF e.transformation = "none" THEN <<>>
      ELSE <<ApplicationData8("transformation", e.transformation)>>)
  \o PresetToWrite(e)

\* One scan for each component, or one for all when they are interleaved.
Scans(e, first) ==
  IF e.mode = "none" THEN [k \in 1..e.frame.components |-> StartOfScan(e, first + k - 1, 1)]
  ELSE <<StartOfScan(e, first, e.frame.components)>>

AppendSegments(segments) ==
  writer' = [writer EXCEPT !.segments = @ \o segments]

\* A segment for which the destination has no room, and none after it.
RunFull == writer' = [writer EXCEPT !.full = TRUE]

-----------------------------------------------------------------------------
(* The calls that write. *)

WriteSpiffHeader ==
  /\ state = "destination_set" /\ ~writer.full
  /\ \/ /\ AppendSegments(<<Marker("SOI"), ApplicationData8("spiff", "none")>>)
        /\ state' = "spiff_header"
     \/ /\ \E written \in {<<>>, <<Marker("SOI")>>} :
             writer' = [writer EXCEPT !.full = TRUE, !.segments = @ \o written]
        /\ UNCHANGED state
  /\ UNCHANGED <<encoder, attempts>>

Entries ==
  Cardinality({i \in DOMAIN writer.segments :
                 writer.segments[i] = ApplicationData8("entry", "none")})

WriteSpiffEntry ==
  /\ state = "spiff_header" /\ ~writer.full /\ Entries < MaxEntries
  /\ AppendSegments(<<ApplicationData8("entry", "none")>>) \/ RunFull
  /\ UNCHANGED <<encoder, state, attempts>>

CanEncode ==
  /\ encoder.frame # NoFrame /\ state # "initial" /\ ~writer.full
  /\ Len(attempts) < MaxEncodes

\* encode_scan throws before it codes a sample: CreateProcess refuses a
\* transformation of interleaved samples of less than 8 bits.
ScanIsRefused(e) == e.mode # "none" /\ e.transformation # "none" /\ e.frame.bits < 8

Attempted(done) ==
  attempts' = Append(attempts, [settings |-> encoder, first |-> Len(writer.segments) + 1,
                                done |-> done])

\* encode: the state stays what it was.
Encode ==
  /\ CanEncode /\ ~ScanIsRefused(encoder)
  /\ LET scans == Scans(encoder, writer.componentId)
     IN  writer' = [writer EXCEPT !.componentId = @ + encoder.frame.components,
                                  !.segments = @ \o Header(encoder, state) \o scans \o <<Marker("EOI")>>]
  /\ Attempted(TRUE)
  /\ UNCHANGED <<encoder, state>>

\* The components in the first k scans.
ComponentsIn(e, k) == IF e.mode = "none" THEN k ELSE e.frame.components

\* A scan fails, for want of room or because it is refused: the exception
\* leaves the segments before it and its own start.
EncodeFailsInScan ==
  /\ CanEncode
  /\ LET scans == Scans(encoder, writer.componentId)
     IN  \E k \in DOMAIN scans :
           /\ ScanIsRefused(encoder) => k = 1
           /\ writer' = [writer EXCEPT
                !.componentId = @ + ComponentsIn(encoder, k),
                !.segments = @ \o Header(encoder, state) \o SubSeq(scans, 1, k - 1)
                               \o <<[scans[k] EXCEPT !.data = "bad"]>>]
  /\ Attempted(FALSE)
  /\ UNCHANGED <<encoder, state>>

\* What is left of a segment that did not fit: a start of scan can be found,
\* its parameters cannot be read.
Rest(seg) ==
  IF seg.marker = "SOS" THEN {<<>>, <<[seg EXCEPT !.defect = "early"]>>} ELSE {<<>>}

\* The destination is full in the middle of the headers or of the last marker.
EncodeRunsFull ==
  /\ CanEncode
  /\ LET segments == Header(encoder, state) \o Scans(encoder, writer.componentId) \o <<Marker("EOI")>>
     IN  \E n \in 1..Len(segments) :
           /\ ScanIsRefused(encoder) => n <= Len(Header(encoder, state)) + 1
           /\ \E rest \in Rest(segments[n]) :
                writer' = [writer EXCEPT !.full = TRUE,
                                         !.segments = @ \o SubSeq(segments, 1, n - 1) \o rest]
  /\ Attempted(FALSE)
  /\ UNCHANGED <<encoder, state>>

NextEncoder ==
  \/ SetDestination \/ SetFrameInfo \/ SetInterleaveMode \/ SetNearLossless
  \/ SetPreset \/ SetColorTransformation
  \/ WriteSpiffHeader \/ WriteSpiffEntry
  \/ Encode \/ EncodeFailsInScan \/ EncodeRunsFull

-----------------------------------------------------------------------------
\* The members stay in their types, and the preset coding parameters are
\* valid for a NEAR that the application has asked for.
EncoderTypeOK ==
  /\ encoder.frame \in Frames \cup {NoFrame}
  /\ encoder.mode \in InterleaveModes \cup {"none"} /\ encoder.near \in Nears \cup {0}
  /\ encoder.transformation \in ColorTransformations \cup {"none"}
  /\ IsDefault(encoder.preset) \/ \E n \in Nears \cup {0} : IsValid(encoder.preset, 65535, n)
  /\ state \in {"initial", "destination_set", "spiff_header"}
  /\ writer.componentId \in Nat /\ writer.full \in BOOLEAN
  /\ \A i \in DOMAIN writer.segments :
       writer.segments[i].marker \in {"SOI", "APP8", "SOF", "LSE", "SOS", "EOI"}
  /\ Len(attempts) <= MaxEncodes
=============================================================================
