-------------------------- MODULE JpegStreamReader --------------------------
(***************************************************************************)
(* JpegStreamReader (jpeg_stream_reader.cpp): reads the segments of a      *)
(* JPEG-LS stream and decodes its scans.  One function of the reader runs  *)
(* at a time; each iteration of its loops, which reads one segment, is one *)
(* step.  The bytes of the stream are chosen while they are read, so a     *)
(* stream is any sequence, well formed or not, of the segments of its kind *)
(* and of at most its length; "noise" is a byte that starts no marker, as  *)
(* a read that begins inside a segment finds.                              *)
(*                                                                         *)
(* An ASSERT of the code stops a debug build and is absent from a release  *)
(* build: the model goes on, as the release build does, and records it.    *)
(***************************************************************************)
EXTENDS PresetParameters, Sequences

CONSTANTS
  Streams,  \* for each kind of stream, the segments that a read may find in
            \* it, and as a bound their number (length)
  Source,   \* ByteStreamInfo: "memory" (rawData) or "stream" (rawStream)
  MaxComponents  \* bound on the components of a frame, 255 in a stream

Modes == {"none", "line", "sample"}
Transformations == {"none", "hp1"}
Bytes == 0..255
Shorts == 0..65535
PresetValues == [maxval : Shorts, T1 : Shorts, T2 : Shorts, T3 : Shorts, reset : Shorts]
ScanData == {"good", "bad"}   \* whether the coded bits decode

\* What the fields of a segment can hold, once read from their bytes and not
\* refused as a defect: the depths of a sample, 16 bits of a preset, a byte of NEAR.
IsSegment(seg) ==
  /\ seg.marker = "SOF" =>
       /\ seg.bits \in 2..16 /\ seg.badSampling \in Nat
       /\ seg.ids \in Seq(Bytes) /\ Len(seg.ids) \in 1..MaxComponents
  /\ seg.marker = "LSE" => seg.preset \in PresetValues
  /\ (seg.marker = "APP8" /\ seg.kind = "transformation") => seg.value \in Transformations
  /\ seg.marker = "SOS" => seg.near \in Bytes /\ seg.mode \in Modes /\ seg.data \in ScanData

ASSUME ReaderAssumption ==
  /\ \A kind \in DOMAIN Streams :
       /\ Streams[kind].length \in Nat
       /\ \A seg \in Streams[kind].segments : IsSegment(seg)
  /\ Source \in {"memory", "stream"}
  /\ MaxComponents \in Nat \ {0}

VARIABLES
  reader,   \* the members of JpegStreamReader
  source,   \* byteStream_: its kind, the segments read, and whether they ended
  call,     \* the function that runs, and the arguments it was given
  planes,   \* the scan that filled each plane of the destination, 0 for none
  asserts,  \* the lines of the ASSERTs that failed so far
  history   \* what was accepted: SOI, SOF, SPIFF header and its end, SOS

readerVars == <<reader, source, call, planes, asserts, history>>

\* The states of the reader that a parsed segment can leave it in.
ReaderStates ==
  {"before_start_of_image", "header_section", "spiff_header_section",
   "image_section", "scan_section", "bit_stream_section"}

InitReader ==
  [state |-> "before_start_of_image",
   frame |-> [bits |-> 0, components |-> 0],
   componentIds |-> {},
   preset |-> NoPreset,
   near |-> 0, mode |-> "none", transformation |-> "none",
   scanData |-> "good"]

NoCall == [op |-> "idle", client |-> "none", found |-> FALSE,
           component |-> 0, mode |-> "none", outcome |-> "ok"]

NoPlanes == [p \in 1..MaxComponents |-> 0]

Init ==
  /\ reader = InitReader
  /\ \E kind \in DOMAIN Streams : source = [kind |-> kind, read |-> 0, ended |-> FALSE]
  /\ call = NoCall
  /\ planes = NoPlanes
  /\ asserts = {}
  /\ history = [soi |-> 0, sof |-> 0, spiff |-> FALSE, eod |-> FALSE, scans |-> 0]

-----------------------------------------------------------------------------
(* The checks on a marker and on the values it brings.                     *)

is_maximum_sample_value_valid(r) ==
  r.preset.maxval <= CalculateMaximumSampleValue(r.frame.bits)

maximum_sample_value(r) ==
  Or(r.preset.maxval, CalculateMaximumSampleValue(r.frame.bits))

\* Mutant: a second frame segment is not refused.
ValidMarkerTwoFrames(r, marker) ==
  \/ marker = "SOS" /\ r.state = "scan_section"
  \/ marker \in {"SOF", "LSE", "COM", "APP8"}

\* The markers that may follow in the state the reader is in.
ValidMarker(r, marker) ==
  \/ marker = "SOS" /\ r.state = "scan_section"
  \/ marker = "SOF" /\ r.state # "scan_section"
  \/ marker \in {"LSE", "COM", "APP8"}

-----------------------------------------------------------------------------
(* The contents of the segments: each yields the reader afterwards, the    *)
(* value of *spiff_header_found, and whether it was refused.               *)

Accept(r, found) == [reader |-> r, found |-> found, ok |-> TRUE]
Refuse(r, found) == [reader |-> r, found |-> found, ok |-> FALSE]

\* The component at which the frame segment is refused: one whose identifier
\* the reader has seen or whose sampling factors are not supported.
RefusedComponents(r, seg) ==
  {k \in 1..Len(seg.ids) :
     \/ k = seg.badSampling
     \/ seg.ids[k] \in r.componentIds
     \/ \E j \in 1..(k - 1) : seg.ids[j] = seg.ids[k]}

\* A frame segment.  The identifiers read before a refusal are remembered.
\* "defect" stands for a size or a field out of range.
ReadStartOfFrameSegment(r, seg, found) ==
  LET bad == RefusedComponents(r, seg)
      first == CHOOSE k \in bad : \A j \in bad : k <= j
      added == IF bad = {} THEN 1..Len(seg.ids)
               ELSE 1..(IF first = seg.badSampling THEN first ELSE first - 1)
      framed == [r EXCEPT
                   !.frame = [bits |-> seg.bits, components |-> Len(seg.ids)],
                   !.componentIds = @ \cup {seg.ids[k] : k \in added}]
  IN  IF seg.defect THEN Refuse(r, found)
      ELSE IF bad # {} THEN Refuse(framed, found)
      ELSE Accept([framed EXCEPT !.state = "scan_section"], found)

\* The preset coding parameters are stored as they come.
ReadPresetParametersSegment(r, seg, found) ==
  IF seg.defect THEN Refuse(r, found)
  ELSE Accept([r EXCEPT !.preset = seg.preset], found)

\* Application data 8 outside a SPIFF directory: a colour transformation, or
\* a SPIFF header when the caller wants one.  The answer to the caller is reset
\* first, also when an earlier segment set it.
TryReadApplicationData8Segment(r, seg, wanted) ==
  CASE seg.kind = "transformation" ->
         Accept([r EXCEPT !.transformation = seg.value], FALSE)
    [] seg.kind = "badTransformation" -> Refuse(r, FALSE)
    [] seg.kind = "spiff" -> Accept(r, wanted)
    [] OTHER -> Accept(r, FALSE)

\* Mutant: any segment may follow a SPIFF header.
ReadSpiffDirectoryEntryAny(r, seg, found) ==
  IF seg.marker # "APP8" THEN Accept([r EXCEPT !.state = "image_section"], found)
  ELSE Accept([r EXCEPT !.state = IF seg.kind = "endOfDirectory" THEN "image_section" ELSE @], found)

\* In a SPIFF directory every segment is an entry, until the last one.
ReadSpiffDirectoryEntry(r, seg, found) ==
  IF seg.marker # "APP8" \/ seg.kind = "short" THEN Refuse(r, found)
  ELSE Accept([r EXCEPT !.state = IF seg.kind = "endOfDirectory" THEN "image_section" ELSE @], found)

ReadMarkerSegment(r, seg, wanted, found) ==
  CASE seg.marker = "SOF" -> ReadStartOfFrameSegment(r, seg, found)
    [] seg.marker = "LSE" -> ReadPresetParametersSegment(r, seg, found)
    [] seg.marker = "APP8" -> TryReadApplicationData8Segment(r, seg, wanted)
    [] OTHER -> Accept(r, found)

\* Mutant: NEAR is compared with the largest value of the frame's depth.
NearLimitOfDepth(r) == MaximumNearLossless(CalculateMaximumSampleValue(r.frame.bits))

NearLimit(r) == MaximumNearLossless(maximum_sample_value(r))

\* The contents of a start of scan segment, checked while they are read: its
\* size and number of components ("early"), NEAR, the mode and the point
\* transform ("late").
ReadScanParameters(r, seg) ==
  LET nearRead == [r EXCEPT !.near = seg.near]
  IN  IF seg.defect = "early" THEN Refuse(r, FALSE)
      ELSE IF seg.near > NearLimit(r) \/ seg.defect = "late"
      THEN Refuse(nearRead, FALSE)
      ELSE Accept([nearRead EXCEPT !.mode = seg.mode, !.scanData = seg.data,
                                   !.state = "bit_stream_section"], FALSE)

-----------------------------------------------------------------------------
(* The steps of the functions.                                             *)

Returned(result) == [call EXCEPT !.op = "returned", !.outcome = result]

MaxSegments == Streams[source.kind].length

HasInput == ~source.ended /\ source.read < MaxSegments
Consume == source' = [source EXCEPT !.read = @ + 1]

\* Mutant: a source in memory gives bytes for ever, as a stream does.
EndIsReportedNever == FALSE

\* ReadByte throws at the end of a source in memory.
EndIsReported == Source = "memory"

\* The functions that look for a marker.
SeeksMarker == call.op \in {"ReadHeader", "ReadNextStartOfScan"}

\* The bytes end where a marker, or the scan parameters, should follow.  A
\* source in memory reports it.  A stream buffer yields 0xFF for ever: fill
\* bytes to ReadNextMarkerCode, which skips them without an end, and a number of
\* components that is refused in ReadStartOfScan.
EndOfInput ==
  /\ call.op \in {"ReadHeader", "ReadNextStartOfScan", "ReadStartOfScan", "ReadScanOfNext"}
  /\ source' = [source EXCEPT !.ended = TRUE]
  /\ IF EndIsReported \/ ~SeeksMarker
     THEN call' = Returned("error")
     ELSE UNCHANGED call
  /\ UNCHANGED <<reader, planes, asserts, history>>

\* ReadHeader and its ReadNextMarkerCode: the start of image first.
ReadStartOfImage(seg) ==
  /\ call.op = "ReadHeader"
  /\ reader.state = "before_start_of_image"
  /\ HasInput /\ Consume
  /\ IF seg.marker = "SOI"
     THEN /\ reader' = [reader EXCEPT !.state = "header_section"]
          /\ history' = [history EXCEPT !.soi = @ + 1]
          /\ UNCHANGED call
     ELSE call' = Returned("error") /\ UNCHANGED <<reader, history>>
  /\ UNCHANGED <<planes, asserts>>

\* What the history keeps of a segment that was accepted.
Recorded(seg) ==
  [history EXCEPT
     !.sof = IF seg.marker = "SOF" THEN @ + 1 ELSE @,
     !.spiff = @ \/ /\ seg.marker = "APP8" /\ seg.kind = "spiff"
                    /\ call.client = "spiff" /\ reader.state = "header_section",
     !.eod = @ \/ /\ seg.marker = "APP8" /\ seg.kind = "endOfDirectory"
                  /\ reader.state = "spiff_header_section"]

\* Mutant: the header is read on behind a SPIFF header.
SpiffComesFirstNever(r, found) == FALSE

\* A SPIFF header that the caller wants follows the start of image.
SpiffComesFirst(r, found) == r.state = "header_section" /\ found

\* The loop of ReadHeader: the start of scan ends it, when the preset fits the
\* frame; so does a SPIFF header that comes first.
ReadHeaderSegment(seg) ==
  /\ call.op = "ReadHeader"
  /\ reader.state # "before_start_of_image"
  /\ HasInput /\ Consume
  /\ IF ~ValidMarker(reader, seg.marker)
     THEN call' = Returned("error") /\ UNCHANGED <<reader, history>>
     ELSE IF seg.marker = "SOS"
     THEN /\ IF is_maximum_sample_value_valid(reader)
             THEN call' = [call EXCEPT !.op = "headerRead"]
             ELSE call' = Returned("error")
          /\ UNCHANGED <<reader, history>>
     ELSE LET wanted == call.client = "spiff"
              res == IF reader.state = "spiff_header_section"
                     THEN ReadSpiffDirectoryEntry(reader, seg, call.found)
                     ELSE ReadMarkerSegment(reader, seg, wanted, call.found)
              spiffFirst == SpiffComesFirst(res.reader, res.found)
          IN  /\ reader' = IF res.ok /\ spiffFirst
                           THEN [res.reader EXCEPT !.state = "spiff_header_section"]
                           ELSE res.reader
              /\ history' = IF res.ok THEN Recorded(seg) ELSE history
              /\ call' = IF ~res.ok THEN Returned("error")
                         ELSE [call EXCEPT !.found = res.found,
                                           !.op = IF spiffFirst THEN "headerRead" ELSE @]
  /\ UNCHANGED <<planes, asserts>>

\* The loop of ReadNextStartOfScan, between two scans.
ReadNextStartOfScan(seg) ==
  /\ call.op = "ReadNextStartOfScan"
  /\ HasInput /\ Consume
  /\ IF ~ValidMarker(reader, seg.marker)
     THEN call' = Returned("error") /\ UNCHANGED <<reader, history>>
     ELSE IF seg.marker = "SOS"
     THEN call' = [call EXCEPT !.op = "ReadScanOfNext"] /\ UNCHANGED <<reader, history>>
     ELSE LET res == ReadMarkerSegment(reader, seg, FALSE, FALSE)
          IN  /\ reader' = res.reader
              /\ history' = IF res.ok THEN Recorded(seg) ELSE history
              /\ call' = IF res.ok THEN call ELSE Returned("error")
  /\ UNCHANGED <<planes, asserts>>

\* ReadStartOfScan: the segment of the marker that was found.
ReadStartOfScan(seg) ==
  /\ call.op \in {"ReadStartOfScan", "ReadScanOfNext"}
  /\ HasInput
  /\ seg.marker = "SOS"
  /\ LET res == ReadScanParameters(reader, seg)
     IN  /\ reader' = res.reader
         /\ history' = IF res.ok THEN [history EXCEPT !.scans = @ + 1] ELSE history
         /\ call' = IF ~res.ok THEN Returned("error")
                    ELSE IF call.op = "ReadStartOfScan" THEN Returned("ok")
                    ELSE [call EXCEPT !.op = "DecodeScan"]
  /\ asserts' = IF seg.defect = "early" \/ is_maximum_sample_value_valid(reader) THEN asserts
                ELSE asserts \cup {614}
  /\ UNCHANGED <<source, planes>>

\* CheckParameterCoherent and the check of the size of the destination.
Coherent(r) == r.frame.components \in {3, 4} \/ r.mode = "none"

\* Read begins: room tells whether the destination is large enough.
BeginRead(room) ==
  /\ call.op = "Read"
  /\ asserts' = IF reader.state = "bit_stream_section" THEN asserts ELSE asserts \cup {33}
  /\ call' = IF Coherent(reader) /\ room
             THEN [call EXCEPT !.op = "ReadLoop", !.mode = reader.mode]
             ELSE Returned("error")
  /\ UNCHANGED <<reader, source, planes, history>>

\* Mutant: one component too many.
AllComponentsReadLate == call.component > reader.frame.components

\* Mutant: the scans after the first are forgotten.
AllComponentsReadEarly == call.component >= 1

AllComponentsRead == call.component >= reader.frame.components

\* The loop of Read, before a scan is decoded.
ReadLoop ==
  /\ call.op = "ReadLoop"
  /\ call' = IF AllComponentsRead THEN Returned("ok")
             ELSE IF reader.state = "scan_section"
             THEN [call EXCEPT !.op = "ReadNextStartOfScan"]
             ELSE [call EXCEPT !.op = "DecodeScan"]
  /\ UNCHANGED <<reader, source, planes, asserts, history>>

\* CreateProcess refuses a transformation of samples of less than 8 bits;
\* CreateCodec and SetPresets take the parameters as they are.
CodecExists(r) ==
  (r.mode # "none" /\ r.transformation # "none") => r.frame.bits >= 8

\* Mutant: the reader still believes it is in front of a scan.
ScannedStateKept == "bit_stream_section"

ScannedState == "scan_section"

\* The decoder takes what a stream buffer has, up to its own buffer, and does
\* not give back what follows the scan.
ReadAhead ==
  IF Source = "memory" THEN UNCHANGED source
  ELSE \E lost \in 0..(MaxSegments - source.read), ended \in BOOLEAN :
         source' = [source EXCEPT !.read = @ + lost, !.ended = ended]

\* DecodeScan, and the loop of Read after it: one scan of a plane, or of all.
DecodeScan ==
  /\ call.op = "DecodeScan"
  /\ IF CodecExists(reader) /\ reader.scanData = "good"
     THEN LET interleaved == reader.mode # "none"
              next == call.component + 1
          IN  /\ planes' = [p \in 1..MaxComponents |->
                              IF p = next \/ (interleaved /\ p \in next..reader.frame.components)
                              THEN history.scans ELSE planes[p]]
              /\ reader' = [reader EXCEPT !.state = ScannedState]
              /\ call' = IF interleaved THEN Returned("ok")
                         ELSE [call EXCEPT !.op = "ReadLoop", !.component = next]
              /\ ReadAhead
     ELSE call' = Returned("error") /\ UNCHANGED <<planes, reader, source>>
  /\ UNCHANGED <<asserts, history>>

ReaderStep ==
  \/ EndOfInput
  \/ \E seg \in Streams[source.kind].segments :
       \/ ReadStartOfImage(seg) \/ ReadHeaderSegment(seg)
       \/ ReadNextStartOfScan(seg) \/ ReadStartOfScan(seg)
  \/ \E room \in BOOLEAN : BeginRead(room)
  \/ ReadLoop \/ DecodeScan

=============================================================================
