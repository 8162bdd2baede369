---------------------------- MODULE DecoderProofs ----------------------------
(***************************************************************************)
(* Proofs about JpegLSDecoder, for every set of streams, every source,     *)
(* every bound on the components, and with or without calls repeated after *)
(* an error.  What the runs check on a few streams holds of all of them    *)
(* because one conjunction, IInv, is preserved by every step:              *)
(*   CallFitsApi      which function may run in which state of the decoder *)
(*   StateFitsHistory what the reader must have read to be in its state    *)
(*   StateFitsCall    in which state of the reader each function is called *)
(*   ScansCounted     every scan was read from a segment of its own        *)
(*   ParametersFit    the parameters of the scan ahead were checked        *)
(*   PlanesSoFar      which scan filled each plane, while a decode runs    *)
(* The proof has a lemma for what each kind of segment does to the reader, *)
(* one for what happens to each record of the state, and one per action.   *)
(***************************************************************************)
EXTENDS JpegLSDecoder, UtilProofs

-----------------------------------------------------------------------------
(* What the members can hold, and what a segment does to the reader.       *)

Depths == 0..16
ComponentCounts == 0..MaxComponents
FrameValues == [bits : Depths, components : ComponentCounts]

\* What the members of the reader can hold.
Readers ==
  [state : ReaderStates, frame : FrameValues, componentIds : SUBSET Bytes,
   preset : PresetValues, near : Bytes, mode : Modes, transformation : Transformations,
   scanData : ScanData]

\* The states that the segments lead to.
LEMMA StatesOfSegments ==
  {"header_section", "spiff_header_section", "image_section", "scan_section",
   "bit_stream_section"} \subseteq ReaderStates
BY DEF ReaderStates

\* The largest NEAR and the largest sample value of a reader are integers.
LEMMA LimitsAreIntegers ==
  ASSUME NEW r \in Readers
  PROVE  NearLimit(r) \in Int /\ maximum_sample_value(r) \in Int
<1>1. /\ r.preset.maxval \in Int /\ r.frame.bits \in Nat
  <2>1. r.preset \in PresetValues /\ r.frame \in FrameValues
    BY DEF Readers
  <2>2. r.preset.maxval \in Shorts /\ r.frame.bits \in Depths
    BY <2>1 DEF PresetValues, FrameValues
  <2>3. Shorts \subseteq Int /\ Depths \subseteq Nat
    BY DEF Shorts, Depths
  <2> QED  BY <2>2, <2>3
<1>2. CalculateMaximumSampleValue(r.frame.bits) \in Int
  BY <1>1 DEF CalculateMaximumSampleValue
<1>3. maximum_sample_value(r) \in Int
  BY <1>1, <1>2 DEF maximum_sample_value, Or
<1> QED
  BY <1>3 DEF NearLimit, MaximumNearLossless, Smallest

\* The components of a frame are within their bound.
LEMMA ComponentsAreNat ==
  ASSUME NEW r \in Readers
  PROVE  r.frame.components \in Nat /\ r.frame.components <= MaxComponents
<1>1. r.frame.components \in ComponentCounts
  BY DEF Readers, FrameValues
<1> QED  BY <1>1, ReaderAssumption DEF ComponentCounts

\* A frame segment that is accepted gives the reader a frame with a component;
\* refused or not, it changes nothing of a scan.
LEMMA FrameSegment ==
  ASSUME NEW r \in Readers, NEW seg, NEW found, IsSegment(seg), seg.marker = "SOF"
  PROVE  LET res == ReadStartOfFrameSegment(r, seg, found)
         IN  /\ res.reader \in Readers /\ res.ok \in BOOLEAN /\ res.found = found
             /\ res.reader.state = IF res.ok THEN "scan_section" ELSE r.state
             /\ res.ok => res.reader.frame.components > 0
             /\ res.reader.mode = r.mode
<1> DEFINE bad == RefusedComponents(r, seg)
           first == CHOOSE k \in bad : \A j \in bad : k <= j
           added == IF bad = {} THEN 1..Len(seg.ids)
                    ELSE 1..(IF first = seg.badSampling THEN first ELSE first - 1)
           ids == r.componentIds \cup {seg.ids[k] : k \in added}
           frame == [bits |-> seg.bits, components |-> Len(seg.ids)]
           framed == [r EXCEPT !.frame = frame, !.componentIds = ids]
<1>1. /\ seg.bits \in 2..16 /\ seg.ids \in Seq(Bytes) /\ Len(seg.ids) \in 1..MaxComponents
  BY DEF IsSegment
<1>2. frame \in FrameValues /\ frame.components > 0
  <2>1. seg.bits \in Depths /\ Len(seg.ids) \in ComponentCounts /\ Len(seg.ids) > 0
    BY <1>1, ReaderAssumption DEF Depths, ComponentCounts
  <2> QED  BY <2>1 DEF FrameValues
<1>3. ids \in SUBSET Bytes
  <2>1. bad \subseteq 1..Len(seg.ids)
    BY DEF RefusedComponents
  <2>2. bad # {} => first \in bad
    <3>1. ASSUME bad # {} PROVE \E k \in bad : \A j \in bad : k <= j
      <4> HIDE DEF bad
      <4>1. bad \in SUBSET Nat
        BY <2>1
      <4> QED  BY <3>1, <4>1, LeastElement
    <3> HIDE DEF bad
    <3> QED  BY <3>1, Zenon
  <2> HIDE DEF bad, first
  <2>3. added \subseteq 1..Len(seg.ids)
    <3>1. CASE bad = {}
      BY <3>1
    <3>2. CASE bad # {}
      <4>1. first \in 1..Len(seg.ids)
        BY <2>1, <2>2, <3>2
      <4>2. 1..first \subseteq 1..Len(seg.ids) /\ 1..(first - 1) \subseteq 1..Len(seg.ids)
        BY <4>1, <1>1
      <4> QED  BY <3>2, <4>2
    <3> QED  BY <3>1, <3>2
  <2>4. \A k \in added : seg.ids[k] \in Bytes
    BY <1>1, <2>3
  <2>5. r.componentIds \in SUBSET Bytes
    BY DEF Readers
  <2> HIDE DEF added
  <2> QED  BY <2>4, <2>5
<1> HIDE DEF ids, frame
<1>4. framed \in Readers /\ [framed EXCEPT !.state = "scan_section"] \in Readers
  BY <1>2, <1>3, StatesOfSegments DEF Readers
<1>5. /\ framed.state = r.state /\ framed.frame = frame /\ framed.mode = r.mode
      /\ [framed EXCEPT !.state = "scan_section"].state = "scan_section"
      /\ [framed EXCEPT !.state = "scan_section"].frame = frame
      /\ [framed EXCEPT !.state = "scan_section"].mode = r.mode
  BY DEF Readers
<1> HIDE DEF framed
<1>6. ReadStartOfFrameSegment(r, seg, found) =
        IF seg.defect THEN Refuse(r, found)
        ELSE IF bad # {} THEN Refuse(framed, found)
        ELSE Accept([framed EXCEPT !.state = "scan_section"], found)
  BY Zenon DEF ReadStartOfFrameSegment, framed, frame, ids, added, first, bad
<1> HIDE DEF bad
<1> QED
  BY <1>2, <1>4, <1>5, <1>6 DEF Accept, Refuse

\* A segment other than a frame leaves the frame, the state and the mode alone.
LEMMA OtherSegment ==
  ASSUME NEW r \in Readers, NEW seg, NEW wanted, NEW found,
         IsSegment(seg), seg.marker # "SOF"
  PROVE  LET res == ReadMarkerSegment(r, seg, wanted, found)
         IN  /\ res.reader \in Readers
             /\ res.reader.state = r.state /\ res.reader.frame = r.frame
             /\ res.reader.mode = r.mode
<1>1. CASE seg.marker = "LSE"
  <2>1. seg.preset \in PresetValues
    BY <1>1 DEF IsSegment
  <2> QED  BY <1>1, <2>1 DEF ReadMarkerSegment, ReadPresetParametersSegment, Accept, Refuse, Readers
<1>2. CASE seg.marker = "APP8"
  <2>1. ReadMarkerSegment(r, seg, wanted, found) = TryReadApplicationData8Segment(r, seg, wanted)
    BY <1>2 DEF ReadMarkerSegment
  <2>2. CASE seg.kind = "transformation"
    <3>1. ReadMarkerSegment(r, seg, wanted, found)
            = Accept([r EXCEPT !.transformation = seg.value], FALSE)
      BY <2>1, <2>2 DEF TryReadApplicationData8Segment
    <3>2. seg.value \in Transformations
      BY <1>2, <2>2 DEF IsSegment
    <3> QED  BY <3>1, <3>2 DEF Accept, Readers
  <2>3. CASE seg.kind = "spiff"
    <3>1. ReadMarkerSegment(r, seg, wanted, found) = Accept(r, wanted)
      BY <2>1, <2>3 DEF TryReadApplicationData8Segment
    <3> QED  BY <3>1 DEF Accept
  <2>4. CASE seg.kind \notin {"transformation", "spiff"}
    <3>1. \/ ReadMarkerSegment(r, seg, wanted, found) = Refuse(r, FALSE)
          \/ ReadMarkerSegment(r, seg, wanted, found) = Accept(r, FALSE)
      BY <2>1, <2>4 DEF TryReadApplicationData8Segment
    <3> QED  BY <3>1 DEF Accept, Refuse
  <2> QED  BY <2>2, <2>3, <2>4
<1>3. CASE seg.marker \notin {"SOF", "LSE", "APP8"}
  BY <1>3 DEF ReadMarkerSegment, Accept
<1> QED  BY <1>1, <1>2, <1>3

\* A SPIFF header is found only when it is wanted, or was found before.
LEMMA SpiffWanted ==
  ASSUME NEW r, NEW seg, NEW wanted \in BOOLEAN, NEW found \in BOOLEAN, seg.marker # "SOF"
  PROVE  LET res == ReadMarkerSegment(r, seg, wanted, found)
         IN  /\ res.ok \in BOOLEAN /\ res.found \in BOOLEAN
             /\ res.found => wanted \/ found
<1> DEFINE res == ReadMarkerSegment(r, seg, wanted, found)
<1>1. /\ res.ok = TRUE \/ res.ok = FALSE
      /\ res.found = found \/ res.found = wanted \/ res.found = FALSE
  BY DEF ReadMarkerSegment, ReadPresetParametersSegment, TryReadApplicationData8Segment,
         Accept, Refuse
<1> QED
  BY <1>1

\* A SPIFF header is found when it is wanted.
LEMMA SpiffSegment ==
  ASSUME NEW r, NEW seg, NEW wanted \in BOOLEAN, NEW found \in BOOLEAN,
         seg.marker = "APP8", seg.kind = "spiff"
  PROVE  LET res == ReadMarkerSegment(r, seg, wanted, found)
         IN  res.ok /\ (res.found <=> wanted)
BY DEF ReadMarkerSegment, TryReadApplicationData8Segment, Accept

\* An entry of a SPIFF directory, or its end.
LEMMA DirectoryEntry ==
  ASSUME NEW r \in Readers, NEW seg, NEW found \in BOOLEAN
  PROVE  LET res == ReadSpiffDirectoryEntry(r, seg, found)
         IN  /\ res.reader \in Readers /\ res.ok \in BOOLEAN /\ res.found = found
             /\ res.reader.frame = r.frame /\ res.reader.mode = r.mode
             /\ res.ok => seg.marker = "APP8"
             /\ res.reader.state = IF res.ok /\ seg.kind = "endOfDirectory"
                                   THEN "image_section" ELSE r.state
BY StatesOfSegments DEF ReadSpiffDirectoryEntry, Accept, Refuse, Readers

\* A start of scan that is accepted brings a NEAR within its limit, and puts the
\* reader in front of the bits.
LEMMA ScanSegment ==
  ASSUME NEW r \in Readers, NEW seg, IsSegment(seg), seg.marker = "SOS"
  PROVE  LET res == ReadScanParameters(r, seg)
         IN  /\ res.reader \in Readers /\ res.ok \in BOOLEAN
             /\ res.reader.frame = r.frame
             /\ maximum_sample_value(res.reader) = maximum_sample_value(r)
             /\ is_maximum_sample_value_valid(res.reader) = is_maximum_sample_value_valid(r)
             /\ ~res.ok => res.reader.state = r.state /\ res.reader.mode = r.mode
             /\ res.ok => /\ res.reader.state = "bit_stream_section"
                          /\ seg.defect # "early"
                          /\ res.reader.near <= NearLimit(r)
<1> DEFINE nearRead == [r EXCEPT !.near = seg.near]
           scanned == [nearRead EXCEPT !.mode = seg.mode, !.scanData = seg.data,
                                       !.state = "bit_stream_section"]
<1>1. seg.near \in Bytes /\ seg.mode \in Modes /\ seg.data \in ScanData
  BY DEF IsSegment
<1>2. /\ nearRead \in Readers /\ nearRead.state = r.state /\ nearRead.mode = r.mode
      /\ nearRead.frame = r.frame /\ nearRead.preset = r.preset
  BY <1>1 DEF Readers
<1>3. /\ scanned \in Readers /\ scanned.state = "bit_stream_section"
      /\ scanned.near = seg.near /\ scanned.frame = r.frame /\ scanned.preset = r.preset
  BY <1>1, StatesOfSegments DEF Readers
<1>4. NearLimit(r) \in Int
  BY LimitsAreIntegers
<1>5. ReadScanParameters(r, seg) =
        IF seg.defect = "early" THEN Refuse(r, FALSE)
        ELSE IF seg.near > NearLimit(r) \/ seg.defect = "late" THEN Refuse(nearRead, FALSE)
        ELSE Accept(scanned, FALSE)
  BY DEF ReadScanParameters
<1> HIDE DEF nearRead, scanned
<1>6. CASE seg.defect = "early"
  BY <1>5, <1>6 DEF Refuse
<1>7. CASE seg.defect # "early" /\ (seg.near > NearLimit(r) \/ seg.defect = "late")
  <2>1. ReadScanParameters(r, seg) = Refuse(nearRead, FALSE)
    BY <1>5, <1>7
  <2> QED
    BY <1>2, <2>1 DEF Refuse, maximum_sample_value, is_maximum_sample_value_valid
<1>8. CASE seg.defect # "early" /\ ~(seg.near > NearLimit(r) \/ seg.defect = "late")
  <2>1. seg.near <= NearLimit(r)
    BY <1>1, <1>4, <1>8 DEF Bytes
  <2> QED
    BY <1>3, <1>5, <1>8, <2>1 DEF Accept, maximum_sample_value, is_maximum_sample_value_valid
<1> QED  BY <1>6, <1>7, <1>8

-----------------------------------------------------------------------------
(* The inductive invariant.                                                *)

HeaderOps == {"ReadHeader", "headerRead", "ReadStartOfScan"}
DecodeOps == {"Read", "ReadLoop", "ReadNextStartOfScan", "ReadScanOfNext", "DecodeScan"}
Ops == {"idle", "returned"} \cup HeaderOps \cup DecodeOps
Clients == {"none", "spiff", "header", "decode"}
Outcomes == {"ok", "error"}
Counts == Nat

Calls == [op : Ops, client : Clients, found : BOOLEAN, component : Counts,
          mode : Modes, outcome : Outcomes]
Histories == [soi : Counts, sof : Counts, spiff : BOOLEAN, eod : BOOLEAN, scans : Counts]
Sources == [kind : DOMAIN Streams, read : Counts, ended : BOOLEAN]

Types ==
  /\ reader \in Readers
  /\ source \in Sources /\ source.read <= MaxSegments
  /\ call \in Calls
  /\ history \in Histories
  /\ api \in ApiStates
  /\ asserts \subseteq {33, 88, 614}

\* read_header has returned, or is about to return, without an error.
HeaderDone ==
  \/ api = "header_read"
  \/ call.op = "returned" /\ call.client = "header" /\ call.outcome = "ok"

\* Which call may run in which state of the decoder.
CallFitsApi ==
  /\ call.op \in HeaderOps => call.client \in {"spiff", "header"}
  /\ call.op = "ReadStartOfScan" => call.client = "header"
  /\ call.op \in DecodeOps <=> (call.client = "decode" /\ call.op \notin {"returned", "idle"})
  /\ call.client = "decode" => api = "header_read"
  /\ call.op \in HeaderOps => api \in {"source_set", "spiff_header_read", "spiff_header_not_found"}
  /\ (call.op \in HeaderOps /\ call.client = "spiff") => api = "source_set"
  /\ call.op \in {"ReadHeader", "headerRead"} => api # "spiff_header_not_found"
  /\ (call.op # "idle" /\ call.client = "header") => api # "header_read" /\ api # "initial"
  /\ call.op # "idle" => api # "initial" /\ call.client # "none"
  /\ call.found => call.client = "spiff"

\* What the reader went through to be in its state.
StateFitsHistory ==
  /\ history.soi = (IF reader.state = "before_start_of_image" THEN 0 ELSE 1)
  /\ history.sof = (IF reader.state \in {"scan_section", "bit_stream_section"} THEN 1 ELSE 0)
  /\ history.spiff => reader.state \notin {"before_start_of_image", "header_section"}
  /\ (history.spiff /\ ~history.eod) => reader.state = "spiff_header_section"
  /\ history.sof = 1 => reader.frame.components > 0

\* Where in the stream each function is called.
StateFitsCall ==
  /\ reader.state = "bit_stream_section" => HeaderDone
  /\ HeaderDone => reader.state \in {"scan_section", "bit_stream_section"}
  /\ (call.op = "headerRead" /\ ~call.found) => reader.state = "scan_section"
  /\ call.op \in {"ReadStartOfScan", "ReadNextStartOfScan", "ReadScanOfNext"} =>
       reader.state = "scan_section"
  /\ api = "spiff_header_not_found" => reader.state \in {"scan_section", "bit_stream_section"}

\* Each scan, and the start of image, was read from a segment of its own.
ScansCounted ==
  /\ HeaderDone <=> history.scans > 0
  /\ history.scans + (IF call.op = "ReadScanOfNext" THEN 1 ELSE 0) <= source.read
  /\ history.soi <= source.read

\* In front of the bits of a scan the parameters of that scan were checked.
ParametersFit ==
  reader.state = "bit_stream_section" =>
    /\ reader.near <= NearLimit(reader)
    /\ asserts = {} => is_maximum_sample_value_valid(reader)

\* The scan that fills the next plane.
NextScan == IF call.op = "DecodeScan" THEN history.scans ELSE history.scans + 1

\* What a decode has filled so far.
PlanesSoFar ==
  /\ planes \in [1..MaxComponents -> 0..MaxSegments]
  /\ call.component > 0 => call.client = "decode"
  /\ call.component <= reader.frame.components
  /\ call.op = "Read" => call.component = 0
  /\ call.op \in {"ReadNextStartOfScan", "ReadScanOfNext", "DecodeScan"} =>
       call.component < reader.frame.components
  /\ (asserts = {} /\ call.op \in DecodeOps \ {"Read"}) =>
       /\ call.component = 0 => /\ call.op \in {"ReadLoop", "DecodeScan"}
                                /\ reader.state = "bit_stream_section"
                                /\ call.mode = reader.mode
       /\ call.component > 0 =>
            /\ call.mode = "none"
            /\ call.op # "DecodeScan" => reader.mode = "none" /\ reader.state = "scan_section"
            /\ \A p \in 1..call.component : planes[p] = NextScan - 1 - call.component + p

IInv == /\ Types /\ CallFitsApi /\ StateFitsHistory /\ StateFitsCall /\ ScansCounted
        /\ ParametersFit /\ PlanesSoFar /\ PlanesMatchScans

-----------------------------------------------------------------------------
(* What a step does to each record of the state.                           *)

\* What is counted is a natural number.
LEMMA CountsTyped ==
  ASSUME Types
  PROVE  /\ history.soi \in Nat /\ history.sof \in Nat /\ history.scans \in Nat
         /\ source.read \in Nat /\ MaxSegments \in Nat
         /\ reader.frame.components \in Nat /\ call.component \in Nat
         /\ reader.frame.components <= MaxComponents
<1>1. /\ history.soi \in Counts /\ history.sof \in Counts /\ history.scans \in Counts
      /\ source.read \in Counts /\ call.component \in Counts
      /\ source.kind \in DOMAIN Streams
  BY DEF Types, Histories, Sources, Calls
<1>2. reader.frame.components \in Nat /\ reader.frame.components <= MaxComponents
  BY ComponentsAreNat DEF Types
<1>3. MaxSegments \in Nat
  BY <1>1, ReaderAssumption DEF MaxSegments
<1> QED  BY <1>1, <1>2, <1>3 DEF Counts

\* A call goes on as another function.
LEMMA CallGoesOn ==
  ASSUME NEW c \in Calls, NEW o \in Ops
  PROVE  LET d == [c EXCEPT !.op = o]
         IN  /\ d \in Calls /\ d.op = o
             /\ d.client = c.client /\ d.found = c.found /\ d.component = c.component
             /\ d.mode = c.mode /\ d.outcome = c.outcome
BY DEF Calls

\* The loop of ReadHeader goes on, or ends when there is an answer.
LEMMA SearchGoesOn ==
  ASSUME call \in Calls, NEW found \in BOOLEAN, NEW done \in BOOLEAN
  PROVE  LET d == [call EXCEPT !.found = found, !.op = IF done THEN "headerRead" ELSE @]
         IN  /\ d \in Calls /\ d.op = IF done THEN "headerRead" ELSE call.op
             /\ d.client = call.client /\ d.found = found /\ d.component = call.component
             /\ d.mode = call.mode /\ d.outcome = call.outcome
<1>1. "headerRead" \in Ops
  BY DEF Ops, HeaderOps
<1> QED  BY <1>1 DEF Calls

\* A call ends, with a result for the application.
LEMMA CallEnds ==
  ASSUME call \in Calls, NEW result \in Outcomes
  PROVE  LET d == Returned(result)
         IN  /\ d \in Calls /\ d.op = "returned" /\ d.outcome = result
             /\ d.client = call.client /\ d.found = call.found
             /\ d.component = call.component /\ d.mode = call.mode
<1>1. "returned" \in Ops
  BY DEF Ops
<1> QED  BY <1>1 DEF Calls, Returned

\* The application makes a call.
LEMMA CallBegins ==
  ASSUME NEW o \in Ops, NEW client \in Clients, Begin(o, client)
  PROVE  /\ call' \in Calls /\ call'.op = o /\ call'.client = client
         /\ call'.found = FALSE /\ call'.component = 0
<1>1. NoCall \in Calls
  <2>1. "idle" \in Ops /\ "none" \in Clients /\ 0 \in Counts /\ "none" \in Modes
        /\ "ok" \in Outcomes
    BY DEF Ops, Clients, Counts, Modes, Outcomes
  <2> QED  BY <2>1 DEF NoCall, Calls
<1>2. NoCall.found = FALSE /\ NoCall.component = 0
  BY DEF NoCall
<1> QED  BY <1>1, <1>2 DEF Begin, Calls

\* A segment is read.
LEMMA SegmentConsumed ==
  ASSUME source \in Sources, source.read <= MaxSegments, HasInput, Consume
  PROVE  /\ source' \in Sources /\ source'.kind = source.kind
         /\ source'.read = source.read + 1 /\ source'.read <= MaxSegments
         /\ MaxSegments' = MaxSegments
<1>1. source.kind \in DOMAIN Streams /\ source.read \in Nat
  BY DEF Sources, Counts
<1>2. source.read + 1 \in Counts
  BY <1>1 DEF Counts
<1>3. /\ source' \in Sources /\ source'.kind = source.kind
      /\ source'.read = source.read + 1
  BY <1>2 DEF Sources, Consume
<1>4. MaxSegments \in Nat
  BY <1>1, ReaderAssumption DEF MaxSegments
<1> QED  BY <1>1, <1>3, <1>4 DEF HasInput, MaxSegments

\* The source at its end keeps its kind and what was read.
LEMMA SourceEnds ==
  ASSUME source \in Sources, source' = [source EXCEPT !.ended = TRUE]
  PROVE  /\ source' \in Sources /\ source'.kind = source.kind
         /\ source'.read = source.read /\ MaxSegments' = MaxSegments
<1>1. source' \in Sources /\ source'.kind = source.kind /\ source'.read = source.read
  BY DEF Sources
<1> QED  BY <1>1 DEF MaxSegments

\* The start of image is recorded.
LEMMA StartRecorded ==
  ASSUME history \in Histories
  PROVE  LET h == [history EXCEPT !.soi = @ + 1]
         IN  /\ h \in Histories /\ h.soi = history.soi + 1 /\ h.sof = history.sof
             /\ h.spiff = history.spiff /\ h.eod = history.eod /\ h.scans = history.scans
<1>1. history.soi + 1 \in Counts
  BY DEF Histories, Counts
<1> QED  BY <1>1 DEF Histories

\* A scan is recorded.
LEMMA ScanRecorded ==
  ASSUME history \in Histories
  PROVE  LET h == [history EXCEPT !.scans = @ + 1]
         IN  /\ h \in Histories /\ h.soi = history.soi /\ h.sof = history.sof
             /\ h.spiff = history.spiff /\ h.eod = history.eod /\ h.scans = history.scans + 1
<1>1. history.scans + 1 \in Counts
  BY DEF Histories, Counts
<1> QED  BY <1>1 DEF Histories

\* A segment of a header is recorded.
LEMMA SegmentRecorded ==
  ASSUME history \in Histories, NEW seg
  PROVE  LET h == Recorded(seg)
         IN  /\ h \in Histories /\ h.soi = history.soi /\ h.scans = history.scans
             /\ h.sof = IF seg.marker = "SOF" THEN history.sof + 1 ELSE history.sof
             /\ h.spiff <=> \/ history.spiff
                            \/ /\ seg.marker = "APP8" /\ seg.kind = "spiff"
                               /\ call.client = "spiff" /\ reader.state = "header_section"
             /\ h.eod <=> \/ history.eod
                          \/ /\ seg.marker = "APP8" /\ seg.kind = "endOfDirectory"
                             /\ reader.state = "spiff_header_section"
<1> DEFINE sof == IF seg.marker = "SOF" THEN history.sof + 1 ELSE history.sof
           spiff == \/ history.spiff
                    \/ /\ seg.marker = "APP8" /\ seg.kind = "spiff"
                       /\ call.client = "spiff" /\ reader.state = "header_section"
           eod == \/ history.eod
                  \/ /\ seg.marker = "APP8" /\ seg.kind = "endOfDirectory"
                     /\ reader.state = "spiff_header_section"
<1>1. sof \in Counts /\ spiff \in BOOLEAN /\ eod \in BOOLEAN
  BY DEF Histories, Counts
<1>2. Recorded(seg) = [history EXCEPT !.sof = sof, !.spiff = spiff, !.eod = eod]
  BY DEF Recorded, Histories
<1> HIDE DEF sof, spiff, eod
<1>3. LET h == Recorded(seg)
      IN  /\ h \in Histories /\ h.soi = history.soi /\ h.scans = history.scans
          /\ h.sof = sof /\ h.spiff = spiff /\ h.eod = eod
  BY <1>1, <1>2 DEF Histories
<1> QED
  BY <1>3 DEF sof, spiff, eod

-----------------------------------------------------------------------------
(* Each step preserves the invariant: first the calls of the application.  *)

\* The functions that a call can be in.
LEMMA OpsNamed ==
  {"idle", "returned", "ReadHeader", "headerRead", "ReadStartOfScan", "Read", "ReadLoop",
   "ReadNextStartOfScan", "ReadScanOfNext", "DecodeScan"} \subseteq Ops
BY DEF Ops, HeaderOps, DecodeOps

\* The invariant holds before the source is set.
LEMMA InitInvariant == InitDecoder => IInv
<1> SUFFICES ASSUME InitDecoder PROVE IInv
  OBVIOUS
<1> USE DEF InitDecoder, Init
<1>1. /\ reader \in Readers /\ reader.state = "before_start_of_image"
      /\ reader.frame.components = 0
  <2>1. NoPreset \in PresetValues
    BY DEF NoPreset, PresetValues, Shorts
  <2>2. [bits |-> 0, components |-> 0] \in FrameValues
    BY ReaderAssumption DEF FrameValues, Depths, ComponentCounts
  <2>3. /\ "before_start_of_image" \in ReaderStates /\ {} \in SUBSET Bytes /\ 0 \in Bytes
        /\ "none" \in Modes /\ "none" \in Transformations /\ "good" \in ScanData
    BY DEF ReaderStates, Bytes, Modes, Transformations, ScanData
  <2> QED
    BY <2>1, <2>2, <2>3 DEF InitReader, Readers
<1>2. source \in Sources /\ source.read = 0 /\ MaxSegments \in Nat
  <2>1. 0 \in Counts
    BY DEF Counts
  <2>2. source \in Sources /\ source.read = 0
    BY <2>1 DEF Sources
  <2> QED  BY <2>2, ReaderAssumption DEF Sources, MaxSegments
<1>3. /\ call \in Calls /\ call.op = "idle" /\ call.client = "none"
      /\ call.found = FALSE /\ call.component = 0
  <2>1. "idle" \in Ops /\ "none" \in Clients /\ 0 \in Counts /\ "none" \in Modes
        /\ "ok" \in Outcomes
    BY DEF Ops, Clients, Counts, Modes, Outcomes
  <2> QED  BY <2>1 DEF NoCall, Calls
<1>4. /\ history \in Histories /\ history.soi = 0 /\ history.sof = 0
      /\ history.spiff = FALSE /\ history.scans = 0
  <2>1. 0 \in Counts
    BY DEF Counts
  <2> QED  BY <2>1 DEF Histories
<1>5. planes \in [1..MaxComponents -> 0..MaxSegments]
  BY <1>2 DEF NoPlanes
<1> QED
  BY <1>1, <1>2, <1>3, <1>4, <1>5
  DEF IInv, Types, ApiStates, CallFitsApi, StateFitsHistory, StateFitsCall, HeaderDone,
      HeaderOps, DecodeOps, ScansCounted, ParametersFit, PlanesSoFar, PlanesMatchScans

\* source(): only the state of the decoder changes.
LEMMA SetSourceStep == IInv /\ SetSource => IInv'
<1> SUFFICES ASSUME IInv, SetSource PROVE IInv'
  OBVIOUS
<1>1. /\ call.op = "idle" /\ api = "initial" /\ api' = "source_set"
      /\ UNCHANGED <<reader, source, call, planes, asserts, history>>
  BY DEF SetSource, MayCall, Idle, readerVars
<1> QED
  BY CountsTyped, <1>1
  DEF IInv, Types, ApiStates, MaxSegments, CallFitsApi, StateFitsHistory, StateFitsCall,
      HeaderDone, HeaderOps, DecodeOps, ScansCounted, ParametersFit, PlanesSoFar, NextScan,
      PlanesMatchScans

\* read_header(spiff_header*) begins.
LEMMA ReadSpiffHeaderStep == IInv /\ ReadSpiffHeader => IInv'
<1> SUFFICES ASSUME IInv, ReadSpiffHeader PROVE IInv'
  OBVIOUS
<1>1. /\ call.op = "idle" /\ api = "source_set"
      /\ UNCHANGED <<api, reader, source, planes, history>>
  BY DEF ReadSpiffHeader, MayCall, Idle
<1>2. /\ call' \in Calls /\ call'.op = "ReadHeader" /\ call'.client = "spiff"
      /\ call'.found = FALSE /\ call'.component = 0
  BY OpsNamed, CallBegins DEF ReadSpiffHeader, Clients
<1>3. asserts \subseteq asserts' /\ asserts' \subseteq asserts \cup {88}
  BY DEF ReadSpiffHeader, AssertBeforeScan
<1>4. asserts' = {} => asserts = {}
  BY <1>3
<1>5. asserts' \subseteq {33, 88, 614}
  BY <1>3 DEF IInv, Types
<1> QED
  BY CountsTyped, <1>1, <1>2, <1>4, <1>5
  DEF IInv, Types, ApiStates, MaxSegments, CallFitsApi, StateFitsHistory, StateFitsCall,
      HeaderDone, HeaderOps, DecodeOps, ScansCounted, ParametersFit, PlanesSoFar, NextScan,
      PlanesMatchScans

\* read_header() begins: with the header, or with the scan when a search for a
\* SPIFF header has read all before it.
LEMMA ReadHeaderStep == IInv /\ ReadHeader => IInv'
<1> SUFFICES ASSUME IInv, ReadHeader PROVE IInv'
  OBVIOUS
<1>1. /\ call.op = "idle"
      /\ api \in {"source_set", "spiff_header_read", "spiff_header_not_found"}
      /\ UNCHANGED <<api, reader, source, planes, history>>
  BY DEF ReadHeader, MayCall, Idle
<1>2. /\ call' \in Calls /\ call'.client = "header" /\ call'.found = FALSE /\ call'.component = 0
      /\ call'.op = IF api # "spiff_header_not_found" THEN "ReadHeader" ELSE "ReadStartOfScan"
  BY OpsNamed, CallBegins DEF ReadHeader, Clients, HeaderStillToRead
<1>3. asserts \subseteq asserts' /\ asserts' \subseteq asserts \cup {88}
  BY DEF ReadHeader, AssertBeforeScan
<1>4. asserts' = {} => asserts = {}
  BY <1>3
<1>5. asserts' \subseteq {33, 88, 614}
  BY <1>3 DEF IInv, Types
<1> QED
  BY CountsTyped, <1>1, <1>2, <1>4, <1>5
  DEF IInv, Types, ApiStates, MaxSegments, CallFitsApi, StateFitsHistory, StateFitsCall,
      HeaderDone, HeaderOps, DecodeOps, ScansCounted, ParametersFit, PlanesSoFar, NextScan,
      PlanesMatchScans

\* decode() begins, with an empty destination.
LEMMA DecodeStep == IInv /\ Decode => IInv'
<1> SUFFICES ASSUME IInv, Decode PROVE IInv'
  OBVIOUS
<1>1. /\ call.op = "idle" /\ api = "header_read"
      /\ UNCHANGED <<api, reader, source, asserts, history>>
  BY DEF Decode, MayCall, Idle
<1>2. /\ call' \in Calls /\ call'.op = "Read" /\ call'.client = "decode"
      /\ call'.found = FALSE /\ call'.component = 0
  BY OpsNamed, CallBegins DEF Decode, Clients
<1>3. /\ MaxSegments' = MaxSegments /\ planes' \in [1..MaxComponents -> 0..MaxSegments]
     
  <2>1. MaxSegments \in Nat
    BY ReaderAssumption DEF IInv, Types, Sources, MaxSegments
  <2> QED  BY <1>1, <2>1 DEF Decode, NoPlanes, MaxSegments
<1> QED
  BY CountsTyped, <1>1, <1>2, <1>3
  DEF IInv, Types, ApiStates, CallFitsApi, StateFitsHistory, StateFitsCall,
      HeaderDone, HeaderOps, DecodeOps, ScansCounted, ParametersFit, PlanesSoFar, NextScan,
      PlanesMatchScans

\* The header was read up to the scan, or up to a SPIFF header.
LEMMA HeaderReadStep == IInv /\ HeaderRead => IInv'
<1> SUFFICES ASSUME IInv, HeaderRead PROVE IInv'
  OBVIOUS
<1>1. call.op = "headerRead" /\ UNCHANGED <<reader, source, planes, asserts, history>>
  BY DEF HeaderRead
<1>2. call \in Calls
  BY DEF IInv, Types
<1>3. CASE call.client = "spiff"
  <2>1. /\ api' = IF call.found THEN "spiff_header_read" ELSE "spiff_header_not_found"
        /\ call' = Returned("ok")
    BY <1>3 DEF HeaderRead
  <2>2. /\ call' \in Calls /\ call'.op = "returned" /\ call'.outcome = "ok"
        /\ call'.client = "spiff" /\ call'.found = call.found
        /\ call'.component = call.component /\ call'.mode = call.mode
    BY <1>2, <1>3, <2>1, CallEnds DEF Outcomes
  <2> QED
    BY CountsTyped, <1>1, <1>3, <2>1, <2>2
    DEF IInv, Types, ApiStates, MaxSegments, CallFitsApi, StateFitsHistory, StateFitsCall,
        HeaderDone, HeaderOps, DecodeOps, ScansCounted, ParametersFit, PlanesSoFar, NextScan,
        PlanesMatchScans
<1>4. CASE call.client # "spiff"
  <2>1. /\ call' \in Calls /\ call'.op = "ReadStartOfScan" /\ api' = api
        /\ call'.client = call.client /\ call'.found = call.found
        /\ call'.component = call.component /\ call'.mode = call.mode
    <3>1. call' = [call EXCEPT !.op = "ReadStartOfScan"] /\ api' = api
      BY <1>4 DEF HeaderRead
    <3> QED  BY <1>2, <3>1, CallGoesOn, OpsNamed
  <2> QED
    BY CountsTyped, <1>1, <1>4, <2>1
    DEF IInv, Types, ApiStates, MaxSegments, CallFitsApi, StateFitsHistory, StateFitsCall,
        HeaderDone, HeaderOps, DecodeOps, ScansCounted, ParametersFit, PlanesSoFar, NextScan,
        PlanesMatchScans
<1> QED  BY <1>3, <1>4

\* A call returns to the application.
LEMMA ReturnStep == IInv /\ Return => IInv'
<1> SUFFICES ASSUME IInv, Return PROVE IInv'
  OBVIOUS
<1>1. /\ call.op = "returned" /\ UNCHANGED <<reader, source, planes, asserts, history>>
      /\ api' = IF call.client = "header" /\ call.outcome = "ok" THEN "header_read" ELSE api
  BY DEF Return
<1>2. /\ call' \in Calls /\ call'.op = "idle"
      /\ call'.client = call.client /\ call'.found = call.found
      /\ call'.component = call.component /\ call'.mode = call.mode
  BY CallGoesOn, OpsNamed DEF Return, IInv, Types
<1> QED
  BY CountsTyped, <1>1, <1>2
  DEF IInv, Types, ApiStates, MaxSegments, CallFitsApi, StateFitsHistory, StateFitsCall,
      HeaderDone, HeaderOps, DecodeOps, ScansCounted, ParametersFit, PlanesSoFar, NextScan,
      PlanesMatchScans

-----------------------------------------------------------------------------
(* The steps of the reader.                                                *)

\* The bytes end.
LEMMA EndOfInputStep == IInv /\ EndOfInput /\ UNCHANGED api => IInv'
<1> SUFFICES ASSUME IInv, EndOfInput, UNCHANGED api PROVE IInv'
  OBVIOUS
<1>1. /\ call.op \in {"ReadHeader", "ReadNextStartOfScan", "ReadStartOfScan", "ReadScanOfNext"}
      /\ UNCHANGED <<api, reader, planes, asserts, history>>
  BY DEF EndOfInput
<1>2. /\ source' \in Sources /\ source'.read = source.read /\ MaxSegments' = MaxSegments
  BY SourceEnds DEF EndOfInput, IInv, Types
<1>3. /\ call' \in Calls /\ call'.op \in {call.op, "returned"}
      /\ call'.op = "returned" => call'.outcome = "error"
      /\ call'.client = call.client /\ call'.found = call.found
      /\ call'.component = call.component /\ call'.mode = call.mode
      /\ call'.op # "returned" => call' = call
  <2>1. call' = Returned("error") \/ call' = call
    BY DEF EndOfInput
  <2>2. call \in Calls /\ "error" \in Outcomes
    BY DEF IInv, Types, Outcomes
  <2>3. CASE call' = Returned("error")
    BY <2>2, <2>3, CallEnds
  <2>4. CASE call' = call
    BY <1>1, <2>2, <2>4
  <2> QED  BY <2>1, <2>3, <2>4
<1> QED
  BY CountsTyped, <1>1, <1>2, <1>3
  DEF IInv, Types, ApiStates, CallFitsApi, StateFitsHistory, StateFitsCall,
      HeaderDone, HeaderOps, DecodeOps, ScansCounted, ParametersFit, PlanesSoFar, NextScan,
      PlanesMatchScans

\* The start of image, or anything else in its place.
LEMMA ReadStartOfImageStep ==
  ASSUME IInv, NEW seg, ReadStartOfImage(seg), UNCHANGED api
  PROVE  IInv'
<1>1. /\ call.op = "ReadHeader" /\ reader.state = "before_start_of_image"
      /\ UNCHANGED <<api, planes, asserts>>
  BY DEF ReadStartOfImage
<1>2. /\ source' \in Sources /\ source'.read = source.read + 1
      /\ source'.read <= MaxSegments /\ MaxSegments' = MaxSegments
      /\ source.read \in Nat
  BY SegmentConsumed DEF ReadStartOfImage, IInv, Types, Sources, Counts
<1>3. CASE seg.marker = "SOI"
  <2>1. /\ reader' = [reader EXCEPT !.state = "header_section"]
        /\ history' = [history EXCEPT !.soi = @ + 1]
        /\ UNCHANGED call
    BY <1>3 DEF ReadStartOfImage
  <2>2. /\ reader' \in Readers /\ reader'.state = "header_section"
        /\ reader'.frame = reader.frame /\ reader'.mode = reader.mode
    BY <2>1, StatesOfSegments DEF IInv, Types, Readers
  <2>3. /\ history' \in Histories /\ history'.soi = history.soi + 1
        /\ history'.sof = history.sof /\ history'.spiff = history.spiff
        /\ history'.eod = history.eod /\ history'.scans = history.scans
    BY <2>1, StartRecorded DEF IInv, Types
  <2> QED
    BY CountsTyped, <1>1, <1>2, <2>1, <2>2, <2>3
    DEF IInv, Types, ApiStates, CallFitsApi, StateFitsHistory, StateFitsCall,
        HeaderDone, HeaderOps, DecodeOps, ScansCounted, ParametersFit, PlanesSoFar, NextScan,
        PlanesMatchScans
<1>4. CASE seg.marker # "SOI"
  <2>1. /\ UNCHANGED <<reader, history>> /\ call' = Returned("error")
    BY <1>4 DEF ReadStartOfImage
  <2>2. /\ call' \in Calls /\ call'.op = "returned" /\ call'.outcome = "error"
        /\ call'.client = call.client /\ call'.found = call.found
        /\ call'.component = call.component /\ call'.mode = call.mode
    BY <2>1, CallEnds DEF IInv, Types, Outcomes
  <2> QED
    BY CountsTyped, <1>1, <1>2, <2>1, <2>2
    DEF IInv, Types, ApiStates, CallFitsApi, StateFitsHistory, StateFitsCall,
        HeaderDone, HeaderOps, DecodeOps, ScansCounted, ParametersFit, PlanesSoFar, NextScan,
        PlanesMatchScans
<1> QED  BY <1>3, <1>4

\* The loop of ReadHeader.
LEMMA ReadHeaderSegmentStep ==
  ASSUME IInv, NEW seg, IsSegment(seg), ReadHeaderSegment(seg), UNCHANGED api
  PROVE  IInv'
<1>1. /\ call.op = "ReadHeader" /\ reader.state # "before_start_of_image"
      /\ UNCHANGED <<api, planes, asserts>>
  BY DEF ReadHeaderSegment
<1>2. /\ source' \in Sources /\ source'.read = source.read + 1
      /\ source'.read <= MaxSegments /\ MaxSegments' = MaxSegments
  BY SegmentConsumed DEF ReadHeaderSegment, IInv, Types
<1>3. /\ reader \in Readers /\ call \in Calls /\ history \in Histories
      /\ call.found \in BOOLEAN /\ (call.client = "spiff") \in BOOLEAN
  BY DEF IInv, Types, Calls
<1>4. CASE ~ValidMarker(reader, seg.marker)
  <2>1. UNCHANGED <<reader, history>> /\ call' = Returned("error")
    BY <1>4 DEF ReadHeaderSegment
  <2>2. /\ call' \in Calls /\ call'.op = "returned" /\ call'.outcome = "error"
        /\ call'.client = call.client /\ call'.found = call.found
        /\ call'.component = call.component /\ call'.mode = call.mode
    BY <1>3, <2>1, CallEnds DEF Outcomes
  <2> QED
    BY CountsTyped, <1>1, <1>2, <2>1, <2>2
    DEF IInv, Types, ApiStates, CallFitsApi, StateFitsHistory, StateFitsCall,
        HeaderDone, HeaderOps, DecodeOps, ScansCounted, ParametersFit, PlanesSoFar, NextScan,
        PlanesMatchScans
<1>5. CASE ValidMarker(reader, seg.marker) /\ seg.marker = "SOS"
  <2>1. reader.state = "scan_section"
    BY <1>5 DEF ValidMarker
  <2>2. /\ UNCHANGED <<reader, history>>
        /\ call' = [call EXCEPT !.op = "headerRead"] \/ call' = Returned("error")
    BY <1>5 DEF ReadHeaderSegment
  <2>3. /\ call' \in Calls /\ call'.op \in {"headerRead", "returned"}
        /\ call'.op = "returned" => call'.outcome = "error"
        /\ call'.client = call.client /\ call'.found = call.found
        /\ call'.component = call.component /\ call'.mode = call.mode
    <3>1. CASE call' = [call EXCEPT !.op = "headerRead"]
      BY <1>3, <3>1, CallGoesOn, OpsNamed
    <3>2. CASE call' = Returned("error")
      BY <1>3, <3>2, CallEnds DEF Outcomes
    <3> QED  BY <2>2, <3>1, <3>2
  <2> QED
    BY CountsTyped, <1>1, <1>2, <2>1, <2>2, <2>3
    DEF IInv, Types, ApiStates, CallFitsApi, StateFitsHistory, StateFitsCall,
        HeaderDone, HeaderOps, DecodeOps, ScansCounted, ParametersFit, PlanesSoFar, NextScan,
        PlanesMatchScans
<1>6. CASE ValidMarker(reader, seg.marker) /\ seg.marker # "SOS"
  <2> DEFINE res == IF reader.state = "spiff_header_section"
                    THEN ReadSpiffDirectoryEntry(reader, seg, call.found)
                    ELSE ReadMarkerSegment(reader, seg, call.client = "spiff", call.found)
             first == SpiffComesFirst(res.reader, res.found)
  <2>1. /\ reader' = IF res.ok /\ first THEN [res.reader EXCEPT !.state = "spiff_header_section"]
                     ELSE res.reader
        /\ history' = IF res.ok THEN Recorded(seg) ELSE history
        /\ call' = IF ~res.ok THEN Returned("error")
                   ELSE [call EXCEPT !.found = res.found,
                                     !.op = IF first THEN "headerRead" ELSE @]
    BY <1>6 DEF ReadHeaderSegment
  <2>2. CASE reader.state = "spiff_header_section"
    <3>1. /\ res.reader \in Readers /\ res.ok \in BOOLEAN /\ res.found = call.found
          /\ res.reader.frame = reader.frame /\ res.reader.mode = reader.mode
          /\ res.ok => seg.marker = "APP8"
          /\ res.reader.state = IF res.ok /\ seg.kind = "endOfDirectory"
                                THEN "image_section" ELSE reader.state
      BY <1>3, <2>2, DirectoryEntry
    <3>2. first = FALSE
      BY <2>2, <3>1 DEF SpiffComesFirst
    <3> HIDE DEF res, first
    <3>3. reader' = res.reader
      BY <2>1, <3>2
    <3>4. CASE res.ok
      <4>1. /\ history' \in Histories /\ history'.soi = history.soi
            /\ history'.sof = history.sof /\ history'.scans = history.scans
            /\ history'.spiff <=> history.spiff
            /\ history'.eod <=> history.eod \/ seg.kind = "endOfDirectory"
        BY <1>3, <2>1, <2>2, <3>1, <3>4, SegmentRecorded
      <4>2. /\ call' \in Calls /\ call'.op = call.op
            /\ call'.client = call.client /\ call'.found = call.found
            /\ call'.component = call.component /\ call'.mode = call.mode
        <5>1. call' = [call EXCEPT !.found = call.found, !.op = IF FALSE THEN "headerRead" ELSE @]
          BY <2>1, <3>1, <3>2, <3>4
        <5> QED  BY <1>3, <5>1, SearchGoesOn
      <4> QED
        BY CountsTyped, <1>1, <1>2, <2>2, <3>1, <3>3, <3>4, <4>1, <4>2
        DEF IInv, Types, ApiStates, CallFitsApi, StateFitsHistory, StateFitsCall,
            HeaderDone, HeaderOps, DecodeOps, ScansCounted, ParametersFit, PlanesSoFar, NextScan,
            PlanesMatchScans
    <3>5. CASE ~res.ok
      <4>1. UNCHANGED history /\ call' = Returned("error")
        BY <2>1, <3>5
      <4>2. /\ call' \in Calls /\ call'.op = "returned" /\ call'.outcome = "error"
            /\ call'.client = call.client /\ call'.found = call.found
            /\ call'.component = call.component /\ call'.mode = call.mode
        BY <1>3, <4>1, CallEnds DEF Outcomes
      <4> QED
        BY CountsTyped, <1>1, <1>2, <2>2, <3>1, <3>3, <3>5, <4>1, <4>2
        DEF IInv, Types, ApiStates, CallFitsApi, StateFitsHistory, StateFitsCall,
            HeaderDone, HeaderOps, DecodeOps, ScansCounted, ParametersFit, PlanesSoFar, NextScan,
            PlanesMatchScans
    <3> QED  BY <3>1, <3>4, <3>5
  <2>3. CASE reader.state # "spiff_header_section"
    <3>1. /\ res.reader \in Readers /\ res.ok \in BOOLEAN /\ res.found \in BOOLEAN
          /\ res.reader.mode = reader.mode
          /\ res.found => call.client = "spiff" \/ call.found
          /\ IF seg.marker = "SOF"
             THEN /\ res.reader.state = IF res.ok THEN "scan_section" ELSE reader.state
                  /\ res.ok => res.reader.frame.components > 0
             ELSE /\ res.reader.state = reader.state /\ res.reader.frame = reader.frame
                  /\ seg.marker = "APP8" /\ seg.kind = "spiff"
                       => res.ok /\ res.found = (call.client = "spiff")
      <4>1. res = ReadMarkerSegment(reader, seg, call.client = "spiff", call.found)
        BY <2>3
      <4>2. CASE seg.marker = "SOF"
        <5>1. res = ReadStartOfFrameSegment(reader, seg, call.found)
          BY <4>1, <4>2 DEF ReadMarkerSegment
        <5> QED  BY <1>3, <4>2, <5>1, FrameSegment
      <4>3. CASE seg.marker # "SOF"
        <5> DEFINE wanted == call.client = "spiff"
                   found == call.found
        <5> HIDE DEF wanted, found
        <5>1. res = ReadMarkerSegment(reader, seg, wanted, found)
          BY <4>1 DEF wanted, found
        <5>2. wanted \in BOOLEAN /\ found \in BOOLEAN /\ reader \in Readers
          BY <1>3 DEF wanted, found
        <5> HIDE DEF res
        <5>3. /\ res.reader \in Readers
              /\ res.reader.state = reader.state /\ res.reader.frame = reader.frame
              /\ res.reader.mode = reader.mode
          BY <4>3, <5>1, <5>2, OtherSegment
        <5>4. res.ok \in BOOLEAN /\ res.found \in BOOLEAN /\ (res.found => wanted \/ found)
          BY <4>3, <5>1, <5>2, SpiffWanted
        <5>5. (seg.marker = "APP8" /\ seg.kind = "spiff") => res.ok /\ (res.found <=> wanted)
          BY <5>1, <5>2, SpiffSegment
        <5> QED  BY <4>3, <5>2, <5>3, <5>4, <5>5 DEF wanted, found
      <4> QED  BY <4>2, <4>3
    <3>2. first <=> (res.reader.state = "header_section" /\ res.found)
      BY DEF SpiffComesFirst
    <3>3. seg.marker = "SOF" => reader.state # "scan_section"
      BY <1>6 DEF ValidMarker
    <3> HIDE DEF res, first
    <3>4. CASE ~res.ok
      <4>1. UNCHANGED history /\ call' = Returned("error") /\ reader' = res.reader
        BY <2>1, <3>4
      <4>2. /\ call' \in Calls /\ call'.op = "returned" /\ call'.outcome = "error"
            /\ call'.client = call.client /\ call'.found = call.found
            /\ call'.component = call.component /\ call'.mode = call.mode
        BY <1>3, <4>1, CallEnds DEF Outcomes
      <4>3. reader'.frame.components \in Nat
        BY <3>1, <4>1, ComponentsAreNat
      <4> QED
        BY CountsTyped, <1>1, <1>2, <2>3, <3>1, <3>3, <3>4, <4>1, <4>2, <4>3
        DEF IInv, Types, ApiStates, CallFitsApi, StateFitsHistory, StateFitsCall,
            HeaderDone, HeaderOps, DecodeOps, ScansCounted, ParametersFit, PlanesSoFar, NextScan,
            PlanesMatchScans
    <3>5. CASE res.ok
      <4>1. /\ history' \in Histories /\ history'.soi = history.soi
            /\ history'.scans = history.scans
            /\ history'.sof = IF seg.marker = "SOF" THEN history.sof + 1 ELSE history.sof
            /\ history'.spiff <=> \/ history.spiff
                                  \/ /\ seg.marker = "APP8" /\ seg.kind = "spiff"
                                     /\ call.client = "spiff"
                                     /\ reader.state = "header_section"
            /\ history'.eod <=> history.eod
        BY <1>3, <2>1, <2>3, <3>5, SegmentRecorded
      <4>2. /\ call' \in Calls /\ call'.op = IF first THEN "headerRead" ELSE call.op
            /\ call'.client = call.client /\ call'.found = res.found
            /\ call'.component = call.component /\ call'.mode = call.mode
        BY <1>3, <2>1, <3>1, <3>5, SearchGoesOn
      <4>3. /\ reader' \in Readers /\ reader'.frame = res.reader.frame
            /\ reader'.mode = res.reader.mode
            /\ reader'.state = IF first THEN "spiff_header_section" ELSE res.reader.state
        <5>1. CASE first
          BY <2>1, <3>1, <3>5, <5>1, StatesOfSegments DEF Readers
        <5>2. CASE ~first
          BY <2>1, <3>1, <3>5, <5>2
        <5> QED  BY <5>1, <5>2
      <4>4. reader'.frame.components \in Nat
        BY <4>3, ComponentsAreNat
      <4> QED
        BY CountsTyped, <1>1, <1>2, <2>3, <3>1, <3>2, <3>3, <3>5, <4>1, <4>2, <4>3, <4>4
        DEF IInv, Types, ApiStates, CallFitsApi, StateFitsHistory, StateFitsCall,
            HeaderDone, HeaderOps, DecodeOps, ScansCounted, ParametersFit, PlanesSoFar, NextScan,
            PlanesMatchScans
    <3> QED  BY <3>1, <3>4, <3>5
  <2> QED  BY <2>2, <2>3
<1> QED  BY <1>4, <1>5, <1>6

\* The loop of ReadNextStartOfScan.
LEMMA ReadNextStartOfScanStep ==
  ASSUME IInv, NEW seg, IsSegment(seg), ReadNextStartOfScan(seg), UNCHANGED api
  PROVE  IInv'
<1>1. /\ call.op = "ReadNextStartOfScan"
      /\ UNCHANGED <<api, planes, asserts>>
  BY DEF ReadNextStartOfScan
<1>2. /\ source' \in Sources /\ source'.read = source.read + 1
      /\ source'.read <= MaxSegments /\ MaxSegments' = MaxSegments
  BY SegmentConsumed DEF ReadNextStartOfScan, IInv, Types
<1>3. /\ reader \in Readers /\ call \in Calls /\ history \in Histories
      /\ reader.state = "scan_section" /\ call.client = "decode"
  BY <1>1 DEF IInv, Types, StateFitsCall, CallFitsApi, DecodeOps
<1>4. CASE ~ValidMarker(reader, seg.marker)
  <2>1. UNCHANGED <<reader, history>> /\ call' = Returned("error")
    BY <1>4 DEF ReadNextStartOfScan
  <2>2. /\ call' \in Calls /\ call'.op = "returned" /\ call'.outcome = "error"
        /\ call'.client = call.client /\ call'.found = call.found
        /\ call'.component = call.component /\ call'.mode = call.mode
    BY <1>3, <2>1, CallEnds DEF Outcomes
  <2> QED
    BY CountsTyped, <1>1, <1>2, <2>1, <2>2
    DEF IInv, Types, ApiStates, CallFitsApi, StateFitsHistory, StateFitsCall,
        HeaderDone, HeaderOps, DecodeOps, ScansCounted, ParametersFit, PlanesSoFar, NextScan,
        PlanesMatchScans
<1>5. CASE ValidMarker(reader, seg.marker) /\ seg.marker = "SOS"
  <2>1. UNCHANGED <<reader, history>> /\ call' = [call EXCEPT !.op = "ReadScanOfNext"]
    BY <1>5 DEF ReadNextStartOfScan
  <2>2. /\ call' \in Calls /\ call'.op = "ReadScanOfNext"
        /\ call'.client = call.client /\ call'.found = call.found
        /\ call'.component = call.component /\ call'.mode = call.mode
    BY <1>3, <2>1, CallGoesOn, OpsNamed
  <2> QED
    BY CountsTyped, <1>1, <1>2, <1>3, <2>1, <2>2
    DEF IInv, Types, ApiStates, CallFitsApi, StateFitsHistory, StateFitsCall,
        HeaderDone, HeaderOps, DecodeOps, ScansCounted, ParametersFit, PlanesSoFar, NextScan,
        PlanesMatchScans
<1>6. CASE ValidMarker(reader, seg.marker) /\ seg.marker # "SOS"
  <2> DEFINE no == FALSE
             res == ReadMarkerSegment(reader, seg, no, no)
  <2>1. /\ reader' = res.reader
        /\ history' = IF res.ok THEN Recorded(seg) ELSE history
        /\ call' = IF res.ok THEN call ELSE Returned("error")
    BY <1>6 DEF ReadNextStartOfScan
  <2> HIDE DEF no
  <2>2. seg.marker # "SOF"
    BY <1>3, <1>6 DEF ValidMarker
  <2>3. /\ res.reader \in Readers
        /\ res.reader.state = reader.state /\ res.reader.frame = reader.frame
        /\ res.reader.mode = reader.mode
    BY <1>3, <2>2, OtherSegment
  <2>9. res.ok \in BOOLEAN
    <3>1. no \in BOOLEAN
      BY DEF no
    <3> QED  BY <2>2, <3>1, SpiffWanted
  <2> HIDE DEF res
  <2>4. /\ history' \in Histories /\ history'.soi = history.soi
        /\ history'.sof = history.sof /\ history'.scans = history.scans
        /\ history'.spiff <=> history.spiff
        /\ history.eod => history'.eod
    <3>1. CASE res.ok
      BY <1>3, <2>1, <2>2, <3>1, SegmentRecorded
    <3>2. CASE ~res.ok
      BY <1>3, <2>1, <3>2
    <3> QED  BY <3>1, <3>2
  <2>5. /\ call' \in Calls /\ call'.op \in {call.op, "returned"}
        /\ call'.op = "returned" => call'.outcome = "error"
        /\ call'.client = call.client /\ call'.found = call.found
        /\ call'.component = call.component /\ call'.mode = call.mode
    <3>1. CASE res.ok
      BY <1>1, <1>3, <2>1, <3>1
    <3>2. CASE ~res.ok
      BY <1>3, <2>1, <3>2, CallEnds DEF Outcomes
    <3> QED  BY <3>1, <3>2
  <2> QED
    BY CountsTyped, <1>1, <1>2, <1>3, <2>1, <2>3, <2>9, <2>4, <2>5
    DEF IInv, Types, ApiStates, CallFitsApi, StateFitsHistory, StateFitsCall,
        HeaderDone, HeaderOps, DecodeOps, ScansCounted, ParametersFit, PlanesSoFar, NextScan,
        PlanesMatchScans
<1> QED  BY <1>4, <1>5, <1>6

\* ReadStartOfScan, for the header or for the next scan.
LEMMA ReadStartOfScanStep ==
  ASSUME IInv, NEW seg, IsSegment(seg), ReadStartOfScan(seg), UNCHANGED api
  PROVE  IInv'
<1> DEFINE res == ReadScanParameters(reader, seg)
<1>1. /\ call.op \in {"ReadStartOfScan", "ReadScanOfNext"} /\ seg.marker = "SOS"
      /\ HasInput /\ UNCHANGED <<api, source, planes>>
      /\ reader' = res.reader
      /\ history' = IF res.ok THEN [history EXCEPT !.scans = @ + 1] ELSE history
      /\ asserts' = IF seg.defect = "early" \/ is_maximum_sample_value_valid(reader)
                    THEN asserts ELSE asserts \cup {614}
      /\ call' = IF ~res.ok THEN Returned("error")
                 ELSE IF call.op = "ReadStartOfScan" THEN Returned("ok")
                 ELSE [call EXCEPT !.op = "DecodeScan"]
  BY DEF ReadStartOfScan
<1>2. /\ reader \in Readers /\ call \in Calls /\ history \in Histories
      /\ reader.state = "scan_section" /\ asserts \subseteq {33, 88, 614}
  BY <1>1 DEF IInv, Types, StateFitsCall
<1>3. /\ res.reader \in Readers /\ res.ok \in BOOLEAN
      /\ res.reader.frame = reader.frame
      /\ maximum_sample_value(res.reader) = maximum_sample_value(reader)
      /\ is_maximum_sample_value_valid(res.reader) = is_maximum_sample_value_valid(reader)
      /\ ~res.ok => res.reader.state = reader.state /\ res.reader.mode = reader.mode
      /\ res.ok => /\ res.reader.state = "bit_stream_section"
                   /\ seg.defect # "early"
                   /\ res.reader.near <= NearLimit(reader)
  BY <1>1, <1>2, ScanSegment
<1> HIDE DEF res
<1>4. NearLimit(reader') = NearLimit(reader)
  BY <1>1, <1>3 DEF NearLimit
<1>5. /\ asserts' \subseteq {33, 88, 614}
      /\ asserts' = {} => /\ asserts = {}
                          /\ seg.defect = "early" \/ is_maximum_sample_value_valid(reader)
  BY <1>1, <1>2
<1>6. source.read < MaxSegments /\ MaxSegments' = MaxSegments
  BY <1>1 DEF HasInput, MaxSegments
<1>7. CASE ~res.ok
  <2>1. history' = history /\ call' = Returned("error")
    BY <1>1, <1>7
  <2>2. /\ call' \in Calls /\ call'.op = "returned" /\ call'.outcome = "error"
        /\ call'.client = call.client /\ call'.found = call.found
        /\ call'.component = call.component /\ call'.mode = call.mode
    BY <1>2, <2>1, CallEnds DEF Outcomes
  <2> QED
    BY CountsTyped, <1>1, <1>2, <1>3, <1>5, <1>6, <1>7, <2>1, <2>2
    DEF IInv, Types, ApiStates, CallFitsApi, StateFitsHistory, StateFitsCall,
        HeaderDone, HeaderOps, DecodeOps, ScansCounted, ParametersFit, PlanesSoFar, NextScan,
        PlanesMatchScans
<1>8. CASE res.ok
  <2>1. /\ history' \in Histories /\ history'.scans = history.scans + 1
        /\ history'.soi = history.soi /\ history'.sof = history.sof
        /\ history'.spiff = history.spiff /\ history'.eod = history.eod
    BY <1>1, <1>2, <1>8, ScanRecorded
  <2>2. CASE call.op = "ReadStartOfScan"
    <3>1. /\ call' \in Calls /\ call'.op = "returned" /\ call'.outcome = "ok"
          /\ call'.client = call.client /\ call'.found = call.found
          /\ call'.component = call.component /\ call'.mode = call.mode
      BY <1>1, <1>2, <1>8, <2>2, CallEnds DEF Outcomes
    <3>2. /\ call.client = "header" /\ ~HeaderDone /\ HeaderDone'
          /\ history.scans = 0 /\ history.soi = 1
      BY CountsTyped, <1>1, <1>2, <2>2, <3>1
      DEF IInv, HeaderDone, CallFitsApi, HeaderOps, StateFitsHistory, ScansCounted
    <3>Types. Types'
      BY CountsTyped, <1>1, <1>2, <1>3, <1>4, <1>5, <1>6, <1>8, <2>1, <2>2, <3>1, <3>2
      DEF IInv, Types, ApiStates
    <3>CallFitsApi. CallFitsApi'
      BY CountsTyped, <1>1, <1>2, <1>3, <1>4, <1>5, <1>6, <1>8, <2>1, <2>2, <3>1, <3>2
      DEF IInv, CallFitsApi, HeaderOps, DecodeOps
    <3>StateFitsHistory. StateFitsHistory'
      BY CountsTyped, <1>1, <1>2, <1>3, <1>4, <1>5, <1>6, <1>8, <2>1, <2>2, <3>1, <3>2
      DEF IInv, StateFitsHistory
    <3>StateFitsCall. StateFitsCall'
      BY CountsTyped, <1>1, <1>2, <1>3, <1>4, <1>5, <1>6, <1>8, <2>1, <2>2, <3>1, <3>2
      DEF IInv, StateFitsCall, HeaderDone, CallFitsApi, HeaderOps, DecodeOps
    <3>ScansCounted. ScansCounted'
      BY CountsTyped, <1>1, <1>2, <1>3, <1>4, <1>5, <1>6, <1>8, <2>1, <2>2, <3>1, <3>2
      DEF IInv, ScansCounted, HeaderDone, CallFitsApi, HeaderOps, DecodeOps
    <3>ParametersFit. ParametersFit'
      BY CountsTyped, <1>1, <1>2, <1>3, <1>4, <1>5, <1>6, <1>8, <2>1, <2>2, <3>1, <3>2
      DEF IInv, ParametersFit
    <3>PlanesSoFar. PlanesSoFar'
      BY CountsTyped, <1>1, <1>2, <1>3, <1>4, <1>5, <1>6, <1>8, <2>1, <2>2, <3>1, <3>2
      DEF IInv, PlanesSoFar, CallFitsApi, HeaderOps, DecodeOps, NextScan
    <3>PlanesMatchScans. PlanesMatchScans'
      BY CountsTyped, <1>1, <1>2, <1>3, <1>4, <1>5, <1>6, <1>8, <2>1, <2>2, <3>1, <3>2
      DEF IInv, PlanesMatchScans
    <3> QED
      BY <3>Types, <3>CallFitsApi, <3>StateFitsHistory, <3>StateFitsCall,
         <3>ScansCounted, <3>ParametersFit, <3>PlanesSoFar, <3>PlanesMatchScans DEF IInv
  <2>3. CASE call.op = "ReadScanOfNext"
    <3>1. /\ call' \in Calls /\ call'.op = "DecodeScan"
          /\ call'.client = call.client /\ call'.found = call.found
          /\ call'.component = call.component /\ call'.mode = call.mode
      BY <1>1, <1>2, <1>8, <2>3, CallGoesOn, OpsNamed
    <3>Types. Types'
      BY CountsTyped, <1>1, <1>2, <1>3, <1>4, <1>5, <1>6, <1>8, <2>1, <2>3, <3>1
      DEF IInv, Types, ApiStates
    <3>CallFitsApi. CallFitsApi'
      BY CountsTyped, <1>1, <1>2, <1>3, <1>4, <1>5, <1>6, <1>8, <2>1, <2>3, <3>1
      DEF IInv, CallFitsApi, HeaderOps, DecodeOps
    <3>StateFitsHistory. StateFitsHistory'
      BY CountsTyped, <1>1, <1>2, <1>3, <1>4, <1>5, <1>6, <1>8, <2>1, <2>3, <3>1
      DEF IInv, StateFitsHistory
    <3>StateFitsCall. StateFitsCall'
      BY CountsTyped, <1>1, <1>2, <1>3, <1>4, <1>5, <1>6, <1>8, <2>1, <2>3, <3>1
      DEF IInv, StateFitsCall, HeaderDone, CallFitsApi, HeaderOps, DecodeOps
    <3>ScansCounted. ScansCounted'
      BY CountsTyped, <1>1, <1>2, <1>3, <1>4, <1>5, <1>6, <1>8, <2>1, <2>3, <3>1
      DEF IInv, ScansCounted, HeaderDone, CallFitsApi, HeaderOps, DecodeOps
    <3>ParametersFit. ParametersFit'
      BY CountsTyped, <1>1, <1>2, <1>3, <1>4, <1>5, <1>6, <1>8, <2>1, <2>3, <3>1
      DEF IInv, ParametersFit
    <3>PlanesSoFar. PlanesSoFar'
      BY CountsTyped, <1>1, <1>2, <1>3, <1>4, <1>5, <1>6, <1>8, <2>1, <2>3, <3>1
      DEF IInv, PlanesSoFar, CallFitsApi, HeaderOps, DecodeOps, NextScan
    <3>PlanesMatchScans. PlanesMatchScans'
      BY CountsTyped, <1>1, <1>2, <1>3, <1>4, <1>5, <1>6, <1>8, <2>1, <2>3, <3>1
      DEF IInv, PlanesMatchScans
    <3> QED
      BY <3>Types, <3>CallFitsApi, <3>StateFitsHistory, <3>StateFitsCall,
         <3>ScansCounted, <3>ParametersFit, <3>PlanesSoFar, <3>PlanesMatchScans DEF IInv
  <2> QED  BY <1>1, <2>2, <2>3
<1> QED  BY <1>3, <1>7, <1>8

\* Read checks the parameters and the room in the destination.
LEMMA BeginReadStep ==
  ASSUME IInv, NEW room \in BOOLEAN, BeginRead(room), UNCHANGED api
  PROVE  IInv'
<1>1. /\ call.op = "Read" /\ UNCHANGED <<api, reader, source, planes, history>>
      /\ MaxSegments' = MaxSegments
  BY DEF BeginRead, MaxSegments
<1>2. reader \in Readers /\ call \in Calls /\ asserts \subseteq {33, 88, 614}
  BY DEF IInv, Types
<1>3. /\ asserts' \subseteq {33, 88, 614}
      /\ asserts' = {} => asserts = {} /\ reader.state = "bit_stream_section"
  BY <1>2 DEF BeginRead
<1>4. CASE call' = [call EXCEPT !.op = "ReadLoop", !.mode = reader.mode]
  <2>1. /\ call' \in Calls /\ call'.op = "ReadLoop"
        /\ call'.client = call.client /\ call'.found = call.found
        /\ call'.component = call.component /\ call'.mode = reader.mode
    <3> DEFINE mode == reader.mode
    <3>1. "ReadLoop" \in Ops /\ mode \in Modes /\ call \in Calls
      BY <1>2, OpsNamed DEF Readers
    <3>2. call' = [call EXCEPT !.op = "ReadLoop", !.mode = mode]
      BY <1>4
    <3>3. reader.mode = mode
      OBVIOUS
    <3> HIDE DEF mode
    <3> QED  BY <3>1, <3>2, <3>3 DEF Calls
  <2> QED
    BY CountsTyped, <1>1, <1>3, <2>1
    DEF IInv, Types, ApiStates, CallFitsApi, StateFitsHistory, StateFitsCall,
        HeaderDone, HeaderOps, DecodeOps, ScansCounted, ParametersFit, PlanesSoFar, NextScan,
        PlanesMatchScans
<1>5. CASE call' = Returned("error")
  <2>1. /\ call' \in Calls /\ call'.op = "returned" /\ call'.outcome = "error"
        /\ call'.client = call.client /\ call'.found = call.found
        /\ call'.component = call.component /\ call'.mode = call.mode
    BY <1>2, <1>5, CallEnds DEF Outcomes
  <2> QED
    BY CountsTyped, <1>1, <1>3, <2>1
    DEF IInv, Types, ApiStates, CallFitsApi, StateFitsHistory, StateFitsCall,
        HeaderDone, HeaderOps, DecodeOps, ScansCounted, ParametersFit, PlanesSoFar, NextScan,
        PlanesMatchScans
<1> QED  BY <1>4, <1>5 DEF BeginRead

\* The loop of Read.
LEMMA ReadLoopStep == IInv /\ ReadLoop /\ UNCHANGED api => IInv'
<1> SUFFICES ASSUME IInv, ReadLoop, UNCHANGED api PROVE IInv'
  OBVIOUS
<1>1. /\ call.op = "ReadLoop" /\ UNCHANGED <<api, reader, source, planes, asserts, history>>
      /\ MaxSegments' = MaxSegments
  BY DEF ReadLoop, MaxSegments
<1>2. call \in Calls
  BY DEF IInv, Types
<1>3. CASE AllComponentsRead
  <2>1. /\ call' \in Calls /\ call'.op = "returned" /\ call'.outcome = "ok"
        /\ call'.client = call.client /\ call'.found = call.found
        /\ call'.component = call.component /\ call'.mode = call.mode
    BY <1>2, <1>3, CallEnds DEF ReadLoop, Outcomes
  <2>2. call.component >= reader.frame.components
    BY <1>3 DEF AllComponentsRead
  <2> QED
    BY CountsTyped, <1>1, <2>1, <2>2
    DEF IInv, Types, ApiStates, CallFitsApi, StateFitsHistory, StateFitsCall,
        HeaderDone, HeaderOps, DecodeOps, ScansCounted, ParametersFit, PlanesSoFar, NextScan,
        PlanesMatchScans
<1>4. CASE ~AllComponentsRead
  <2>1. /\ call' \in Calls
        /\ call'.op = IF reader.state = "scan_section" THEN "ReadNextStartOfScan" ELSE "DecodeScan"
        /\ call'.client = call.client /\ call'.found = call.found
        /\ call'.component = call.component /\ call'.mode = call.mode
    BY <1>2, <1>4, CallGoesOn, OpsNamed DEF ReadLoop
  <2>2. ~(call.component >= reader.frame.components)
    BY <1>4 DEF AllComponentsRead
  <2> QED
    BY CountsTyped, <1>1, <2>1, <2>2
    DEF IInv, Types, ApiStates, CallFitsApi, StateFitsHistory, StateFitsCall,
        HeaderDone, HeaderOps, DecodeOps, ScansCounted, ParametersFit, PlanesSoFar, NextScan,
        PlanesMatchScans
<1> QED  BY <1>3, <1>4

\* The bytes that a scan takes beyond its end.
LEMMA ReadAheadStep ==
  ASSUME source \in Sources, source.read <= MaxSegments, ReadAhead
  PROVE  /\ source' \in Sources /\ MaxSegments' = MaxSegments
         /\ source.read <= source'.read /\ source'.read <= MaxSegments
<1>1. source.kind \in DOMAIN Streams /\ source.read \in Nat
  BY DEF Sources, Counts
<1>2. MaxSegments \in Nat
  BY <1>1, ReaderAssumption DEF MaxSegments
<1>3. CASE UNCHANGED source
  BY <1>1, <1>3 DEF MaxSegments
<1>4. ASSUME NEW lost \in 0..(MaxSegments - source.read), NEW ended \in BOOLEAN,
             source' = [source EXCEPT !.read = @ + lost, !.ended = ended]
      PROVE  /\ source' \in Sources /\ source'.kind = source.kind
             /\ source.read <= source'.read /\ source'.read <= MaxSegments
  <2>1. source.read + lost \in Counts
    BY <1>1, <1>2 DEF Counts
  <2>2. /\ source' \in Sources /\ source'.kind = source.kind
        /\ source'.read = source.read + lost
    BY <1>4, <2>1 DEF Sources
  <2> QED  BY <1>1, <1>2, <2>2
<1> QED  BY <1>3, <1>4 DEF ReadAhead, MaxSegments

\* DecodeScan.
LEMMA DecodeScanStep == IInv /\ DecodeScan /\ UNCHANGED api => IInv'
<1> SUFFICES ASSUME IInv, DecodeScan, UNCHANGED api PROVE IInv'
  OBVIOUS
<1> DEFINE decoded == CodecExists(reader) /\ reader.scanData = "good"
           next == call.component + 1
<1>1. /\ call.op = "DecodeScan" /\ UNCHANGED <<api, asserts, history>>
      /\ reader \in Readers /\ call \in Calls
  BY DEF DecodeScan, IInv, Types
<1>2. CASE ~decoded
  <2>1. UNCHANGED <<planes, reader, source>> /\ call' = Returned("error")
    BY <1>2 DEF DecodeScan
  <2>2. /\ call' \in Calls /\ call'.op = "returned" /\ call'.outcome = "error"
        /\ call'.client = call.client /\ call'.found = call.found
        /\ call'.component = call.component /\ call'.mode = call.mode
    BY <1>1, <2>1, CallEnds DEF Outcomes
  <2>3. MaxSegments' = MaxSegments
    BY <2>1 DEF MaxSegments
  <2> QED
    BY CountsTyped, <1>1, <2>1, <2>2, <2>3
    DEF IInv, Types, ApiStates, CallFitsApi, StateFitsHistory, StateFitsCall,
        HeaderDone, HeaderOps, DecodeOps, ScansCounted, ParametersFit, PlanesSoFar, NextScan,
        PlanesMatchScans
<1>3. CASE decoded
  <2>1. /\ planes' = [p \in 1..MaxComponents |->
                        IF p = next \/ (reader.mode # "none" /\ p \in next..reader.frame.components)
                        THEN history.scans ELSE planes[p]]
        /\ reader' = [reader EXCEPT !.state = "scan_section"]
        /\ call' = IF reader.mode # "none" THEN Returned("ok")
                   ELSE [call EXCEPT !.op = "ReadLoop", !.component = next]
        /\ ReadAhead
    BY <1>3 DEF DecodeScan, ScannedState
  <2>9. \A p \in 1..MaxComponents :
           planes'[p] = IF p = next \/ (reader.mode # "none" /\ p \in next..reader.frame.components)
                        THEN history.scans ELSE planes[p]
    <3> HIDE DEF next
    <3> QED  BY <2>1
  <2>2. /\ source' \in Sources /\ MaxSegments' = MaxSegments
        /\ source.read <= source'.read /\ source'.read <= MaxSegments
        /\ source.read \in Nat /\ source'.read \in Nat
    BY <2>1, ReadAheadStep DEF IInv, Types, Sources, Counts
  <2>3. /\ reader' \in Readers /\ reader'.state = "scan_section"
        /\ reader'.frame = reader.frame /\ reader'.mode = reader.mode
    BY <1>1, <2>1, StatesOfSegments DEF Readers
  <2>4. /\ call.component \in Nat /\ next \in Nat /\ next = call.component + 1
        /\ next <= reader.frame.components /\ reader.frame.components <= MaxComponents
        /\ reader.frame.components \in Nat /\ history.scans \in Nat
        /\ history.scans <= MaxSegments /\ MaxSegments \in Nat /\ MaxComponents \in Nat
    BY <1>1, CountsTyped, ReaderAssumption DEF IInv, Types, PlanesSoFar, ScansCounted
  <2> HIDE DEF next
  <2>5. planes' \in [1..MaxComponents -> 0..MaxSegments]
    BY <2>1, <2>4 DEF IInv, PlanesSoFar
  <2>6. /\ call.client = "decode" /\ api = "header_read"
    BY <1>1 DEF IInv, CallFitsApi, DecodeOps
  <2>7. CASE reader.mode # "none"
    <3>1. /\ call' \in Calls /\ call'.op = "returned" /\ call'.outcome = "ok"
          /\ call'.client = call.client /\ call'.found = call.found
          /\ call'.component = call.component /\ call'.mode = call.mode
      BY <1>1, <2>1, <2>7, CallEnds DEF Outcomes
    <3>2. (asserts = {} /\ call.mode = reader.mode) => call.component = 0
      BY <1>1, <2>4, <2>7 DEF IInv, PlanesSoFar, DecodeOps
    <3>3. \A p \in 1..reader.frame.components : call.component = 0 => planes'[p] = history.scans
      <4>1. ASSUME NEW p \in 1..reader.frame.components, call.component = 0
            PROVE  planes'[p] = history.scans
        <5>1. p \in 1..MaxComponents /\ p \in next..reader.frame.components
          BY <2>4, <4>1
        <5> QED  BY <2>9, <2>7, <5>1
      <4> QED  BY <4>1
    <3>4. PlanesMatchScans'
      BY <1>1, <2>3, <2>7, <3>1, <3>2, <3>3 DEF PlanesMatchScans
    <3>Types. Types'
      BY CountsTyped, <1>1, <2>2, <2>3, <2>4, <2>5, <2>6, <3>1 DEF IInv, Types, ApiStates
    <3>CallFitsApi. CallFitsApi'
      BY CountsTyped, <1>1, <2>2, <2>3, <2>4, <2>5, <2>6, <3>1
      DEF IInv, CallFitsApi, HeaderOps, DecodeOps
    <3>StateFitsHistory. StateFitsHistory'
      BY CountsTyped, <1>1, <2>2, <2>3, <2>4, <2>5, <2>6, <3>1
      DEF IInv, StateFitsHistory, StateFitsCall, HeaderDone
    <3>StateFitsCall. StateFitsCall'
      BY CountsTyped, <1>1, <2>2, <2>3, <2>4, <2>5, <2>6, <3>1
      DEF IInv, StateFitsCall, HeaderDone, CallFitsApi, HeaderOps, DecodeOps
    <3>ScansCounted. ScansCounted'
      BY CountsTyped, <1>1, <2>2, <2>3, <2>4, <2>5, <2>6, <3>1
      DEF IInv, ScansCounted, HeaderDone, CallFitsApi, HeaderOps, DecodeOps
    <3>ParametersFit. ParametersFit'
      BY CountsTyped, <1>1, <2>2, <2>3, <2>4, <2>5, <2>6, <3>1 DEF IInv, ParametersFit
    <3>PlanesSoFar. PlanesSoFar'
      BY CountsTyped, <1>1, <2>2, <2>3, <2>4, <2>5, <2>6, <3>1
      DEF IInv, PlanesSoFar, CallFitsApi, HeaderOps, DecodeOps, NextScan
    <3>PlanesMatchScans. PlanesMatchScans'
      BY <3>4
    <3> QED
      BY <3>Types, <3>CallFitsApi, <3>StateFitsHistory, <3>StateFitsCall,
         <3>ScansCounted, <3>ParametersFit, <3>PlanesSoFar, <3>PlanesMatchScans DEF IInv
  <2>8. CASE reader.mode = "none"
    <3>1. /\ call' \in Calls /\ call'.op = "ReadLoop"
          /\ call'.client = call.client /\ call'.found = call.found
          /\ call'.component = next /\ call'.mode = call.mode
      <4>1. "ReadLoop" \in Ops /\ next \in Counts
        BY <2>4, OpsNamed DEF Counts
      <4> QED  BY <1>1, <2>1, <2>8, <4>1 DEF Calls
    <3>2. asserts = {} => /\ call.mode = "none"
                          /\ \A p \in 1..next : planes'[p] = history.scans - next + p
      <4> SUFFICES ASSUME asserts = {}
                   PROVE  /\ call.mode = "none"
                          /\ \A p \in 1..next : planes'[p] = history.scans - next + p
        OBVIOUS
      <4>1. call.mode = "none"
        BY <1>1, <2>4, <2>8 DEF IInv, PlanesSoFar, DecodeOps
      <4>2. \A p \in 1..call.component : planes[p] = history.scans - 1 - call.component + p
        BY <1>1, <2>4 DEF IInv, PlanesSoFar, DecodeOps, NextScan
      <4>3. ASSUME NEW p \in 1..next PROVE planes'[p] = history.scans - next + p
        <5>1. CASE p = next
          <6>1. p \in 1..MaxComponents
            BY <2>4
          <6> QED  BY <2>9, <2>4, <5>1, <6>1
        <5>2. CASE p # next
          <6>1. p \in 1..call.component
            BY <2>4, <5>2
          <6>2. planes'[p] = planes[p]
            <7>1. p \in 1..MaxComponents
              BY <2>4
            <7> QED  BY <2>9, <2>8, <5>2, <7>1
          <6> QED  BY <2>4, <4>2, <6>1, <6>2
        <5> QED  BY <5>1, <5>2
      <4> QED  BY <4>1, <4>3
    <3>3. PlanesSoFar'
      BY <1>1, <2>3, <2>4, <2>5, <2>2, <2>6, <2>8, <3>1, <3>2
      DEF PlanesSoFar, NextScan, DecodeOps
    <3> QED
      BY CountsTyped, <1>1, <2>2, <2>3, <2>4, <2>6, <2>8, <3>1, <3>3
      DEF IInv, Types, ApiStates, CallFitsApi, StateFitsHistory, StateFitsCall,
          HeaderDone, HeaderOps, DecodeOps, ScansCounted, ParametersFit, PlanesMatchScans
  <2> QED  BY <2>7, <2>8
<1> QED  BY <1>2, <1>3

-----------------------------------------------------------------------------
(* The theorems.                                                           *)

\* Every step of the reader preserves the invariant.
LEMMA ReaderStepInvariant == IInv /\ ReaderStep /\ UNCHANGED api => IInv'
<1> SUFFICES ASSUME IInv, ReaderStep, UNCHANGED api PROVE IInv'
  OBVIOUS
<1>1. \A seg \in Streams[source.kind].segments : IsSegment(seg)
  <2>1. source.kind \in DOMAIN Streams
    BY DEF IInv, Types, Sources
  <2> QED  BY <2>1, ReaderAssumption
<1>2. CASE EndOfInput
  BY <1>2, EndOfInputStep
<1>3. ASSUME NEW seg \in Streams[source.kind].segments,
             \/ ReadStartOfImage(seg) \/ ReadHeaderSegment(seg)
             \/ ReadNextStartOfScan(seg) \/ ReadStartOfScan(seg)
      PROVE  IInv'
  <2>1. IsSegment(seg)
    BY <1>1
  <2> QED
    BY <1>3, <2>1, ReadStartOfImageStep, ReadHeaderSegmentStep, ReadNextStartOfScanStep,
       ReadStartOfScanStep
<1>4. ASSUME NEW room \in BOOLEAN, BeginRead(room) PROVE IInv'
  BY <1>4, BeginReadStep
<1>5. CASE ReadLoop
  BY <1>5, ReadLoopStep
<1>6. CASE DecodeScan
  BY <1>6, DecodeScanStep
<1> QED  BY <1>2, <1>3, <1>4, <1>5, <1>6 DEF ReaderStep

\* So does every step of the decoder.
LEMMA NextInvariant == IInv /\ [NextDecoder]_vars => IInv'
<1> SUFFICES ASSUME IInv, [NextDecoder]_vars PROVE IInv'
  OBVIOUS
<1>1. CASE UNCHANGED vars
  BY <1>1
  DEF IInv, Types, MaxSegments, CallFitsApi, StateFitsHistory, StateFitsCall, HeaderDone,
      ScansCounted, ParametersFit, PlanesSoFar, NextScan, PlanesMatchScans, vars, readerVars
<1>2. CASE SetSource
  BY <1>2, SetSourceStep
<1>3. CASE ReadSpiffHeader
  BY <1>3, ReadSpiffHeaderStep
<1>4. CASE ReadHeader
  BY <1>4, ReadHeaderStep
<1>5. CASE Decode
  BY <1>5, DecodeStep
<1>6. CASE ReaderStep /\ UNCHANGED api
  BY <1>6, ReaderStepInvariant
<1>7. CASE HeaderRead
  BY <1>7, HeaderReadStep
<1>8. CASE Return
  BY <1>8, ReturnStep
<1> QED
  BY <1>1, <1>2, <1>3, <1>4, <1>5, <1>6, <1>7, <1>8 DEF NextDecoder, Running, Stop

\* The invariant holds in every state that a decoder can reach.
THEOREM DecoderInvariant == Spec => []IInv
<1> QED  BY InitInvariant, NextInvariant, PTL DEF Spec

\* The members of a decoder and its reader stay in their types, and a decode never
\* counts a component that the frame does not have.
THEOREM DecoderTypes == Spec => []TypeOK
<1>1. IInv => TypeOK
  <2> SUFFICES ASSUME IInv PROVE TypeOK
    OBVIOUS
  <2>1. /\ reader.state \in ReaderStates /\ reader.mode \in Modes
        /\ reader.transformation \in Transformations
    BY DEF IInv, Types, Readers
  <2>2. source.read \in 0..MaxSegments /\ source.ended \in BOOLEAN
    BY CountsTyped DEF IInv, Types, Sources
  <2>3. call.outcome \in {"ok", "error"} /\ call.found \in BOOLEAN
    BY DEF IInv, Types, Calls, Outcomes
  <2>4. call.component \in 0..reader.frame.components
    BY CountsTyped DEF IInv, PlanesSoFar
  <2> QED  BY <2>1, <2>2, <2>3, <2>4 DEF TypeOK, IInv, Types, PlanesSoFar
<1> QED  BY <1>1, DecoderInvariant, PTL

\* Whatever the order of the calls, and however often a call that threw is tried
\* again, read_header succeeds only behind one start of image, one frame, a start
\* of scan and, after a SPIFF header, the end of its directory.
THEOREM HeaderComplete == Spec => []HeaderIsComplete
<1>1. IInv => HeaderIsComplete
  BY DEF IInv, StateFitsHistory, StateFitsCall, ScansCounted, HeaderDone, HeaderIsComplete
<1> QED  BY <1>1, DecoderInvariant, PTL

\* In front of the bits of a scan NEAR is within the limit of the largest sample
\* value, and that value fits the frame unless an assertion failed.
THEOREM ScanParametersChecked == Spec => []ScanParametersFit
<1>1. IInv => ScanParametersFit
  BY DEF IInv, ParametersFit, ScanParametersFit, NearLimit
<1> QED  BY <1>1, DecoderInvariant, PTL

\* A decode that succeeds has filled every plane from the scan that belongs to it.
THEOREM PlanesComplete == Spec => []PlanesMatchScans
<1>1. IInv => PlanesMatchScans
  BY DEF IInv
<1> QED  BY <1>1, DecoderInvariant, PTL

\* Once the header is read, no step of the decoder changes the frame: between two
\* scans a frame segment is not valid, and ReadHeader does not run.
THEOREM FrameNeverChanges == Spec => FrameIsFixed
<1>1. IInv /\ [NextDecoder]_vars => [api = "header_read" => reader'.frame = reader.frame]_vars
  <2> SUFFICES ASSUME IInv, NextDecoder, api = "header_read"
               PROVE  reader'.frame = reader.frame
    BY DEF vars, readerVars
  <2>1. reader \in Readers /\ call.op \notin HeaderOps
    BY DEF IInv, Types, CallFitsApi
  <2>2. CASE SetSource \/ ReadSpiffHeader \/ ReadHeader \/ Decode \/ HeaderRead \/ Return \/ Stop
    BY <2>2 DEF SetSource, ReadSpiffHeader, ReadHeader, Decode, HeaderRead, Return, Stop, vars,
                readerVars
  <2>3. CASE EndOfInput \/ ReadLoop \/ \E room \in BOOLEAN : BeginRead(room)
    BY <2>3 DEF EndOfInput, ReadLoop, BeginRead
  <2>4. CASE DecodeScan
    <3>1. reader' = reader \/ reader' = [reader EXCEPT !.state = "scan_section"]
      BY <2>4 DEF DecodeScan, ScannedState
    <3> QED  BY <2>1, <3>1 DEF Readers
  <2>5. ASSUME NEW seg \in Streams[source.kind].segments,
               \/ ReadStartOfImage(seg) \/ ReadHeaderSegment(seg)
               \/ ReadNextStartOfScan(seg) \/ ReadStartOfScan(seg)
        PROVE  reader'.frame = reader.frame
    <3>1. IsSegment(seg)
      BY ReaderAssumption DEF IInv, Types, Sources
    <3>2. ~ReadStartOfImage(seg) /\ ~ReadHeaderSegment(seg)
      BY <2>1 DEF ReadStartOfImage, ReadHeaderSegment, HeaderOps
    <3>3. CASE ReadNextStartOfScan(seg)
      <4>1. reader.state = "scan_section"
        BY <3>3 DEF ReadNextStartOfScan, IInv, StateFitsCall
      <4> DEFINE no == FALSE
      <4>2. \/ reader' = reader
            \/ seg.marker # "SOF" /\ reader' = ReadMarkerSegment(reader, seg, no, no).reader
        BY <3>3, <4>1 DEF ReadNextStartOfScan, ValidMarker
      <4> HIDE DEF no
      <4> QED  BY <2>1, <3>1, <4>2, OtherSegment
    <3>4. CASE ReadStartOfScan(seg)
      <4>1. reader' = ReadScanParameters(reader, seg).reader /\ seg.marker = "SOS"
        BY <3>4 DEF ReadStartOfScan
      <4> QED  BY <2>1, <3>1, <4>1, ScanSegment
    <3> QED  BY <2>5, <3>2, <3>3, <3>4
  <2> QED  BY <2>2, <2>3, <2>4, <2>5 DEF NextDecoder, Running, ReaderStep
<1> QED  BY <1>1, DecoderInvariant, PTL DEF Spec, FrameIsFixed
=============================================================================
