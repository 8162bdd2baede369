---------------------------- MODULE JpegLSDecoder ----------------------------
(***************************************************************************)
(* charls_jpegls_decoder (charls_jpegls_decoder.cpp): the object an        *)
(* application decodes with.  It keeps where the application is in the     *)
(* sequence source, read_spiff_header, read_header, decode, and calls the  *)
(* JpegStreamReader.  A call that the sequence does not allow throws       *)
(* invalid_operation and changes nothing: it is no action here.            *)
(***************************************************************************)
EXTENDS JpegStreamReader

CONSTANT
  Retry   \* the application goes on using the decoder after a call that threw

ASSUME RetryAssumption == Retry \in BOOLEAN

VARIABLE api   \* charls_jpegls_decoder::state_

vars == <<readerVars, api>>

ApiStates == {"initial", "source_set", "spiff_header_read",
              "spiff_header_not_found", "header_read"}

Idle == call.op = "idle"
MayCall == Idle /\ (call.outcome = "ok" \/ Retry)

InitDecoder == Init /\ api = "initial"

Begin(op, client) ==
  call' = [NoCall EXCEPT !.op = op, !.client = client]

\* source(): sets the source buffer and makes the reader.
SetSource ==
  /\ MayCall /\ api = "initial"
  /\ api' = "source_set"
  /\ UNCHANGED readerVars

\* ReadHeader of the reader begins with an assertion.
AssertBeforeScan ==
  asserts' = IF reader.state # "scan_section" THEN asserts ELSE asserts \cup {88}

\* read_header(spiff_header*): for an application that wants a SPIFF header.
ReadSpiffHeader ==
  /\ MayCall /\ api = "source_set"
  /\ Begin("ReadHeader", "spiff") /\ AssertBeforeScan
  /\ UNCHANGED <<api, reader, source, planes, history>>

HeaderStillToRead == api # "spiff_header_not_found"

\* read_header(): the rest of the header, which a search for a SPIFF header
\* that found none has read already.
ReadHeader ==
  /\ MayCall /\ api \in {"source_set", "spiff_header_read", "spiff_header_not_found"}
  /\ IF HeaderStillToRead
     THEN Begin("ReadHeader", "header") /\ AssertBeforeScan
     ELSE Begin("ReadStartOfScan", "header") /\ UNCHANGED asserts
  /\ UNCHANGED <<api, reader, source, planes, history>>

\* decode(): const in the code, the state stays header_read.  Each call gets a
\* destination of its own.
Decode ==
  /\ MayCall /\ api = "header_read"
  /\ Begin("Read", "decode")
  /\ planes' = NoPlanes
  /\ UNCHANGED <<api, reader, source, asserts, history>>

\* ReadHeader of the reader returned: back in the caller.
HeaderRead ==
  /\ call.op = "headerRead"
  /\ IF call.client = "spiff"
     THEN /\ api' = IF call.found THEN "spiff_header_read" ELSE "spiff_header_not_found"
          /\ call' = Returned("ok")
     ELSE /\ call' = [call EXCEPT !.op = "ReadStartOfScan"]
          /\ UNCHANGED api
  /\ UNCHANGED <<reader, source, planes, asserts, history>>

\* A call returns to the application.  What a decode was given and filled is
\* kept until the next one.
Return ==
  /\ call.op = "returned"
  /\ call' = [call EXCEPT !.op = "idle"]
  /\ api' = IF call.client = "header" /\ call.outcome = "ok" THEN "header_read" ELSE api
  /\ UNCHANGED <<reader, source, planes, asserts, history>>

\* The application stops calling.
Stop == Idle /\ UNCHANGED vars

Running == (ReaderStep /\ UNCHANGED api) \/ HeaderRead \/ Return

NextDecoder ==
  \/ SetSource \/ ReadSpiffHeader \/ ReadHeader \/ Decode
  \/ Running \/ Stop

\* The code of a call that was made keeps running.
Spec == InitDecoder /\ [][NextDecoder]_vars /\ WF_vars(Running)

-----------------------------------------------------------------------------
(* Properties.                                                             *)

\* The members stay in their types; a decode counts no component that the frame
\* does not have.
TypeOK ==
  /\ api \in ApiStates
  /\ reader.state \in ReaderStates
  /\ reader.mode \in Modes /\ reader.transformation \in Transformations
  /\ source.read \in 0..MaxSegments /\ source.ended \in BOOLEAN
  /\ call.outcome \in {"ok", "error"} /\ call.found \in BOOLEAN
  /\ call.component \in 0..reader.frame.components
  /\ planes \in [1..MaxComponents -> 0..MaxSegments]
  /\ asserts \subseteq {33, 88, 614}

\* The decoder reports a header only when the reader went through one start of
\* image and one frame, and to the end of the directory of a SPIFF header that
\* came before the frame: whatever the order of the calls, and however often a
\* call that threw was tried again.
HeaderIsComplete ==
  api = "header_read" =>
    /\ history.soi = 1 /\ history.sof = 1 /\ history.scans > 0
    /\ history.spiff => history.eod

\* A scan is only decoded with a NEAR that its largest sample value allows and,
\* while no assertion failed, a largest sample value that fits the frame.
ScanParametersFit ==
  (api = "header_read" /\ reader.state = "bit_stream_section") =>
    /\ reader.near <= MaximumNearLossless(maximum_sample_value(reader))
    /\ asserts = {} => is_maximum_sample_value_valid(reader)

\* A decode that succeeds has filled every plane of the frame: all from one scan
\* when it is interleaved, else each from the next scan.  Decodes that ran into
\* an assertion, or met a change of mode, are the subject of runs of their own.
PlanesMatchScans ==
  ( /\ call.op = "returned" /\ call.client = "decode" /\ call.outcome = "ok"
    /\ call.mode = reader.mode /\ asserts = {} ) =>
      \A p \in 1..reader.frame.components :
        planes[p] = IF reader.mode = "none"
                    THEN history.scans - reader.frame.components + p
                    ELSE history.scans

\* The frame that the decoder reports never changes, whatever follows in the
\* stream and whatever the decoder is asked to do again.
FrameIsFixed == [][api = "header_read" => reader'.frame = reader.frame]_vars

\* A call returns: the reader cannot go on for ever.
CallsReturn == (call.op # "idle") ~> (call.op = "idle")

\* The ASSERT of Read (jpeg_stream_reader.cpp:33): it is only called in front of
\* the bits of a scan.
ReadAssertHolds == 33 \notin asserts

\* The ASSERT of ReadHeader (jpeg_stream_reader.cpp:88): it is not called again
\* once the header was read up to the scan.
HeaderAssertHolds == 88 \notin asserts

\* The ASSERT of maximum_sample_value (jpeg_stream_reader.cpp:614): the preset was
\* checked before a scan uses it.
PresetAssertHolds == 614 \notin asserts

\* charls.h:148: the preset coding parameters that the decoder reports are those
\* of the first scan.
PresetOfFirstScan == [][api = "header_read" => reader'.preset = reader.preset]_vars

\* charls_jpegls_decoder.cpp:82: the first scan determines the interleave mode.
ModeOfFirstScan == [][api = "header_read" => reader'.mode = reader.mode]_vars

=============================================================================
