--------------------------- MODULE MCJpegLSDecoder ---------------------------
(* The streams that JpegLSDecoder is checked on.                           *)
EXTENDS JpegLSDecoder

Marker(name) == [marker |-> name]
Frame(bits, ids, badSampling) ==
  [marker |-> "SOF", bits |-> bits, ids |-> ids, badSampling |-> badSampling, defect |-> FALSE]
BadFrame == [Frame(8, <<1>>, 0) EXCEPT !.defect = TRUE]
Preset(maximum) ==
  [marker |-> "LSE", preset |-> [NoPreset EXCEPT !.maxval = maximum], defect |-> FALSE]
BadPreset == [Preset(0) EXCEPT !.defect = TRUE]
Application8(kind) == [marker |-> "APP8", kind |-> kind, value |-> "hp1"]
Scan(near, mode) ==
  [marker |-> "SOS", near |-> near, mode |-> mode, data |-> "good", defect |-> "none"]

Marks == {Marker("SOI"), Marker("EOI"), Marker("COM"), Marker("noise")}

\* One and three components, a depth that a transformation does not take, NEAR
\* and largest sample values on both sides of their limits, and each defect.
AllSegments ==
  Marks \cup
  {Frame(8, <<1>>, 0), Frame(4, <<1, 2, 3>>, 0), Frame(8, <<1, 2, 1>>, 0), Frame(8, <<4, 5>>, 2),
   BadFrame, Preset(15), Preset(300), BadPreset,
   Application8("transformation"), Application8("badTransformation"),
   Application8("spiff"), Application8("entry"), Application8("endOfDirectory"),
   Application8("short"),
   Scan(0, "none"), Scan(5, "none"), Scan(9, "none"), Scan(0, "sample"),
   [Scan(0, "none") EXCEPT !.defect = "early"], [Scan(0, "none") EXCEPT !.defect = "late"],
   [Scan(0, "none") EXCEPT !.data = "bad"]}

\* Streams of a client that handles every image: more of them, of fewer kinds.
ImageSegments ==
  {Marker("SOI"), Marker("EOI"), Frame(8, <<1, 2, 3>>, 0), Preset(100),
   Application8("spiff"), Application8("endOfDirectory"),
   Scan(0, "none"), Scan(0, "line")}

AnyStreams ==
  [any    |-> [segments |-> AllSegments, length |-> 10],
   images |-> [segments |-> ImageSegments, length |-> 14]]

ImageStreams == [images |-> [segments |-> ImageSegments, length |-> 8]]

\* With a preset that does not fit the frame.
PresetStreams == [images |-> [segments |-> ImageSegments \cup {Preset(300)}, length |-> 8]]
=============================================================================
