--------------------------- MODULE MCImageTransfer ---------------------------
(* The images that ImageTransfer is checked on.                            *)
EXTENDS ImageTransfer

Memory(stride, missing) == [kind |-> "memory", stride |-> stride, missing |-> missing]
Stream(missing) == [kind |-> "stream", stride |-> 0, missing |-> missing]

Whole == [x |-> 0, y |-> 0, width |-> 0, height |-> 0]
Inner == [x |-> 1, y |-> 1, width |-> 2, height |-> 1]
Corner == [x |-> 0, y |-> 1, width |-> 1, height |-> 2]

\* Samples that differ from their neighbours in the image and in the pixel.
Pattern(bits, components, width, height) ==
  [y \in 1..height |-> [x \in 1..width |-> [c \in 1..components |->
     (7 * x + 13 * y + 5 * c + 37 * x * y * c) % 2^bits]]]

Image(bits, components, mode) ==
  [width |-> 3, height |-> 3, bits |-> bits, components |-> components,
   mode |-> mode, transformation |-> "none",
   samples |-> Pattern(bits, components, 3, 3),
   source |-> Memory(0, 0),
   destination |-> [kind |-> "memory", stride |-> 0, count |-> 0],
   rect |-> Whole, bgr |-> FALSE]

\* The size of a decoded image, or of a region, without padding.
SizeOf(i) ==
  LET whole == i.rect.width = 0
  IN  (IF whole THEN i.width ELSE i.rect.width) * (IF whole THEN i.height ELSE i.rect.height)
        * i.components * ((i.bits + ByteBits - 1) \div ByteBits)

\* The end of the last line of one plane, or of interleaved samples, with a stride.
SizeWithStride(i) ==
  LET height == IF i.rect.width = 0 THEN i.height ELSE i.rect.height
  IN  (height - 1) * i.destination.stride + SizeOf(i) \div height

Layouts ==
  {Image(b, c, "none") : b \in {ByteBits, 2 * ByteBits}, c \in {1, 2, 3}}
  \cup {Image(b, c, m) : b \in {ByteBits, ByteBits + 2}, c \in {3, 4}, m \in {"line", "sample"}}

Regions(i) == {[i EXCEPT !.rect = r] : r \in {Whole, Inner, Corner}}

\* One plane, or samples that are interleaved: strides are for these.
OnePlane(i) == i.mode # "none" \/ i.components = 1

\* The destination: of the size needed or one byte smaller; with a stride also of the
\* size without it, which Read accepts.  A stream is for the whole image.
Destinations(i) ==
  {[i EXCEPT !.destination = [kind |-> k, stride |-> 0, count |-> SizeOf(i) - s]] :
     k \in {"memory"} \cup (IF i.rect = Whole THEN {"stream"} ELSE {}), s \in {0, 1}}
  \cup IF OnePlane(i)
       THEN {[j EXCEPT !.destination.count = size - s] :
               j \in {[i EXCEPT !.destination.stride = 31]},
               size \in {SizeOf(i), SizeWithStride([i EXCEPT !.destination.stride = 31])},
               s \in {0, 1}}
       ELSE {}

\* The source: with all of its bytes, or short of one.
Sources(i) ==
  {[i EXCEPT !.source = s] :
     s \in {Memory(0, 0), Memory(0, 1), Stream(0), Stream(1)}
           \cup (IF OnePlane(i) THEN {Memory(29, 0)} ELSE {})}

Orders(i) == {[i EXCEPT !.bgr = b] :
                b \in IF i.destination.kind = "memory" THEN BOOLEAN ELSE {FALSE}}

LayoutImages ==
  UNION {UNION {UNION {UNION {Orders(s) : s \in Sources(d)} : d \in Destinations(r)}
                : r \in Regions(i)} : i \in Layouts}

\* Images of one pixel, for each transformation.
Pixels(bits, components, samples, transformations) ==
  {[Image(bits, components, "sample") EXCEPT
      !.width = 1, !.height = 1, !.transformation = t,
      !.samples = <<<< <<r, g, b, 1>> >>>>,
      !.destination.count = 8] :
     r \in samples, g \in samples, b \in samples, t \in transformations}

\* Every colour of samples of a byte; of two bytes those around the changes of
\* sign and of carry; of fewer bits with the one transformation that bears it.
Limits(bits) == {0, 1, 2, 3, 2^(bits - 1) - 1, 2^(bits - 1), 2^bits - 2, 2^bits - 1}
Transforms == {"hp1", "hp2", "hp3"}

ColourImages ==
  Pixels(ByteBits, 3, 0..(2^ByteBits - 1), Transforms)
  \cup Pixels(2 * ByteBits, 4, Limits(2 * ByteBits), Transforms)
  \cup Pixels(ByteBits + 2, 3, Limits(ByteBits + 2), {"hp1"})

ManyImages == LayoutImages \cup ColourImages

\* Samples of more bits than a byte and less than two, with the others.
ShiftedImages == Pixels(ByteBits + 2, 3, Limits(ByteBits + 2), {"hp2", "hp3"})

\* Memory with a stride, and the size of an image without padding.
PaddedImages ==
  {[i EXCEPT !.destination = [kind |-> "memory", stride |-> s, count |-> SizeOf(i)]] :
     i \in {j \in Layouts : OnePlane(j)}, s \in {24, 31}}

\* Planes with padding.
StridedPlanes ==
  {[Image(ByteBits, 2, "none") EXCEPT !.destination = [kind |-> "memory", stride |-> 5, count |-> 30]]}

\* The same of a source, in memory and from a stream.
StridedSources ==
  {[Image(ByteBits, 2, "none") EXCEPT !.source = Memory(5, 0), !.destination.count = 18]}
StridedStream ==
  {[Image(ByteBits, 1, "none") EXCEPT !.source = [Stream(0) EXCEPT !.stride = 5],
                                      !.destination.count = 9]}
=============================================================================
