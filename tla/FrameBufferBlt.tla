--------------------------- MODULE FrameBufferBlt ---------------------------
(***************************************************************************)
(* Block transfers to, from and within a frame buffer (FrameBufferBltLib),  *)
(* as SimpleFbDxe uses them: one configuration made when the driver starts, *)
(* then calls of Blt, each at TPL_NOTIFY and so one step.  Memory is bytes, *)
(* addressed from the start of the frame buffer, because the wide fill, the *)
(* scan line's padding and the bitmap's Delta are about bytes.  A colour    *)
(* mask covers one byte of a pixel.  Coordinates are far from 2^64.         *)
(* WriteBackInvalidateDataCacheRange and the logging are left out.          *)
(***************************************************************************)
EXTENDS Integers

CONSTANTS
    Sizes,        \* PcdMipiFrameBufferWidth and ...Height
    Infos,        \* other EFI_GRAPHICS_OUTPUT_MODE_INFORMATION the library takes
    MemorySize,   \* bytes from the frame buffer on: it and what follows it
    Bitmaps,      \* callers' BltBuffers: the bytes, by address
    Calls,        \* arguments of Blt
    MaxCalls,     \* bound: calls of Blt
    MemoryFails   \* may AllocatePool fail

\* What SimpleFbDxe says of its screen: blue, green, red and a reserved byte.
\* masks gives the byte of red, green and blue in a pixel, reserved the fourth.
SimpleFbInfo(width, height) ==
    [HorizontalResolution |-> width, VerticalResolution |-> height,
     PixelsPerScanLine |-> width, masks |-> <<2, 1, 0>>, reserved |-> 3]
Screens == {SimpleFbInfo(s[1], s[2]) : s \in Sizes} \cup Infos

EmptyRectangle(c) == c.Width = 0 \/ c.Height = 0

\* How far apart the rows of the caller's bitmap are, Delta bytes or no more than
\* the rectangle's width, and where its pixel (x, y) is.
RowOf(c) == IF c.Delta = 0 THEN c.Width * 4 ELSE c.Delta
InBitmap(c, x, y) == y * RowOf(c) + x * 4

\* The corner of the bitmap that a call has to be given: one pixel to fill with,
\* or what reaches to the far end of the rectangle.
Given(c) ==
    IF c.op = "VideoFill" THEN {<<0, 0>>}
    ELSE IF c.op = "BufferToVideo"
         THEN (0..(c.SourceX + c.Width - 1)) \X (0..(c.SourceY + c.Height - 1))
    ELSE IF c.op = "VideoToBltBuffer"
         THEN (0..(c.DestinationX + c.Width - 1)) \X (0..(c.DestinationY + c.Height - 1))
    ELSE {}

\* Assumed by an instance: memory goes on for a line behind the screen, where a copy
\* from the last line begins to read; a screen's three colours are in three bytes,
\* and it is not a single column; a caller's rows do not overlap (Delta is "the
\* number of bytes in a row", FrameBufferBltLib.c:650), and his bitmap holds his
\* rectangle.
BltAssumption ==
    /\ MemorySize \in Nat /\ MaxCalls \in Nat
    /\ MemoryFails \in BOOLEAN
    /\ \A i \in Screens :
         /\ {i.HorizontalResolution, i.VerticalResolution} \subseteq Nat
         /\ i.PixelsPerScanLine \in Nat \ {0, 1}
         /\ i.PixelsPerScanLine * (i.VerticalResolution + 1) * 4 <= MemorySize
         /\ i.masks \in [1..3 -> 0..3] /\ i.reserved \in 0..3
         /\ \A j, k \in 1..3 : i.masks[j] = i.masks[k] => j = k
    /\ \A b \in Bitmaps : b \in [DOMAIN b -> Int]
    /\ \A c \in Calls :
         /\ c.op \in {"VideoFill", "BufferToVideo", "VideoToBltBuffer", "VideoToVideo"}
         /\ {c.SourceX, c.SourceY, c.DestinationX, c.DestinationY} \subseteq Nat
         /\ {c.Width, c.Height, c.Delta} \subseteq Nat
         /\ c.Delta = 0 \/ c.Delta >= c.Width * 4
         /\ \A b \in Bitmaps, p \in Given(c) : EmptyRectangle(c)
              \/ InBitmap(c, p[1], p[2])..(InBitmap(c, p[1], p[2]) + 3) \subseteq DOMAIN b

VARIABLES
    installed,    \* GRAPHICS_OUTPUT is installed
    configure,    \* mFrameBufferBltLibConfigure
    memory,       \* byte of each address
    bitmap,       \* BltBuffer of the callers
    calls         \* calls made

vars == <<installed, configure, memory, bitmap, calls>>

NotConfigured == [BytesPerPixel |-> 0]

FrameBufferBltLibConfigurePixelFormat(info) ==
    1 + CHOOSE b \in {info.masks[i] : i \in 1..3} \cup {info.reserved} :
            \A c \in {info.masks[i] : i \in 1..3} \cup {info.reserved} : c <= b

\* FrameBufferBltConfigure into a buffer with room for a line of size bytes.
FrameBufferBltConfigure(info, size) ==
    LET bytes == FrameBufferBltLibConfigurePixelFormat(info)
        line == info.HorizontalResolution * bytes
    IN  CASE info.PixelsPerScanLine < info.HorizontalResolution ->
               [status |-> "UNSUPPORTED", size |-> size, made |-> NotConfigured]
          [] info.PixelsPerScanLine >= info.HorizontalResolution /\ size < line ->
               [status |-> "BUFFER_TOO_SMALL", size |-> line, made |-> NotConfigured]
          [] OTHER ->
               [status |-> "SUCCESS", size |-> size, made |->
                  [Width |-> info.HorizontalResolution, Height |-> info.VerticalResolution,
                   PixelsPerScanLine |-> info.PixelsPerScanLine, BytesPerPixel |-> bytes,
                   masks |-> info.masks, bgr |-> info.masks = <<2, 1, 0>> /\ info.reserved = 3]]

-----------------------------------------------------------------------------
\* n bytes of data, a function of 0 .. n - 1, put at address to.
CopyMem(mem, to, data, n) ==
    [a \in DOMAIN mem |-> IF a \in to..(to + n - 1) THEN data[a - to] ELSE mem[a]]
Bytes(mem, from, n) == [k \in 0..(n - 1) |-> mem[from + k]]

\* Rows of n bytes one after the other, row k of data at address to[k].
CopyRows(mem, height, to, data, n) ==
    LET copied[k \in 0..height] ==
            IF k = 0 THEN mem ELSE CopyMem(copied[k - 1], to[k - 1], data[k - 1], n)
    IN  copied[height]

\* Where pixel (x, y) of the screen is, and how far apart its lines are.
Address(x, y) == configure.BytesPerPixel * (y * configure.PixelsPerScanLine + x)
Stride == configure.BytesPerPixel * configure.PixelsPerScanLine

\* Where the rows of a call's rectangle are.
Rows(c) == 0..(c.Height - 1)
OnScreen(c) == [k \in Rows(c) |-> Address(c.DestinationX, c.DestinationY + k)]

\* A pixel of a BltBuffer (blue, green, red, reserved) as the screen has it,
\* and back: the shifts take byte 3 - i to the byte of colour i's mask.
ToVideo(pixel) ==
    [k \in 0..3 |-> IF \E i \in 1..3 : configure.masks[i] = k
                    THEN pixel[3 - CHOOSE i \in 1..3 : configure.masks[i] = k]
                    ELSE 0]
FromVideo(pixel) == [k \in 0..3 |-> IF k = 3 THEN 0 ELSE pixel[configure.masks[3 - k]]]

\* WideFill, eight bytes, and whether it can be used.
AllEqual(pixel) == \A k \in 1..(configure.BytesPerPixel - 1) : pixel[k] = pixel[0]
Divides == 8 % configure.BytesPerPixel = 0
UseWideFill(pixel) == Divides \/ AllEqual(pixel)
WideFill(pixel) ==
    [k \in 0..7 |-> IF Divides THEN pixel[k % configure.BytesPerPixel]
                    ELSE IF AllEqual(pixel) THEN pixel[0]
                    ELSE IF k < 4 THEN pixel[k] ELSE 0]

\* One row of a fill: eight bytes at a time where the address allows it, and
\* otherwise from the line buffer.
FilledRow(pixel, to, n) ==
    IF UseWideFill(pixel) /\ to % 8 = 0
    THEN [k \in 0..(n - 1) |-> WideFill(pixel)[k % 8]]
    ELSE [k \in 0..(n - 1) |-> pixel[k % configure.BytesPerPixel]]

\* All rows at once, four bytes at a time and the rest with the first byte.
OneShot(pixel, n) ==
    LET words == IF n >= 8 THEN n - (n % 4) ELSE 0
    IN  [k \in 0..(n - 1) |-> IF k < words THEN WideFill(pixel)[k % 4] ELSE WideFill(pixel)[0]]

\* Mutant of PastScreen: without the test of the rows.
PastScreenAside(x, y, c) == x + c.Width > configure.Width

\* A rectangle that leaves the screen.
PastScreen(x, y, c) == y + c.Height > configure.Height \/ x + c.Width > configure.Width
WidthInBytes(c) == c.Width * configure.BytesPerPixel

VideoFill(c) ==
    LET pixel == ToVideo(Bytes(bitmap, 0, 4))
        n == WidthInBytes(c)
    IN  IF UseWideFill(pixel) /\ c.DestinationX = 0 /\ c.Width = configure.PixelsPerScanLine
        THEN CopyMem(memory, Address(0, c.DestinationY), OneShot(pixel, n * c.Height), n * c.Height)
        ELSE CopyRows(memory, c.Height, OnScreen(c),
                      [k \in Rows(c) |-> FilledRow(pixel, OnScreen(c)[k], n)], n)

\* Row by row, straight into the bitmap or pixel by pixel out of the line buffer.
ReadRow(c, k) ==
    LET line == Bytes(memory, Address(c.SourceX, c.SourceY + k), WidthInBytes(c))
    IN  IF configure.bgr THEN line
        ELSE [b \in 0..(c.Width * 4 - 1) |->
                FromVideo([m \in 0..3 |-> IF m < configure.BytesPerPixel
                    THEN line[(b \div 4) * configure.BytesPerPixel + m] ELSE 0])[b % 4]]
VideoToBltBuffer(c) ==
    CopyRows(bitmap, c.Height,
             [k \in Rows(c) |-> InBitmap(c, c.DestinationX, c.DestinationY + k)],
             [k \in Rows(c) |-> ReadRow(c, k)], c.Width * 4)

\* A blue-green-red row is taken from the bitmap's row as it is: SourceX is not
\* looked at.
GivenRow(c, k) ==
    IF configure.bgr THEN Bytes(bitmap, InBitmap(c, 0, c.SourceY + k), WidthInBytes(c))
    ELSE [b \in 0..(WidthInBytes(c) - 1) |->
            ToVideo(Bytes(bitmap, InBitmap(c, c.SourceX + b \div configure.BytesPerPixel,
                                           c.SourceY + k), 4))
                [b % configure.BytesPerPixel]]
BltBufferToVideo(c) ==
    CopyRows(memory, c.Height, OnScreen(c), [k \in Rows(c) |-> GivenRow(c, k)], WidthInBytes(c))

\* Downwards from the first row, or upwards from the row below the last one.
VideoToVideo(c) ==
    LET source == Address(c.SourceX, c.SourceY)
        destination == Address(c.DestinationX, c.DestinationY)
        offset(k) == IF destination > source THEN (c.Height - k) * Stride ELSE k * Stride
        copied[k \in 0..c.Height] ==
            IF k = 0 THEN memory
            ELSE CopyMem(copied[k - 1], destination + offset(k - 1),
                         Bytes(copied[k - 1], source + offset(k - 1), WidthInBytes(c)),
                         WidthInBytes(c))
    IN  copied[c.Height]

-----------------------------------------------------------------------------
\* FrameBufferBlt, its four operations' tests first: the status, and what
\* memory and bitmap become.
Refused(c) ==
    \/ configure = NotConfigured
    \/ EmptyRectangle(c)
    \/ c.op \in {"VideoToBltBuffer", "VideoToVideo"} /\ PastScreen(c.SourceX, c.SourceY, c)
    \/ c.op # "VideoToBltBuffer" /\ PastScreen(c.DestinationX, c.DestinationY, c)
MemoryAfter(c) ==
    CASE Refused(c) \/ c.op = "VideoToBltBuffer" -> memory
      [] c.op = "VideoFill" /\ ~Refused(c) -> VideoFill(c)
      [] c.op = "BufferToVideo" /\ ~Refused(c) -> BltBufferToVideo(c)
      [] c.op = "VideoToVideo" /\ ~Refused(c) -> VideoToVideo(c)
BitmapAfter(c) ==
    IF c.op = "VideoToBltBuffer" /\ ~Refused(c) THEN VideoToBltBuffer(c) ELSE bitmap

Init ==
    /\ installed = FALSE /\ configure = NotConfigured /\ calls = 0
    /\ memory = [a \in 0..(MemorySize - 1) |-> 9]
    /\ bitmap \in Bitmaps

\* A first FrameBufferBltConfigure asks for the size, a second one configures
\* unless there is no memory; the display is cleared and installed in any case.
SimpleFbDxeInitialize ==
    /\ ~installed /\ installed' = TRUE
    /\ \E info \in Screens, granted \in {TRUE} \cup {~MemoryFails} :
          LET asked == FrameBufferBltConfigure(info, 0)
          IN  /\ configure' = IF asked.status = "BUFFER_TOO_SMALL" /\ granted
                              THEN FrameBufferBltConfigure(info, asked.size).made
                              ELSE NotConfigured
              /\ memory' = CopyMem(memory, 0, [a \in DOMAIN memory |-> 0],
                                   info.HorizontalResolution * 4 * info.VerticalResolution)
    /\ UNCHANGED <<bitmap, calls>>

DisplayBlt(c) ==
    /\ installed /\ calls < MaxCalls /\ calls' = calls + 1
    /\ memory' = MemoryAfter(c) /\ bitmap' = BitmapAfter(c)
    /\ UNCHANGED <<installed, configure>>

Next == SimpleFbDxeInitialize \/ \E c \in Calls : DisplayBlt(c)
Spec == Init /\ [][Next]_vars

-----------------------------------------------------------------------------
TypeOK ==
    /\ installed \in BOOLEAN /\ calls \in 0..MaxCalls
    /\ memory \in [0..(MemorySize - 1) -> Int] /\ \A a \in DOMAIN bitmap : bitmap[a] \in Int
    /\ configure = NotConfigured \/ configure.BytesPerPixel \in 1..4

\* What a rectangle of pixels means: the colours (blue, green, red) of the
\* screen's pixel (x, y) and of the bitmap's.
Points == (0..(configure.Width - 1)) \X (0..(configure.Height - 1))
Colours(mem, x, y) ==
    [k \in 0..2 |-> mem[Address(x, y) + configure.masks[3 - k]]]
BitmapColours(map, c, x, y) == [k \in 0..2 |-> map[InBitmap(c, x, y) + k]]
Inside(c, p) ==
    /\ p[1] \in c.DestinationX..(c.DestinationX + c.Width - 1)
    /\ p[2] \in c.DestinationY..(c.DestinationY + c.Height - 1)
Painted(c, p) ==
    LET x == p[1] - c.DestinationX + c.SourceX
        y == p[2] - c.DestinationY + c.SourceY
    IN  CASE c.op = "VideoFill" -> [k \in 0..2 |-> bitmap[k]]
          [] c.op = "BufferToVideo" -> BitmapColours(bitmap, c, x, y)
          [] c.op = "VideoToVideo" -> Colours(memory, x, y)
          [] OTHER -> Colours(memory, p[1], p[2])
Exact(c) ==
    LET after == MemoryAfter(c)
        changes == {p \in Points : ~Refused(c) /\ c.op # "VideoToBltBuffer" /\ Inside(c, p)}
    IN  /\ \A p \in Points :
              Colours(after, p[1], p[2]) =
                 IF p \in changes THEN Painted(c, p) ELSE Colours(memory, p[1], p[2])
        /\ \A a \in DOMAIN memory :
              \/ after[a] = memory[a]
              \/ \E p \in changes : a - Address(p[1], p[2]) \in 0..(configure.BytesPerPixel - 1)
        /\ c.op = "VideoToBltBuffer" /\ ~Refused(c) =>
              \A x \in 0..(c.Width - 1), y \in 0..(c.Height - 1) :
                 BitmapColours(BitmapAfter(c), c, c.DestinationX + x, c.DestinationY + y)
                    = Colours(memory, c.SourceX + x, c.SourceY + y)

\* Copying up the screen (or to the left) is what scrolling does: the library
\* copies from the last line otherwise.
CopiesBack(c) ==
    /\ c.op = "VideoToVideo"
    /\ Address(c.DestinationX, c.DestinationY) > Address(c.SourceX, c.SourceY)
SkipsColumns(c) == c.op = "BufferToVideo" /\ configure.bgr /\ c.SourceX # 0

\* A call puts into its rectangle exactly what its source shows, pixel by pixel,
\* whatever the pixel format, the padding of a line, the width the fill works
\* with and the overlap of a scroll; outside of the rectangle no byte changes.
\* Of what FrameBufferBlt promises this leaves out a copy to a higher address
\* (CopyExact) and a column offset into a blue-green-red caller's bitmap.
BltExact ==
    configure # NotConfigured =>
        \A c \in Calls : ~CopiesBack(c) /\ ~SkipsColumns(c) => Exact(c)

\* The comment on the copy from the last line: the source is not corrupted by
\* copying, so the rectangle that was there arrives (FrameBufferBltLib.c:612).
CopyExact ==
    configure # NotConfigured => \A c \in Calls : CopiesBack(c) => Exact(c)
=============================================================================
