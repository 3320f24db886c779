------------------------------- MODULE Picture -------------------------------
(***************************************************************************)
(* The pixels of an area of the screen on their way to tesseract and to a  *)
(* file: screen::capture (src/bibstd/system/screen_windows.hpp), data::pix *)
(* (data/pix.cpp) and data::save_as_bitmap (data/save_as_bitmap.cpp).      *)
(* A byte of a picture is named by its place in the area, of which the     *)
(* left upper one is <<0, 0>>, and its colour.                             *)
(***************************************************************************)
EXTENDS Integers, Sequences

Plane(width, height, data) == [width |-> width, height |-> height, data |-> data]

\* The members of a pixel in their order, and what the alpha of all of them is.
pixel == <<"red", "green", "blue", "alpha">>
alpha == <<-1, -1, "alpha">>
padding == <<-1, -1, "zero">>

\* The bytes of Windows for a pixel (external).
Colours == <<"blue", "green", "red", "reserved">>

\* What Windows knows of a bitmap (external): the rows from the lowest up, each of
\* which fills whole words of four bytes, and what is left in the buffer behind them.
RowBytes(width, byte_count) == ((width * byte_count + 3) \div 4) * 4
DeviceBytes(width, height, byte_count, left) ==
  LET row == RowBytes(width, byte_count)
  IN  [i \in 0 .. row * height + left - 1 |->
         LET x == (i % row) \div byte_count  y == height - 1 - i \div row
         IN  IF i < row * height /\ x < width THEN <<x, y, Colours[((i % row) % byte_count) + 1]>> ELSE padding]

Pixel(bytes, i) == [red |-> bytes[i + 2], green |-> bytes[i + 1], blue |-> bytes[i], alpha |-> alpha]

\* Variant of capture: the rows are taken as they are in the buffer.
CaptureAsIs(width, height, byte_count, bytes) ==
  Plane(width, height, [index \in 0 .. width * height - 1 |-> Pixel(bytes, index * byte_count)])

\* The buffer is read from its begin, pixel for pixel; the rows are filled from the
\* last to the first.
capture(width, height, byte_count, bytes) ==
  Plane(width, height, [index \in 0 .. width * height - 1 |->
    LET counter == (height - 1 - index \div width) * width + (index % width)
    IN  Pixel(bytes, counter * byte_count)])

-----------------------------------------------------------------------------
\* A pix is its pixels, and what leptonica knows of them.
forward_as_pix(data) == [width |-> data.width, height |-> data.height, words_of_line |-> data.width, data |-> data.data]
pix(data) == [data |-> data, pix |-> forward_as_pix(data), thrown |-> FALSE]

\* update() throws when the new pixels, which it has already, are not enough.
update(object, data) ==
  IF \E i \in 0 .. data.width * data.height - 1 : i \notin DOMAIN data.data
    THEN [object EXCEPT !.data = data, !.thrown = TRUE]
  ELSE [object EXCEPT !.data = data, !.pix = forward_as_pix(data)]

\* Leptonica (external): the four bytes of a word, of which the highest, in the build the
\* last one, is red, then green, then blue.
SeenAt(image, x, y) ==
  LET word == image.data[y * image.words_of_line + x]
  IN  [red |-> word[pixel[4]], green |-> word[pixel[3]], blue |-> word[pixel[2]]]

-----------------------------------------------------------------------------
(* save_as_bitmap.                                                             *)
row_size(width) == width * 3 + (width % 4)

\* Row after row from the last one up, and after each one padding.
bitmap(plane) ==
  [i \in 0 .. row_size(plane.width) * plane.height - 1 |->
     LET row == plane.height - 1 - i \div row_size(plane.width)
         k == i % row_size(plane.width)
     IN  IF k < plane.width * 3 THEN plane.data[plane.width * row + k \div 3][Colours[(k % 3) + 1]] ELSE padding]

bmp_file_magic == 2
bmp_file_header == 4 + 2 + 2 + 4
bmp_file_dib_info == 4 + 4 + 4 + 2 + 2 + 4 + 4 + 4 + 4 + 4 + 4
bmp_offset == bmp_file_magic + bmp_file_header + bmp_file_dib_info

NoFile == [written |-> FALSE]
EmptyFile == [written |-> TRUE, empty |-> TRUE]

\* The result, and the file; of no pixels the file is made and left empty.
save_as_bitmap(plane, extension, opens) ==
  IF extension # ".bmp" \/ ~opens THEN [success |-> FALSE, file |-> NoFile]
  ELSE IF plane.data = << >> THEN [success |-> TRUE, file |-> EmptyFile]
  ELSE [success |-> TRUE,
        file |-> [written |-> TRUE, empty |-> FALSE, bmp_offset |-> bmp_offset,
                  file_size |-> bmp_offset + row_size(plane.width) * plane.height,
                  width |-> plane.width, height |-> plane.height, bits_per_pixel |-> 24,
                  bitmap |-> bitmap(plane)]]

-----------------------------------------------------------------------------
\* What a plane has of a pixel of the screen, and that its lines are those of the screen
\* from the upper one down, or from the lower one up.
PixelAt(x, y) == [red |-> <<x, y, "red">>, green |-> <<x, y, "green">>, blue |-> <<x, y, "blue">>, alpha |-> alpha]
UpperLineFirst(plane) ==
  \A x \in 0 .. plane.width - 1, y \in 0 .. plane.height - 1 :
    plane.data[y * plane.width + x] = PixelAt(x, y)
LowerLineFirst(plane) ==
  \A x \in 0 .. plane.width - 1, y \in 0 .. plane.height - 1 :
    plane.data[(plane.height - 1 - y) * plane.width + x] = PixelAt(x, y)

\* Tesseract sees each pixel of the screen at its place.  But for their order the colours
\* are those of the screen too: green and blue are swapped, and red is taken for the alpha.
Upright(object) ==
  /\ ~object.thrown
  /\ \A x \in 0 .. object.pix.width - 1, y \in 0 .. object.pix.height - 1 :
       SeenAt(object.pix, x, y) = [red |-> alpha, green |-> <<x, y, "blue">>, blue |-> <<x, y, "green">>]

\* The file is the bitmap of Windows with three bytes for a pixel, as long as its header
\* says, 54 bytes of which are the headers; without success there is none.
SavedAsShown(plane, extension, opens) ==
  LET saved == save_as_bitmap(plane, extension, opens)
  IN  /\ saved.success <=> saved.file.written
      /\ saved.success /\ ~saved.file.empty =>
           LET bytes == DeviceBytes(saved.file.width, saved.file.height, saved.file.bits_per_pixel \div 8, 0)
               length == RowBytes(plane.width, 3) * plane.height
           IN  saved.file.bitmap = bytes /\ saved.file.file_size = 54 + length /\ saved.file.bmp_offset = 54
=============================================================================
