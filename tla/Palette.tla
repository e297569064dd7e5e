-------------------------------- MODULE Palette --------------------------------
(***************************************************************************)
(* The colours of regirfb (src/src/utils/regirfb/framebuf.cpp): a pixel of *)
(* the frame buffer becomes the index of a palette of 256 colours, so that *)
(* a frame takes a byte per pixel.  A colour is its three bytes in the     *)
(* order they lie in memory, which is that of a BMP palette as well.       *)
(***************************************************************************)
EXTENDS Integers, Sequences

Byte   == 0 .. 255
Colour == Byte \X Byte \X Byte

\* The members r, g and b, in this order, of RGBQuad(_b, _g, _r).
RGBQuad(b, g, r) == <<r, g, b>>

kRGBWeight == <<28, 151, 77>>

Weighted(c, w) == c[1] * w[1] + c[2] * w[2] + c[3] * w[3]

GetId(c) == (Weighted(c, kRGBWeight) \div 256) % 256

\* Mutant: the weights of the first and the third byte are exchanged.
IndexSwapped(c) == (Weighted(c, <<77, 151, 28>>) % 65536) \div 256

\* Convert24ToPalette and Convert32ToPalette: a lane of 16 bits, its upper half.
Index(c) == (Weighted(c, kRGBWeight) % 65536) \div 256

kColors == <<
  RGBQuad(0, 0, 0),       RGBQuad(255, 255, 255), RGBQuad(189, 195, 199),
  RGBQuad(236, 240, 241), RGBQuad(127, 140, 141), RGBQuad(149, 165, 166),
  RGBQuad(225, 225, 225), RGBQuad(150, 75, 0),    RGBQuad(231, 76, 60),
  RGBQuad(225, 129, 128), RGBQuad(255, 153, 0),   RGBQuad(255, 218, 0),
  RGBQuad(255, 255, 156), RGBQuad(85, 187, 119),  RGBQuad(153, 255, 119),
  RGBQuad(41, 128, 185),  RGBQuad(0, 191, 255),   RGBQuad(210, 0, 255),
  RGBQuad(199, 103, 219), RGBQuad(52, 73, 94),    RGBQuad(44, 62, 80),
  RGBQuad(99, 225, 255),  RGBQuad(246, 165, 0) >>

\* The colours of kColors that GeneratePalette puts at index i.
At(i) == {n \in DOMAIN kColors : GetId(kColors[n]) = i}

\* RGBIter makes the palette grey, GeneratePalette overwrites; the last stays.
palette == [i \in Byte |->
  IF At(i) = {} THEN RGBQuad(i, i, i)
                ELSE kColors[CHOOSE n \in At(i) : \A k \in At(i) : k <= n]]

\* What a page shows for a pixel.
Shown(c) == palette[Index(c)]
=============================================================================
