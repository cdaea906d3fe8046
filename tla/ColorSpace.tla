------------------------------ MODULE ColorSpace -----------------------------
(***************************************************************************)
(* The arithmetic of the picture: the averages of the debayer filter       *)
(* (debayer_filter.v) and the conversion to YUV (rgb_to_yuv.v), in the     *)
(* widths the Verilog expressions have, beside the plain integer formulas  *)
(* of Tools/rgb_to_yuv.c they were tried out with.                         *)
(*                                                                         *)
(* Verilog computes with 32-bit words without a sign: a sum below zero     *)
(* wraps, and the shift fills with zeros.  The formulas of the tool shift  *)
(* with a sign, which is division rounded down.                            *)
(***************************************************************************)
EXTENDS Integers, TLAPS

Colour == {n \in Nat : n < 1024}       \* 10 bits
Word32(x) == x % 4294967296
Low8(x) == x % 256
Shift10(x) == x \div 1024

(* debayer_filter: four colours are added in 12 bits and shifted by two.     *)
Average(a, b, c, d) == ((a + b + c + d) % 4096) \div 4

(* rgb_to_yuv, as synthesised.                                               *)
LumaSum(r, g, b) == 77 * r + 150 * g + 29 * b + 128
USum(r, g, b) == 127 * b - 43 * r - 84 * g + 128
VSum(r, g, b) == 127 * r - 106 * g - 21 * b + 128

Y(r, g, b) == Low8(Shift10(Word32(LumaSum(r, g, b))))
U(r, g, b) == Low8(Word32(Shift10(Word32(USum(r, g, b))) + 128))
V(r, g, b) == Low8(Word32(Shift10(Word32(VSum(r, g, b))) + 128))

(* Tools/rgb_to_yuv.c.                                                       *)
ToolY(r, g, b) == Shift10(LumaSum(r, g, b))
ToolU(r, g, b) == Shift10(USum(r, g, b)) + 128
ToolV(r, g, b) == Shift10(VSum(r, g, b)) + 128

-----------------------------------------------------------------------------
(* The average of four pixels lies between the darkest and the brightest:    *)
(* the twelve bits of debayer_filter.v:327-342 hold every sum, and a flat    *)
(* area stays flat.                                                          *)
THEOREM AverageBetween ==
  ASSUME NEW lo \in Colour, NEW hi \in Colour,
         NEW a \in lo..hi, NEW b \in lo..hi, NEW c \in lo..hi, NEW d \in lo..hi
  PROVE  Average(a, b, c, d) \in lo..hi
<1>1. a + b + c + d \in Int /\ 4 * lo <= a + b + c + d /\ a + b + c + d <= 4 * hi
  BY DEF Colour
<1>2. (a + b + c + d) % 4096 = a + b + c + d
  BY <1>1 DEF Colour
<1> QED
  BY <1>1, <1>2 DEF Average, Colour

SmallSum(s) == s \in Int /\ -129793 <= s /\ s <= 130049

(* What the sums of rgb_to_yuv can be.                                       *)
LEMMA SumBounds ==
  ASSUME NEW r \in Colour, NEW g \in Colour, NEW b \in Colour
  PROVE  /\ LumaSum(r, g, b) \in Nat /\ LumaSum(r, g, b) <= 262016
         /\ SmallSum(USum(r, g, b)) /\ SmallSum(VSum(r, g, b))
BY DEF SmallSum, LumaSum, USum, VSum, Colour

(* A wrapped negative sum, shifted without a sign, differs from the signed   *)
(* result by a multiple of 256 once 128 is added.                            *)
LEMMA WrapIsHarmless ==
  ASSUME NEW s, SmallSum(s)
  PROVE  Low8(Word32(Shift10(Word32(s)) + 128)) = Shift10(s) + 128
<1> USE DEF SmallSum
<1>1. Shift10(s) \in Int /\ -127 <= Shift10(s) /\ Shift10(s) <= 127
  BY DEF Shift10
<1>2. CASE s >= 0
  <2>1. Word32(s) = s
    BY <1>2 DEF Word32
  <2>2. Word32(Shift10(s) + 128) = Shift10(s) + 128
    BY <1>1 DEF Word32, Shift10
  <2> QED
    BY <1>1, <2>1, <2>2 DEF Low8
<1>3. CASE s < 0
  <2>1. Word32(s) = s + 4294967296
    BY <1>3 DEF Word32
  <2>2. Shift10(s + 4294967296) = Shift10(s) + 4194304
    BY DEF Shift10
  <2>3. Word32(Shift10(s) + 4194304 + 128) = Shift10(s) + 4194304 + 128
    BY <1>1 DEF Word32, Shift10
  <2>4. Low8(Shift10(s) + 4194304 + 128) = Shift10(s) + 128
    BY <1>1 DEF Low8, Shift10
  <2> QED
    BY <2>1, <2>2, <2>3, <2>4
<1> QED
  BY <1>2, <1>3

(* The hardware computes what the tool computes, for every pixel: neither    *)
(* the missing sign nor the cut to eight bits changes a result.              *)
THEOREM HardwareIsTool ==
  ASSUME NEW r \in Colour, NEW g \in Colour, NEW b \in Colour
  PROVE  /\ Y(r, g, b) = ToolY(r, g, b)
         /\ U(r, g, b) = ToolU(r, g, b)
         /\ V(r, g, b) = ToolV(r, g, b)
<1>1. Y(r, g, b) = ToolY(r, g, b)
  <2> DEFINE s == LumaSum(r, g, b)
  <2>1. s \in Nat /\ s <= 262016
    BY SumBounds
  <2> HIDE DEF s
  <2>2. Word32(s) = s
    BY <2>1 DEF Word32
  <2>3. Low8(Shift10(s)) = Shift10(s)
    BY <2>1 DEF Low8, Shift10
  <2> QED
    BY <2>2, <2>3 DEF Y, ToolY, s
<1>2. U(r, g, b) = ToolU(r, g, b)
  BY SumBounds, WrapIsHarmless DEF U, ToolU
<1>3. V(r, g, b) = ToolV(r, g, b)
  BY SumBounds, WrapIsHarmless DEF V, ToolV
<1> QED
  BY <1>1, <1>2, <1>3

(* A pixel without colour stays without colour, and keeps its brightness to  *)
(* the eight bits that are left: the coefficients of U and V add up to zero. *)
THEOREM GreyStaysGrey ==
  ASSUME NEW x \in Colour
  PROVE  Y(x, x, x) = x \div 4 /\ U(x, x, x) = 128 /\ V(x, x, x) = 128
<1>1. /\ LumaSum(x, x, x) = 256 * x + 128
      /\ USum(x, x, x) = 128 /\ VSum(x, x, x) = 128
  BY DEF LumaSum, USum, VSum, Colour
<1>2. Shift10(256 * x + 128) = x \div 4 /\ Shift10(128) = 0
  BY DEF Shift10, Colour
<1> QED
  BY <1>1, <1>2, HardwareIsTool DEF ToolY, ToolU, ToolV
=============================================================================
