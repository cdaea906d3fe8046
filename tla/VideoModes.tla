----------------------------- MODULE VideoModes -----------------------------
(***************************************************************************)
(* The video modes of the sensor driver (sensor_imx219.c, sensor_config)   *)
(* and the choice sensor_handle_uvc_control makes among them by the frame  *)
(* index and the frame interval of a COMMIT (uvc_settings.h).              *)
(*                                                                         *)
(* A mode is named by its integration time, which no two modes share.      *)
(***************************************************************************)
EXTENDS Integers

(* Frame intervals are in units of 100 ns.                                  *)
Interval(fps) == 10000000 \div fps

(* Window on the sensor: first and last column and line.                    *)
Window(x0, y0, x1, y1) == [x0 |-> x0, y0 |-> y0, x1 |-> x1, y1 |-> y1]

Binned   == Window(1000, 750, 2280, 1715)
Wide     == Window(4, 4, 2599, 1771)
FullHd   == Window(680, 692, 2599, 1771)
Strip128 == Window(1320, 990, 2600, 1609)
Strip80  == Window(1320, 990, 2600, 1561)
Whole    == Window(0, 0, 3279, 2463)

LineLength == 3448   \* the same in every mode

(* clock: multiplier and divider of the pixel clock; lines: the frame length*)
(* with its blanking; size: the columns and lines put out.                  *)
Mode(clock, lines, gain, window, size, binning) ==
  [clock |-> clock, lines |-> lines, gain |-> gain, window |-> window,
   size |-> size, binning |-> binning]

ModeIds == {3205, 477, 3392, 1697, 846, 2470, 1233, 137, 92, 3027}

SensorConfig == [m \in ModeIds |->
  CASE m = 3205 -> Mode(<<83, 4>>, 3209, 112, Binned, <<640, 482>>, 2)
    [] m = 477  -> Mode(<<83, 4>>, 481, 112, Binned, <<640, 482>>, 2)
    [] m = 3392 -> Mode(<<88, 4>>, 3402, 128, Wide, <<1280, 722>>, 0)
    [] m = 1697 -> Mode(<<88, 4>>, 1701, 128, FullHd, <<1280, 722>>, 0)
    [] m = 846  -> Mode(<<88, 4>>, 850, 128, FullHd, <<1280, 722>>, 0)
    [] m = 2470 -> Mode(<<80, 5>>, 2474, 128, FullHd, <<1920, 1082>>, 0)
    [] m = 1233 -> Mode(<<80, 5>>, 1237, 128, FullHd, <<1920, 1082>>, 0)
    [] m = 137  -> Mode(<<83, 4>>, 141, 200, Strip128, <<640, 128>>, 2)
    [] m = 92   -> Mode(<<83, 4>>, 96, 200, Strip80, <<640, 80>>, 2)
    [] m = 3027 -> Mode(<<49, 5>>, 3031, 200, Whole, <<3280, 2464>>, 0)]

NoMode == -1   \* a frame and an interval that name no mode

(* Frame indexes (frame_t) and the rates each may be committed at.          *)
VGA == 1
HD == 2
FULL_HD == 3
FULL_FRAME == 4
STRIP_128 == 5
STRIP_80 == 6

Setting(frame, fps) == [frame |-> frame, interval |-> Interval(fps)]

(* sensor_handle_uvc_control: the mode of a frame index and an interval.    *)
ModeOfSwapped(s) ==
  CASE s = Setting(VGA, 30)        -> 3205
    [] s = Setting(VGA, 200)       -> 477
    [] s = Setting(HD, 30)         -> 3392
    [] s = Setting(HD, 60)         -> 846
    [] s = Setting(HD, 120)        -> 1697
    [] s = Setting(FULL_HD, 30)    -> 2470
    [] s = Setting(FULL_HD, 60)    -> 1233
    [] s = Setting(FULL_FRAME, 15) -> 3027
    [] s = Setting(STRIP_128, 682) -> 137
    [] s = Setting(STRIP_80, 1000) -> 92
    [] OTHER -> NoMode
ModeOf(s) ==
  CASE s = Setting(VGA, 30)        -> 3205
    [] s = Setting(VGA, 200)       -> 477
    [] s = Setting(HD, 30)         -> 3392
    [] s = Setting(HD, 60)         -> 1697
    [] s = Setting(HD, 120)        -> 846
    [] s = Setting(FULL_HD, 30)    -> 2470
    [] s = Setting(FULL_HD, 60)    -> 1233
    [] s = Setting(FULL_FRAME, 15) -> 3027
    [] s = Setting(STRIP_128, 682) -> 137
    [] s = Setting(STRIP_80, 1000) -> 92
    [] OTHER -> NoMode

(* The time a frame takes, in units of 100 ns: the sensor divides its 24 MHz*)
(* clock by three, multiplies and divides it, and sends two pixels in each  *)
(* of the resulting clocks.                                                 *)
FrameTime(clock, length) ==
  (length[1] * length[2] * clock[2] * 10) \div (16 * clock[1])
=============================================================================
