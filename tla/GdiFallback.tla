---------------------------- MODULE GdiFallback ----------------------------
(* The GDI frontend (GdiFallback.cc): which columns of the window on_state_changed
   invalidates, and what draw puts in them.  A column is a line of pixels across the
   shorter axis, numbered along the longer one; position and seek position are
   fractions of the track, in steps of 1/Steps.  The callback object changes and the
   frontend is told in one action, as the window does it. *)
EXTENDS Integers, FiniteSetsExt

CONSTANTS Extent,  \* widths and heights of the client area
          Steps,
          None     \* no rectangle

ASSUME CanvasAssumption == Extent \subseteq Nat \ {0} /\ Steps \in Nat \ {0} /\ None \notin Nat

VARIABLES
  canvas,                             \* the client area, along and across the wave
  vertical, flip, shade,              \* settings in the callback object
  visible, position, seeking, seek,   \* its cursors
  valid,               \* cached_rects_valid
  lastPlay, lastSeek,  \* columns of last_play_rect and last_seek_rect
  invalid              \* columns in the update region of the window

settings == <<canvas, vertical, flip, shade>>
cursors == <<visible, position, seeking, seek>>
cache == <<valid, lastPlay, lastSeek>>
vars == <<settings, cursors, cache, invalid>>

(* on_wm_size turns the wave along the longer axis; v may say vertical for c. *)
Canvas == {c \in [major : Extent, minor : Extent] : c.minor <= c.major}
Upright(v, c) == v => c.minor < c.major

Fraction == 0..Steps
Columns == 0..(canvas.major - 1)
Less(a, b) == IF a < b THEN a ELSE b

-----------------------------------------------------------------------------
(* Drawing. *)

(* map_normalized_float_to_unsigned_range; derive_point, which reverses first. *)
Column(f) == Less(canvas.major - 1, (canvas.major * f) \div Steps)
BarColumn(f) == Column(IF flip THEN Steps - f ELSE f)

Play == IF visible THEN BarColumn(position) ELSE None
Seek == IF seeking THEN BarColumn(seek) ELSE None
Bars == {Play, Seek} \ {None}

(* assembly: where the regions end, not reversed. *)
Points == (IF visible THEN {Column(position)} ELSE {}) \cup
          (IF seeking THEN {Column(seek)} ELSE {})

(* low_bound. *)
Low(end) == Max({0} \cup {p + 1 : p \in {q \in Points : q < end}})

(* Some definitions come after a variant of them with a plausible mistake; every
   property is checked to fail with one of them in place of the original. *)
(* Regions of two columns are left out as well. *)
RegionsFromTwo ==
  {[low |-> Low(end), high |-> end - 1, shaded |-> ~visible \/ end <= Column(position)] :
     end \in {e \in Points \cup {canvas.major} : e > Low(e) + 2}}

(* compute_waveform_regions: a region of a single column is left out. *)
Regions ==
  {[low |-> Low(end), high |-> end - 1, shaded |-> ~visible \/ end <= Column(position)] :
     end \in {e \in Points \cup {canvas.major} : e > Low(e) + 1}}

(* The reversal in draw. *)
Covers(r, c) ==
  LET logical == IF flip THEN canvas.major - 1 - c ELSE c
  IN  r.low <= logical /\ logical <= r.high

(* draw: what it puts in a column of the update region, given the bitmaps of now. *)
Content(c) ==
  IF c \in Bars THEN "bar"
  ELSE IF Points = {} THEN "plain"
  ELSE IF \E r \in Regions : Covers(r, c)
       THEN IF shade /\ \E r \in Regions : Covers(r, c) /\ r.shaded THEN "shaded" ELSE "plain"
  ELSE "untouched"

-----------------------------------------------------------------------------
(* on_state_changed. *)

Between(a, b) == Less(a, b)..(a + b - Less(a, b))

(* The first column as update_positions computes it: reorient_rect reverses the
   rectangle along the horizontal axis before it is turned. *)
Origin == IF ~flip THEN 0 ELSE (IF vertical THEN canvas.minor ELSE canvas.major) - 1

(* Without the column the cursor leaves. *)
PlayDamageNew(old, new) ==
  IF shade /\ old # None /\ new # old
  THEN Between(IF new = None THEN Origin ELSE new, old)
  ELSE {new} \ {None}

(* The column of the cursor before and now, and all between them if that is where
   the shade begins or ends. *)
PlayDamage(old, new) ==
  IF new = old THEN {}
  ELSE IF shade /\ old # None THEN Between(IF new = None THEN Origin ELSE new, old)
  ELSE {old, new} \ {None}

SeekDamage(old, new) == {old, new} \ {None}

(* update_positions, after the cursors have changed. *)
UpdatePositions ==
  /\ invalid' = IF valid
                THEN invalid \cup ((PlayDamage(lastPlay, Play') \cup
                                    SeekDamage(lastSeek, Seek')) \cap Columns)
                ELSE Columns
  /\ lastPlay' = Play' /\ lastSeek' = Seek' /\ valid' = TRUE

(* update_data; what follows from new settings is drawn into the bitmaps. *)
UpdateData == valid' = FALSE /\ invalid' = Columns' /\ UNCHANGED <<lastPlay, lastSeek>>

(* The constructor ends with all bits of on_state_changed. *)
Init ==
  /\ canvas \in Canvas /\ vertical \in BOOLEAN /\ Upright(vertical, canvas)
  /\ flip \in BOOLEAN /\ shade \in BOOLEAN
  /\ visible \in BOOLEAN /\ position \in IF visible THEN Fraction ELSE {0}
  /\ seeking \in BOOLEAN /\ seek \in IF seeking THEN Fraction ELSE {0}
  /\ valid = TRUE /\ lastPlay = Play /\ lastSeek = Seek /\ invalid = Columns

-----------------------------------------------------------------------------
(* The window, and the messages it gets. *)

(* set_playback_time, from the timer or the player. *)
MoveCursor(f) ==
  /\ visible /\ position' = f
  /\ UNCHANGED <<visible, seeking, seek, settings>> /\ UpdatePositions

(* on_play, on_duration and on_location. *)
ShowCursor ==
  /\ visible' = TRUE /\ position' = 0
  /\ UNCHANGED <<seeking, seek, settings>> /\ UpdatePositions

(* on_stop. *)
HideCursor ==
  /\ visible' = FALSE /\ position' = 0
  /\ UNCHANGED <<seeking, seek, settings>> /\ UpdatePositions

(* The left button goes down or up, or the mouse moves in a drag. *)
Drag(f, inside) ==
  /\ seeking' = inside /\ seek' = IF inside THEN f ELSE 0
  /\ UNCHANGED <<visible, position, settings>> /\ UpdatePositions

(* on_wm_size: set_orientation, and the size. *)
Resize(c, v) ==
  /\ Upright(v, c) /\ canvas' = c /\ vertical' = v
  /\ UNCHANGED <<flip, shade, cursors>> /\ UpdateData

SetFlip ==
  /\ flip' = ~flip /\ UNCHANGED <<canvas, vertical, shade, cursors>> /\ UpdateData

(* Another waveform, other colours, channels or downmix. *)
NewData == UNCHANGED <<settings, cursors>> /\ UpdateData

(* set_shade_played: the bit is the only one set, and nothing is invalidated. *)
SetShade ==
  /\ shade' = ~shade /\ valid' = FALSE
  /\ UNCHANGED <<canvas, vertical, flip, cursors, lastPlay, lastSeek, invalid>>

(* Part of the window is uncovered. *)
Uncover(c) == invalid' = invalid \cup {c} /\ UNCHANGED <<settings, cursors, cache>>

(* WM_PAINT: draw, clipped to the update region, which is then empty. *)
Draw == invalid # {} /\ invalid' = {} /\ UNCHANGED <<settings, cursors, cache>>

Next ==
  \/ \E f \in Fraction : MoveCursor(f)
  \/ ShowCursor \/ HideCursor
  \/ \E f \in Fraction, inside \in BOOLEAN : Drag(f, inside)
  \/ \E c \in Canvas, v \in BOOLEAN : Resize(c, v)
  \/ SetFlip \/ NewData \/ SetShade
  \/ \E c \in Columns : Uncover(c)
  \/ Draw

Spec == Init /\ [][Next]_vars

-----------------------------------------------------------------------------
(* The reversal is rounded twice, so a reversed bar may be off by one column. *)
GapsOnlyBesideBars ==
  \A c \in Columns : Content(c) = "untouched" =>
    \E b \in Bars : b - c \in IF flip THEN -2..2 ELSE -1..1

ShadeEndsAtTheCursor ==
  visible =>
    \A c \in Columns : Content(c) \in {"plain", "shaded"} =>
      (Content(c) = "shaded" <=> shade /\ IF flip THEN c > Play ELSE c < Play)

(* For every canvas, reversed or not, and every pair of cursors, also where they
   meet each other or an edge: the regions draw computes leave out single columns
   next to a bar at most, and those behind the playback bar, and only those, come
   from the shaded bitmap.  Regions are computed from columns that are reversed
   afterwards, bars from fractions that are reversed before. *)
RegionsFitTheBars == GapsOnlyBesideBars /\ ShadeEndsAtTheCursor

ShadeMoved(c) == {Content(c), Content(c)'} = {"plain", "shaded"}

(* Four changes that are not painted: next to a cursor, a column that draw leaves out
   or has left out; the shade when there is a seek cursor alone; the shade of a
   vertical reversed wave when the cursor goes away; and the shade that is switched on
   or off.  Of the last, on_state_changed says "invalidate shaded side", but it only
   drops the cached rectangles. *)
GapCloses(c) == "untouched" \in {Content(c), Content(c)'}
WithoutCursor(c) == ShadeMoved(c) /\ ((seeking /\ ~visible) \/ (seeking' /\ ~visible'))
OriginMisplaced(c) == ShadeMoved(c) /\ flip /\ vertical /\ ~visible'
ShadeSwitched(c) == ShadeMoved(c) /\ shade' # shade /\ ~valid'

(* Partial repaints are as good as full ones: apart from the four changes above, a
   column that draw would now fill with something else is in the update region
   after the step, and none leaves it unpainted, whatever sequence of cursor moves,
   jumps, seeks, stops and settings has led there.  The fourth is made up for by the
   next change of position: the whole window is invalid when there are cached
   rectangles again. *)
RepaintCoversChanges ==
  [][Draw \/ /\ \A c \in Columns' :
                 \/ c \in invalid'
                 \/ c \notin invalid /\ (\/ Content(c)' = Content(c) \/ GapCloses(c)
                                         \/ WithoutCursor(c) \/ OriginMisplaced(c)
                                         \/ ShadeSwitched(c))
             /\ ~valid /\ valid' => invalid' = Columns']_vars
=============================================================================
