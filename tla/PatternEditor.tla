---------------------------- MODULE PatternEditor ----------------------------
(***************************************************************************)
(* The pattern editor (gui/pattern_editor.cpp) with the cursor and the     *)
(* selection that the main window keeps for it (gui/main_window.cpp): the  *)
(* keys move the cursor over the columns and the ticks, select, and edit   *)
(* the track under the cursor.                                             *)
(*                                                                         *)
(* Columns, subcolumns and cells count from 0, as in the code.  What the   *)
(* toolbar and the options hold when a key is pressed is taken from        *)
(* Settings, save for the row height, which documents and zooming set.     *)
(***************************************************************************)
EXTENDS MoveCursor

CONSTANTS
  Documents,   \* [options, effect_name_chars, n_effect_col, tracks], the last two by column
  RowHeights,  \* _row_heights
  Settings,    \* [step, direction, step_to_event] of the toolbar, and extend_block
  SelectFrom,  \* bound: the cursors a selection begins at
  MaxEdits     \* bound: edits to a document; no key is pressed after the last

StepDirections == {"Down", "RightDigits", "RightEffect", "Right"}

ASSUME SettingsAssumption ==
  \A s \in Settings :
    /\ s.step \in Nat /\ s.direction \in StepDirections /\ s.step_to_event \in BOOLEAN
    /\ s.extend_block \in ExtendBlocks
ASSUME RowHeightsAssumption == RowHeights \subseteq 1 .. 48

(* The documents of n columns.                                             *)
DocumentsOf(n) ==
  [options : [ticks_per_beat : Nat \ {0}, beats_per_measure : Nat \ {0}],
   effect_name_chars : {1, 2},
   n_effect_col : [0 .. n - 1 -> 1 .. Len(EffectFields)],
   tracks : [0 .. n - 1 -> Track]]

Ncol(doc) == Cardinality(DOMAIN doc.tracks)

ASSUME DocumentsAssumption ==
  \A d \in Documents : Ncol(d) \in Nat \ {0} /\ d \in DocumentsOf(Ncol(d))

(* So are the files that this program saved.  Of a file that another wrote *)
(* the validator only sorts the events and limits their number.            *)
ASSUME OpenedTracksAssumption ==
  \A d \in Documents : \A c \in DOMAIN d.tracks : TrackOk(d.tracks[c])

VARIABLES
  document,       \* History::_document
  cursor,         \* CursorAndSelection::_cursor
  select,         \* CursorAndSelection::_select
  edit_mode,      \* PatternEditor::_edit_mode
  ticks_per_row,  \* PatternEditor::_ticks_per_row
  edits           \* bound: how many edits the document has had

vars == <<document, cursor, select, edit_mode, ticks_per_row, edits>>

opt == document.options
Columns == DOMAIN document.tracks
CursorTrack == document.tracks[cursor.x.column]

-----------------------------------------------------------------------------
(* gen_column_list(): the subcolumns of a column, and their cells.         *)

SubColumnTypes == <<"note", "instr", "volume">> \o EffectFields

Nsubcol(doc, x) == 3 + doc.n_effect_col[x.column]
SubColumnAt(x) == SubColumnTypes[x.subcolumn + 1]
IsEffect(field) == field \in {"effect0", "effect1"}

Ncell(doc, x) ==
  CASE SubColumnAt(x) = "note" -> 1
    [] SubColumnAt(x) \in {"instr", "volume"} -> 2
    [] OTHER -> doc.effect_name_chars + 2

CursorX(column, subcolumn, cell) == [column |-> column, subcolumn |-> subcolumn, cell |-> cell]

LastCell(doc, x) == [x EXCEPT !.cell = Ncell(doc, x) - 1]
LastSubColumn(doc, x) == LastCell(doc, [x EXCEPT !.subcolumn = Nsubcol(doc, x) - 1])

MoveLeft(doc, x) ==
  IF x.cell > 0 THEN [x EXCEPT !.cell = @ - 1]
  ELSE IF x.subcolumn > 0 THEN LastCell(doc, [x EXCEPT !.subcolumn = @ - 1])
  ELSE LastSubColumn(doc, [x EXCEPT !.column = IF @ > 0 THEN @ - 1 ELSE Ncol(doc) - 1])

MoveRight(doc, x) ==
  IF x.cell + 1 < Ncell(doc, x) THEN [x EXCEPT !.cell = @ + 1]
  ELSE IF x.subcolumn + 1 < Nsubcol(doc, x) THEN CursorX(x.column, x.subcolumn + 1, 0)
  ELSE CursorX(IF x.column + 1 < Ncol(doc) THEN x.column + 1 ELSE 0, 0, 0)

(* Another column may have fewer subcolumns.                               *)
CursorClampSubcol(doc, x) ==
  IF x.subcolumn >= Nsubcol(doc, x) THEN LastSubColumn(doc, x)
  ELSE [x EXCEPT !.cell = Min({@, Ncell(doc, x) - 1})]

ScrollLeft(doc, x) ==
  CursorClampSubcol(doc, [x EXCEPT !.column = IF @ > 0 THEN @ - 1 ELSE Ncol(doc) - 1])

(* Bug: the cells of the new column are not looked at. *)
ScrollRightUnclamped(doc, x) ==
  [x EXCEPT !.column = IF @ + 1 < Ncol(doc) THEN @ + 1 ELSE 0]

ScrollRight(doc, x) ==
  CursorClampSubcol(doc, [x EXCEPT !.column = IF @ + 1 < Ncol(doc) THEN @ + 1 ELSE 0])

-----------------------------------------------------------------------------
(* CursorAndSelection and RawSelection.                                    *)

ClampCursor(c) == [c EXCEPT !.y = Min({Max({@, 0}), MAX_TICK})]

RawSelection(c) ==
  [begin |-> c, end |-> c, bottom_padding |-> ticks_per_row, mode |-> "Normal",
   orig_left |-> -1, orig_right |-> -1]

SetEnd(s, c) == [s EXCEPT !.end = c, !.mode = "Normal"]

EnabledSelect == IF select = None THEN RawSelection(cursor) ELSE select

(* Bug: the end of the selection stays. *)
SetCursorOnly(c, s) ==
  /\ cursor' = ClampCursor(c)
  /\ select' = s

(* The selection s is what the key made of it before the cursor moves.     *)
Set(c, s) ==
  /\ cursor' = ClampCursor(c)
  /\ select' = IF s = None THEN None ELSE SetEnd(s, ClampCursor(c))

(* Bound: where selections begin.                                          *)
MayBeginSelect == select = None => cursor \in SelectFrom

(* CursorX is compared in the order of its fields.                         *)
XBefore(a, b) ==
  \/ a.column < b.column
  \/ a.column = b.column /\ a.subcolumn < b.subcolumn
  \/ a.column = b.column /\ a.subcolumn = b.subcolumn /\ a.cell <= b.cell

LeftColumn(s) == IF XBefore(s.begin.x, s.end.x) THEN s.begin.x.column ELSE s.end.x.column
RightColumn(s) == IF XBefore(s.begin.x, s.end.x) THEN s.end.x.column ELSE s.begin.x.column

SelectBlock(s, left, right) ==
  [s EXCEPT !.begin.x = CursorX(left, 0, 0),
            !.end.x = CursorX(right, Nsubcol(document, CursorX(right, 0, 0)) - 1, 0),
            !.bottom_padding = ticks_per_row]

(* Again and again: these columns, all columns, these, ...                 *)
SelectAll(s) ==
  LET left == LeftColumn(s)
      right == RightColumn(s)
  IN  CASE s.mode = "Normal" ->
             [SelectBlock(s, left, right) EXCEPT
                !.orig_left = left, !.orig_right = right, !.mode = "SelectChannels"]
        [] s.mode = "SelectChannels" ->
             [SelectBlock(s, 0, Ncol(document) - 1) EXCEPT !.mode = "SelectAll"]
        [] s.mode = "SelectAll" ->
             [SelectBlock(s, s.orig_left, s.orig_right) EXCEPT !.mode = "SelectChannels"]

-----------------------------------------------------------------------------
Init ==
  /\ document \in Documents
  /\ cursor = [x |-> CursorX(0, 0, 0), y |-> 0]
  /\ select = None
  /\ edit_mode \in BOOLEAN
  /\ ticks_per_row \in RowHeights
  /\ edits = 0

(* on_cursor_move(): a cursor key clears the selection, or with Shift      *)
(* begins one where the cursor is; then the cursor moves.                  *)
OnCursorMove(shift, c) ==
  /\ shift => MayBeginSelect
  /\ Set(c, IF shift THEN EnabledSelect ELSE None)
  /\ UNCHANGED <<document, edit_mode, ticks_per_row, edits>>

MoveY(shift, y) == OnCursorMove(shift, [cursor EXCEPT !.y = y])
MoveX(shift, x) == OnCursorMove(shift, [cursor EXCEPT !.x = x])

UpPressed(shift, step) == MoveY(shift, MoveUp(opt, cursor.y, ticks_per_row, step))
DownPressed(shift, step) == MoveY(shift, MoveDown(opt, cursor.y, ticks_per_row, step))
UpRowPressed(shift) == MoveY(shift, MoveUp(opt, cursor.y, ticks_per_row, 1))
DownRowPressed(shift) == MoveY(shift, MoveDown(opt, cursor.y, ticks_per_row, 1))
PrevBeatPressed(shift) == MoveY(shift, PrevBeat(opt, cursor.y))
NextBeatPressed(shift) == MoveY(shift, NextBeat(opt, cursor.y))
PrevEventPressed(shift) == MoveY(shift, PrevEvent(CursorTrack, cursor.y))
NextEventPressed(shift) == MoveY(shift, NextEvent(CursorTrack, cursor.y))
ScrollPrevPressed(shift) == MoveY(shift, PageUp(cursor.y, ticks_per_row))
ScrollNextPressed(shift) == MoveY(shift, PageDown(cursor.y, ticks_per_row))
TopPressed(shift) == MoveY(shift, BlockBegin)
BottomPressed(shift) == MoveY(shift, BlockEnd(document.tracks))
PrevPatternPressed(shift) == MoveY(shift, PrevBlock(cursor.y))
NextPatternPressed(shift) == MoveY(shift, NextBlock(cursor.y))
LeftPressed(shift) == MoveX(shift, MoveLeft(document, cursor.x))
RightPressed(shift) == MoveX(shift, MoveRight(document, cursor.x))
ScrollLeftPressed(shift) == MoveX(shift, ScrollLeft(document, cursor.x))
ScrollRightPressed(shift) == MoveX(shift, ScrollRight(document, cursor.x))

-----------------------------------------------------------------------------
(* Selecting without moving the cursor.                                    *)

SetSelect(s) ==
  /\ select' = s
  /\ UNCHANGED <<document, cursor, edit_mode, ticks_per_row, edits>>

EscapePressed == SetSelect(None)

SelectAllPressed == MayBeginSelect /\ SetSelect(SelectAll(EnabledSelect))

SelectionPaddingPressed ==
  /\ MayBeginSelect
  /\ SetSelect(IF select = None THEN RawSelection(cursor)
               ELSE [select EXCEPT !.bottom_padding = IF @ = 0 THEN ticks_per_row ELSE 0])

-----------------------------------------------------------------------------
(* Where an edit leaves the cursor.                                        *)

StepDownOnly(c, s) ==
  [c EXCEPT !.y =
     CursorStep(opt, document.tracks[c.x.column], @, ticks_per_row, s.step, s.step_to_event)]

(* Typing the name or the value of an effect stays within it if only       *)
(* digits are to be stepped over.                                          *)
StepCursor(s) ==
  LET field == SubColumnAt(cursor.x)
      next_cell == cursor.x.cell + 1
      at_cell(n) == [cursor EXCEPT !.x.cell = n]
      ends == next_cell >= Ncell(document, cursor.x)
      digits == s.direction = "RightDigits" /\ IsEffect(field)
  IN  CASE s.direction = "Down" -> StepDownOnly(cursor, s)
        [] s.direction = "Right" -> [cursor EXCEPT !.x = MoveRight(document, @)]
        [] digits /\ next_cell = document.effect_name_chars -> StepDownOnly(at_cell(0), s)
        [] digits /\ ends -> StepDownOnly(at_cell(document.effect_name_chars), s)
        [] s.direction \in {"RightDigits", "RightEffect"} /\ ends /\ ~digits ->
             StepDownOnly(at_cell(0), s)
        [] OTHER -> at_cell(next_cell)

(* push_edit().  Undoing it is History's.                                  *)
PushEdit(command, after_cursor) ==
  /\ document' = [document EXCEPT !.tracks[cursor.x.column] = TrackAfter(command, @)]
  /\ Set(after_cursor, select)
  /\ edits' = edits + 1
  /\ UNCHANGED <<edit_mode, ticks_per_row>>

DeleteKeyPressed(s) ==
  /\ edit_mode
  /\ PushEdit(DeleteCell(CursorTrack, SubColumnAt(cursor.x), cursor.y),
              StepDownOnly(cursor, s))

NotePressed(s, note, instrument) ==
  /\ edit_mode
  /\ SubColumnAt(cursor.x) = "note"
  /\ PushEdit(InsertNote(opt, CursorTrack, cursor.y, s.extend_block, note, instrument),
              StepCursor(s))

(* keyPressEvent() with a hex digit in a subcolumn that takes one.         *)
DigitPressed(s) ==
  LET field == SubColumnAt(cursor.x) IN
  /\ edit_mode
  /\ \/ field \in {"instr", "volume"}
     \/ IsEffect(field) /\ cursor.x.cell >= document.effect_name_chars
  /\ PushEdit(AddDigit(opt, CursorTrack, cursor.y, s.extend_block, field), StepCursor(s))

EffectCharPressed(s) ==
  LET field == SubColumnAt(cursor.x) IN
  /\ edit_mode
  /\ IsEffect(field) /\ cursor.x.cell < document.effect_name_chars
  /\ PushEdit(AddEffectChar(opt, CursorTrack, cursor.y, s.extend_block, field), StepCursor(s))

ToggleEditPressed ==
  /\ edit_mode' = ~edit_mode
  /\ UNCHANGED <<document, cursor, select, ticks_per_row, edits>>

-----------------------------------------------------------------------------
(* The main window.                                                        *)

SetRowHeight(h) ==
  /\ ticks_per_row' = Min({Max({h, 1}), 48})
  /\ UNCHANGED <<document, cursor, select, edit_mode, edits>>

(* To the next row height that the key takes for greater, or for less.     *)
ZoomOut(heights) == heights # {} /\ SetRowHeight(Min(heights))
ZoomIn(heights) == heights # {} /\ SetRowHeight(Max(heights))

ZoomOutHalf == ZoomOut({h \in RowHeights : h >= 2 * ticks_per_row})
ZoomInHalf == ZoomIn({h \in RowHeights : 2 * h = ticks_per_row})
ZoomOutTriplet == ZoomOut({h \in RowHeights : h > ticks_per_row})
ZoomInTriplet == ZoomIn({h \in RowHeights : h < ticks_per_row})

(* _gui_refresh_timer, with _follow_playback checked and the song playing. *)
FollowPlayback(ticks) ==
  LET y == RowTime(RowAt(opt, ticks, ticks_per_row), ticks_per_row) IN
  /\ cursor.y # y
  /\ Set([cursor EXCEPT !.y = y], select)
  /\ UNCHANGED <<document, edit_mode, ticks_per_row, edits>>

(* open_document(), with the row height of the file.                       *)
OpenDocument(doc, h) ==
  /\ document' = doc
  /\ cursor' = [x |-> CursorX(0, 0, 0), y |-> 0]
  /\ select' = None
  /\ ticks_per_row' = Min({Max({h, 1}), 48})
  /\ edits' = 0
  /\ UNCHANGED edit_mode

CursorKey(shift) ==
  \/ \E step \in {s.step : s \in Settings} : UpPressed(shift, step) \/ DownPressed(shift, step)
  \/ UpRowPressed(shift) \/ DownRowPressed(shift)
  \/ PrevBeatPressed(shift) \/ NextBeatPressed(shift)
  \/ PrevEventPressed(shift) \/ NextEventPressed(shift)
  \/ ScrollPrevPressed(shift) \/ ScrollNextPressed(shift)
  \/ TopPressed(shift) \/ BottomPressed(shift)
  \/ PrevPatternPressed(shift) \/ NextPatternPressed(shift)
  \/ LeftPressed(shift) \/ RightPressed(shift)
  \/ ScrollLeftPressed(shift) \/ ScrollRightPressed(shift)

EditKey(s) ==
  \/ \E note \in {"note", "cut"}, instrument \in BOOLEAN : NotePressed(s, note, instrument)
  \/ DigitPressed(s) \/ EffectCharPressed(s) \/ DeleteKeyPressed(s)

Next ==
  \/ /\ edits < MaxEdits
     /\ \/ \E shift \in BOOLEAN : CursorKey(shift)
        \/ EscapePressed \/ SelectAllPressed \/ SelectionPaddingPressed
        \/ \E s \in Settings : EditKey(s)
        \/ ToggleEditPressed
        \/ ZoomOutHalf \/ ZoomInHalf \/ ZoomOutTriplet \/ ZoomInTriplet
        \/ \E ticks \in 0 .. MAX_TICK : FollowPlayback(ticks)
  \/ \E doc \in Documents, h \in RowHeights : OpenDocument(doc, h)

Spec == Init /\ [][Next]_vars

-----------------------------------------------------------------------------
CursorPos == [x : [column : Nat, subcolumn : Nat, cell : Nat], y : 0 .. MAX_TICK]

XOk(doc, x) ==
  /\ x.column \in DOMAIN doc.tracks
  /\ x.subcolumn < Nsubcol(doc, x)
  /\ x.cell < Ncell(doc, x)

CursorOk(c) == c \in CursorPos /\ XOk(document, c.x)

SelectOk(s) ==
  /\ s \in [begin : CursorPos, end : CursorPos, bottom_padding : RowHeights \cup {0},
            mode : {"Normal", "SelectChannels", "SelectAll"},
            orig_left : Int, orig_right : Int]
  /\ CursorOk(s.begin) /\ CursorOk(s.end)
  /\ s.mode # "Normal" => {s.orig_left, s.orig_right} \subseteq Columns

(* The code indexes the columns, subcolumns and tracks with the cursor and *)
(* the corners of the selection, unchecked: they must be ones that exist,  *)
(* whatever columns are moved between and whatever document is opened.     *)
TypeOK ==
  /\ Ncol(document) \in Nat \ {0} /\ document \in DocumentsOf(Ncol(document))
  /\ CursorOk(cursor)
  /\ select = None \/ SelectOk(select)
  /\ edit_mode \in BOOLEAN
  /\ ticks_per_row \in RowHeights
  /\ edits \in Nat

(* What the assertions of apply_swap() and CreateOrEdit::try_make() say:   *)
(* blocks do not overlap and are not empty, events are in order, inside    *)
(* their pattern and not empty, wherever blocks were created and extended; *)
(* and a key pressed in any gap finds room for a block there.              *)
TracksOk ==
  \A c \in Columns :
    LET track == document.tracks[c] IN
    /\ TrackOk(track)
    /\ \A now \in 0 .. MAX_TICK : SnappedLater(track, now) => GapAsserts(opt, track, now)

(* What is written in a track: each field at each time that it plays.      *)
Written(track) ==
  UNION {UNION {{<<LoopTime(track[k], loop) + track[k].events[i].anchor_tick, f>> :
                   loop \in 0 .. track[k].loop_count - 1, f \in track[k].events[i].v} :
                i \in DOMAIN track[k].events} : k \in DOMAIN track}

(* The times at which the pattern that plays at y plays the same.          *)
SamePlace(track, y, t) ==
  \/ t = y
  \/ \E k \in DOMAIN track :
       /\ {y, t} \subseteq track[k].begin_tick .. EndTime(track[k]) - 1
       /\ (y - t) % track[k].length_ticks = 0

(* Typing and deleting change what is written in the cursor's subcolumn at *)
(* the cursor, and in the other loops of its pattern, and leave all other  *)
(* music where it was, also when a block is extended or made around it.    *)
EditsAreLocal ==
  [][edits' = edits + 1 =>
       \A c \in Columns :
         \A x \in (Written(document.tracks[c]) \ Written(document'.tracks[c]))
                    \cup (Written(document'.tracks[c]) \ Written(document.tracks[c])) :
           /\ c = cursor.x.column
           /\ SamePlace(CursorTrack, cursor.y, x[1])
           /\ x[2] \in ErasedFields(SubColumnAt(cursor.x))]_vars

(* Up and down go to the nearest grid row before and after the cursor,     *)
(* from a row or from between two, whatever rows and beats share.          *)
GridRow(t) == (t % opt.ticks_per_beat) % ticks_per_row = 0

RowsAreNeighbours ==
  LET y == cursor.y
      up == MoveUp(opt, y, ticks_per_row, 1)
      down == MoveDown(opt, y, ticks_per_row, 1)
  IN  /\ up < y \/ up = 0
      /\ down > y
      /\ GridRow(up) /\ GridRow(down)
      /\ \A t \in up + 1 .. down - 1 : t # y => ~GridRow(t)

(* The keys that jump to events find the nearest one before or after the   *)
(* cursor in its column, over loops, gaps and empty patterns, or stay.     *)
EventJumpsAreNearest ==
  LET times == {x[1] : x \in Written(CursorTrack)}
      before(y) == {t \in times : t < y}
      after(y) == {t \in times : t > y}
  IN  \A y \in IF edits = MaxEdits THEN 0 .. MAX_TICK ELSE {cursor.y} :
        /\ PrevEvent(CursorTrack, y) = IF before(y) = {} THEN y ELSE Max(before(y))
        /\ NextEvent(CursorTrack, y) = IF after(y) = {} THEN y ELSE Min(after(y))

(* The selection reaches to the cursor, also when an edit, playback or a   *)
(* zoom moves it; only "select all" takes its end elsewhere, and never to  *)
(* another time.                                                           *)
SelectionFollowsCursor ==
  select # None =>
    /\ select.end.y = cursor.y
    /\ select.mode = "Normal" => select.end = cursor
=============================================================================
