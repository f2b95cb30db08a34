---------------------------- MODULE PatternDrawing ----------------------------
(***************************************************************************)
(* What the pattern editor draws (gui/pattern_editor.cpp, draw_pattern()   *)
(* and what it calls): the columns from left to right, and from top to     *)
(* bottom the rows and beats of the grid, the patterns and their events,   *)
(* the selection and the cursor, which scrolling keeps in the middle.      *)
(*                                                                         *)
(* Pixels count from the top of the pattern body.  A rectangle is          *)
(* [left, top, right, bottom].  Fonts, colors and the shapes of letters    *)
(* are left out, and so is free scrolling, which nothing turns on.         *)
(***************************************************************************)
EXTENDS PatternEditor

CONSTANTS
  PixelsPerRow,    \* _pixels_per_row
  WidthPerChar,    \* _pattern_font_metrics.width
  ViewHeight       \* inner_size.height()

ASSUME PixelsAssumption ==
  PixelsPerRow \in Nat \ {0} /\ WidthPerChar \in Nat \ {0} /\ ViewHeight \in Nat

Rect(left, top, right, bottom) ==
  [left |-> left, top |-> top, right |-> right, bottom |-> bottom]

-----------------------------------------------------------------------------
(* gen_column_layout(): from left to right the ruler, and for each column  *)
(* its block handle and its subcolumns.                                    *)

PadWidth == WidthPerChar \div 5
DIVIDER_WIDTH == 1
RulerRight == 3 * WidthPerChar + 2 * PadWidth
HandleWidth == (WidthPerChar * 7) \div 6

(* wide_cell() and many_cells(): how many cells, and how wide each is.     *)
SubColumnCells(column) ==
  [k \in 0 .. 2 + document.n_effect_col[column] |->
     CASE k = 0 -> [ncell |-> 1, width |-> 3 * WidthPerChar]
       [] k \in {1, 2} -> [ncell |-> 2, width |-> WidthPerChar]
       [] OTHER -> [ncell |-> document.effect_name_chars + 2, width |-> WidthPerChar]]

SubColumnWidth(sub) == 2 * PadWidth + DIVIDER_WIDTH + sub.ncell * sub.width

ColumnWidth(column) ==
  LET subs == SubColumnCells(column)
  IN  HandleWidth + MapThenSumSet(LAMBDA k : SubColumnWidth(subs[k]), DOMAIN subs)

ColumnLeft(column) == RulerRight + MapThenSumSet(ColumnWidth, 0 .. column - 1)
ColumnRight(column) == ColumnLeft(column) + ColumnWidth(column)

SubColumnLeft(x) ==
  LET subs == SubColumnCells(x.column)
  IN  ColumnLeft(x.column) + HandleWidth
        + MapThenSumSet(LAMBDA k : SubColumnWidth(subs[k]), 0 .. x.subcolumn - 1)

SubColumnRight(x) ==
  SubColumnLeft(x) + SubColumnWidth(SubColumnCells(x.column)[x.subcolumn])

(* draw_header(): a column's name stands above it.                         *)
HeaderRect(column) == Rect(ColumnLeft(column), 0, ColumnRight(column), 40)

(* cell_left_right(), with the padding around the cell.                    *)
CellLeft(x) ==
  SubColumnLeft(x) + DIVIDER_WIDTH + x.cell * SubColumnCells(x.column)[x.subcolumn].width

CellRight(x) ==
  CellLeft(x) + 2 * PadWidth + SubColumnCells(x.column)[x.subcolumn].width

-----------------------------------------------------------------------------
(* From times to pixels.                                                   *)

DpixelsFromTime(ticks) ==
  (ticks \div ticks_per_row) * PixelsPerRow
    + ((ticks % ticks_per_row) * PixelsPerRow) \div ticks_per_row

(* SongScrollPos::make().                                                  *)
CursorTop == ViewHeight \div 2
YScroll == CursorTop - DpixelsFromTime(cursor.y)

YOf(ticks) == YScroll + DpixelsFromTime(ticks)

-----------------------------------------------------------------------------
(* foreach_visible_pattern(): back from the pattern at the cursor while    *)
(* patterns end on the screen, and from there on while they begin on it.   *)

Patterns(track) ==
  UNION {{PatternIter(k, loop) : loop \in 0 .. track[k].loop_count - 1} : k \in DOMAIN track}

Comes(p, q) == p.block < q.block \/ (p.block = q.block /\ p.loop <= q.loop)

PatternTop(track, p) == YOf(PatternBegin(track, p))
PatternBottom(track, p) == YOf(PatternEnd(track, p))

(* Bug: a pattern that begins above the screen is not looked at. *)
ReachedBackWhole(track, p) ==
  LET at == PatternAt(track, cursor.y)
  IN  \A q \in Patterns(track) :
        Comes(p, q) /\ ~Comes(at, q) => PatternTop(track, q) >= 0

ReachedBack(track, p) ==
  LET at == PatternAt(track, cursor.y)
  IN  \A q \in Patterns(track) :
        Comes(p, q) /\ ~Comes(at, q) => PatternBottom(track, q) >= 0

VisiblePatterns(track) ==
  {p \in Patterns(track) :
     /\ ReachedBack(track, p)
     /\ \A q \in Patterns(track) :
          Comes(q, p) /\ ReachedBack(track, q) => PatternTop(track, q) <= ViewHeight}

-----------------------------------------------------------------------------
(* draw_pattern_background().                                              *)

(* The backgrounds of the subcolumns begin where the song does.            *)
Background(x) ==
  Rect(SubColumnLeft(x), Max({0, YScroll}), SubColumnRight(x), ViewHeight)

(* The lines of the grid: up from the cursor's row, and down from it.      *)
Steps == 0 .. ViewHeight * ticks_per_row

RowUp(n) ==
  LET row[k \in 0 .. n] == IF k = 0 THEN RowAt(opt, cursor.y, ticks_per_row)
                           ELSE RowPrev(opt, row[k - 1], ticks_per_row)
  IN  row[n]

RowDown(n) ==
  LET row[k \in 0 .. n] == IF k = 0 THEN RowAt(opt, cursor.y, ticks_per_row)
                           ELSE RowNext(opt, row[k - 1], ticks_per_row)
  IN  row[n]

GridLine(row) == [y |-> YOf(RowTime(row, ticks_per_row)), beat |-> row.row_in_beat = 0]

GridLines ==
  LET up == [n \in Steps |-> GridLine(RowUp(n))]
      down == [n \in Steps |-> GridLine(RowDown(n))]
  IN  {up[n] : n \in {m \in Steps : \A k \in 0 .. m : up[k].y >= -PixelsPerRow}}
        \cup {down[n] : n \in {m \in Steps \ {0} : \A k \in 1 .. m : down[k].y < ViewHeight}}

(* The block handles: a pattern that does not begin its block is marked as *)
(* a loop of it.                                                           *)
Handle(column, p) ==
  LET track == document.tracks[column]
      left == ColumnLeft(column)
  IN  [rect |-> Rect(left, PatternTop(track, p), left + HandleWidth, PatternBottom(track, p)),
       looped |-> p.loop > 0,
       ends |-> p.loop + 1 = track[p.block].loop_count]

Handles(column) == {Handle(column, p) : p \in VisiblePatterns(document.tracks[column])}

(* RawSelection::get_select() and its rectangle, which fades out below     *)
(* when it has no height.                                                  *)
SelectRect ==
  LET b == select.begin
      e == select.end
      left == IF XBefore(b.x, e.x) THEN b.x ELSE e.x
      right == IF XBefore(b.x, e.x) THEN e.x ELSE b.x
      top == YOf(Min({b.y, e.y}))
      bottom == YOf(Max({b.y, e.y}) + select.bottom_padding)
  IN  Rect(SubColumnLeft(left), top, SubColumnRight(right),
           IF top # bottom THEN bottom ELSE top + (PixelsPerRow * 2) \div 3)

(* The cursor's cell.                                                      *)
CursorRect ==
  Rect(CellLeft(cursor.x), CursorTop, CellRight(cursor.x), CursorTop + PixelsPerRow)

(* The numbers beside the beats: the measure is counted along, up and down *)
(* from that of the cursor.                                                *)
MeasureIndex(ticks) == ticks \div (opt.ticks_per_beat * opt.beats_per_measure)

BeatLabel(beat, measure) == [beat |-> beat, measure |-> measure]
StartBeat == BeatLabel(BeatAt(opt, cursor.y), MeasureIndex(cursor.y))

BeatUp(n) ==
  LET label[k \in 0 .. n] ==
        IF k = 0 THEN StartBeat
        ELSE BeatLabel(BeatPrev(opt, label[k - 1].beat),
               label[k - 1].measure - (IF label[k - 1].beat.beat_in_measure = 0 THEN 1 ELSE 0))
  IN  label[n]

BeatDown(n) ==
  LET label[k \in 0 .. n] ==
        IF k = 0 THEN StartBeat
        ELSE LET beat == BeatNext(opt, label[k - 1].beat)
             IN  BeatLabel(beat,
                   label[k - 1].measure + (IF beat.beat_in_measure = 0 THEN 1 ELSE 0))
  IN  label[n]

(* Up to the first beat of the song, and both ways to the screen's edges.  *)
BeatLabels ==
  LET up == [n \in 0 .. cursor.y \div opt.ticks_per_beat |-> BeatUp(n)]
      down == [n \in Steps |-> BeatDown(n)]
      y(label) == YOf(label.beat.time)
  IN  {up[n] : n \in {m \in DOMAIN up : \A k \in 0 .. m : y(up[k]) >= -PixelsPerRow}}
        \cup {down[n] : n \in {m \in Steps \ {0} : \A k \in 1 .. m : y(down[k]) < ViewHeight}}

-----------------------------------------------------------------------------
(* draw_pattern_foreground(): the fields of the events of visible patterns *)
(* that their column shows, placed from the top of the pattern.            *)

Field(k) ==
  LET type == SubColumnTypes[k + 1] IN IF type = "note" THEN {"note", "cut"} ELSE {type}

(* note_color: where the row grid is, counted from the pattern's begin.    *)
NoteColor(anchor_tick) ==
  LET row == RowAt(opt, anchor_tick, ticks_per_row)
  IN  CASE RowTime(row, ticks_per_row) # anchor_tick -> "fractional"
        [] row.row_in_beat = 0 -> "beat"
        [] OTHER -> "non_beat"

DrawnField(column, p, event, k) ==
  [y |-> PatternTop(document.tracks[column], p) + DpixelsFromTime(event.anchor_tick),
   subcolumn |-> k,
   field |-> CHOOSE f \in Field(k) : f \in event.v,
   color |-> NoteColor(event.anchor_tick)]

DrawnPattern(column, p) ==
  LET events == document.tracks[column][p.block].events
  IN  UNION {{DrawnField(column, p, events[e], k) :
                k \in {s \in DOMAIN SubColumnCells(column) :
                         Field(s) \cap events[e].v # {}}} :
             e \in DOMAIN events}

DrawnFields(column) ==
  UNION {DrawnPattern(column, p) : p \in VisiblePatterns(document.tracks[column])}
-----------------------------------------------------------------------------
OnScreen(y) == y \in 0 .. ViewHeight - 1
Times == 0 .. cursor.y + ViewHeight * ticks_per_row

(* The events of the song are drawn if their time is on the screen, at     *)
(* most a pixel above it (they are placed from their pattern on, and both  *)
(* are rounded), and nothing else is.                                      *)
ShowsEvents(column) ==
  LET written == Written(document.tracks[column])
      drawn == DrawnFields(column)
      fields == UNION {Field(k) : k \in DOMAIN SubColumnCells(column)}
      shown(t, d) == d.y \in {YOf(t) - 1, YOf(t)}
  IN  /\ \A x \in written : x[2] \in fields /\ OnScreen(YOf(x[1])) =>
           \E d \in drawn : d.field = x[2] /\ shown(x[1], d)
      /\ \A d \in drawn : \E x \in written : d.field = x[2] /\ shown(x[1], d)

(* The handles cover what blocks cover, and mark where loops begin.        *)
ShowsBlocks(column) ==
  LET track == document.tracks[column]
      handles == Handles(column)
      loops == UNION {{LoopTime(track[k], n) : n \in 1 .. track[k].loop_count - 1} :
                      k \in DOMAIN track}
  IN  /\ \A y \in 0 .. ViewHeight - 1 :
           (\E h \in handles : h.rect.top <= y /\ y < h.rect.bottom)
             <=> \E k \in DOMAIN track :
                   YOf(track[k].begin_tick) <= y /\ y < YOf(EndTime(track[k]))
      /\ {y \in {h.rect.top : h \in {g \in handles : g.looped}} : OnScreen(y)}
           = {y \in {YOf(t) : t \in loops} : OnScreen(y)}

(* The lines are those of the rows, the numbers those of the beats and     *)
(* measures.                                                               *)
ShowsGrid ==
  /\ {l \in GridLines : OnScreen(l.y)}
       = {[y |-> YOf(t), beat |-> t % opt.ticks_per_beat = 0] :
            t \in {u \in Times : GridRow(u) /\ OnScreen(YOf(u))}}
  /\ {l \in BeatLabels : OnScreen(YOf(l.beat.time))}
       = {BeatLabel(BeatAt(opt, t), MeasureIndex(t)) :
            t \in {u \in Times : u % opt.ticks_per_beat = 0 /\ OnScreen(YOf(u))}}

(* The cursor's cell is on its subcolumn and under its column's header,    *)
(* and a selection that reaches to the cursor is drawn around it.          *)
ShowsCursor ==
  LET on == Background(cursor.x)
      header == HeaderRect(cursor.x.column)
  IN
  /\ header.left < on.left /\ on.right <= header.right
  /\ on.left < CursorRect.left /\ CursorRect.right <= on.right
  /\ on.top <= CursorTop /\ CursorTop <= on.bottom
  /\ select # None => SelectRect.top < SelectRect.bottom
  /\ select # None /\ select.mode = "Normal" =>
       /\ SelectRect.left < CursorRect.left /\ CursorRect.right <= SelectRect.right
       /\ CursorTop \in SelectRect.top .. SelectRect.bottom

(* What is drawn is what the document and the cursor are, at each place    *)
(* the cursor takes the screen to: before the song's begin, over gaps,     *)
(* loops and patterns partly on the screen.                                *)
ScreenShowsSong ==
  /\ \A c \in Columns : ShowsEvents(c) /\ ShowsBlocks(c)
  /\ ShowsGrid
  /\ ShowsCursor
=============================================================================
