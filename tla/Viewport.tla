------------------------------ MODULE Viewport ------------------------------
(***************************************************************************)
(* The screen of nasmon: how many containers fit into the frame of each    *)
(* layout, which of them are drawn, and what keys, clicks, new snapshots   *)
(* and new sizes of the terminal do to the scroll offset and the sort mode.*)
(*                                                                         *)
(* A frame is known by what it was drawn from; its number of lines and the *)
(* line of the header of the Docker table follow.  Text is left out.       *)
(***************************************************************************)
EXTENDS Integers, Sequences, FiniteSets

CONSTANTS
  Snapshots,     \* [list : containers, zram, usage, health : numbers of rows]
  Sizes,         \* of the terminal, [rows, cols]
  MaxWarnings,   \* bound: rows of collectors' warnings
  ForceRows, ForceCols  \* the configured size; 0: the terminal's

Size == [rows : Nat \ {0}, cols : Nat \ {0}]
Snapshot == [list : Seq([id : Nat, name : Nat, exact : Nat, ram : Nat]),
             zram : 0 .. 1, usage : Nat, health : Nat]

ASSUME ViewAssumption ==
  /\ Snapshots \subseteq Snapshot /\ Sizes \subseteq Size
  /\ \A s \in Snapshots : \A i, j \in DOMAIN s.list :
       s.list[i].id = s.list[j].id => i = j  \* what containerSortKey goes by
  /\ MaxWarnings \in Nat /\ ForceRows \in Nat /\ ForceCols \in Nat

VARIABLES
  size,         \* of the terminal
  winch,        \* SIGWINCH is in its channel of capacity 1
  warned,       \* warnings a frame would have now
  snap,         \* the snapshot of the last frame
  sortMode, dockerOffset,
  lastFrame     \* [size, snap, warned, mode, first, count]

viewVars == <<size, winch, warned, snap, sortMode, dockerOffset, lastFrame>>

Modes == {"default", "nameAsc", "nameDesc", "ramDesc", "ramAsc"}

Larger(a, b) == IF a > b THEN a ELSE b

Clamp(x, lo, hi) == IF x < lo THEN lo ELSE IF x > hi THEN hi ELSE x

Total(s) == Len(s.list)

-----------------------------------------------------------------------------
(* Rows *)

\* configuredTerminalSize
Configured(z) == IF ForceCols > 0 /\ ForceRows > 0
                 THEN [rows |-> ForceRows, cols |-> ForceCols] ELSE z

\* RenderInteractiveView and DockerPageSize: portrait screens are compact up
\* to 30 rows, wide ones up to 16.
Layout(z) ==
  IF z.rows > 30 THEN "regular"
  ELSE IF z.cols < 80 \/ z.rows <= 16 THEN "compact" ELSE "landscape"

RegularFixedRows(s, header) == header + 11 + s.zram + s.usage + s.health + 15

\* landscapeSystemRows, a number kept beside the rows it counts
SystemRows(s) == 9 + s.zram

\* Health, under the systemd row and the warnings, beside the file systems.
LowerRows(s, w) == Larger(s.usage, s.health + 1 + w)

\* Faulty variant: warnings are forgotten.
PageNoWarnings(s, w, rows) ==
  IF RegularFixedRows(s, 5) + Total(s) <= rows THEN Total(s)
  ELSE Clamp(rows - RegularFixedRows(s, 1), 0, Total(s))

RegularPage(s, w, rows) ==
  IF RegularFixedRows(s, 5) + w + Total(s) <= rows THEN Total(s)
  ELSE Clamp(rows - RegularFixedRows(s, 1) - w, 0, Total(s))

CompactPage(s, rows) == Clamp(rows - 5, 0, Total(s))

LandscapeFull(s, w, rows) ==
  8 + Larger(SystemRows(s), 1 + Total(s)) + LowerRows(s, w) <= rows

\* DockerPageSize, which keys and the offset go by.
DockerPageSize(s, w, z) ==
  LET c == Configured(z) IN
  IF Layout(c) = "compact" THEN CompactPage(s, c.rows)
  ELSE IF Layout(c) = "regular" THEN RegularPage(s, w, c.rows)
  ELSE IF LandscapeFull(s, w, c.rows) THEN Total(s)
  ELSE Clamp(c.rows - 7 - LowerRows(s, w), 0, Total(s))

ClampDockerOffset(offset, total, page) ==
  IF page <= 0 \/ page >= total THEN 0 ELSE Clamp(offset, 0, total - page)

\* renderLandscape counts for itself.
LandscapeVisible(s, w, rows) ==
  IF LandscapeFull(s, w, rows) THEN Total(s)
  ELSE Clamp(rows - 7 - LowerRows(s, w), 0, Total(s))

\* RenderInteractiveView: the part of the sorted list that is drawn.
Frame(s, w, z, mode, offset) ==
  LET c == Configured(z)
      count == IF Layout(c) = "compact" THEN CompactPage(s, c.rows)
               ELSE IF Layout(c) = "regular" THEN RegularPage(s, w, c.rows)
               ELSE LandscapeVisible(s, w, c.rows)
  IN [size |-> c, snap |-> s, warned |-> w, mode |-> mode, count |-> count,
      first |-> ClampDockerOffset(offset, Total(s), count)]

\* buildSystemRows: the uptime, systemMetricRows, and five rows more.
SystemLines(s) == 1 + (3 + s.zram) + 5

\* The header is full if everything fits under it.
RegularHeader(f) ==
  IF RegularFixedRows(f.snap, 5) + f.warned + Total(f.snap) <= f.size.rows THEN 5 ELSE 1

LandscapeHeader(f) == IF LandscapeFull(f.snap, f.warned, f.size.rows) THEN 3 ELSE 1

\* The sections of renderRegular above Docker's: System Status, Disk Usage, Health.
RegularAbove(f) ==
  RegularHeader(f) + (1 + SystemLines(f.snap) + 1)
    + (2 + f.snap.usage + 1) + (2 + f.warned + f.snap.health + 1)

\* Docker Services, Storage Analysis, and the run footer if there is room.
RegularLines(f) ==
  LET lines == RegularAbove(f) + (2 + 1 + f.count + 1) + 5
  IN IF lines + 2 < f.size.rows THEN lines + 2 ELSE lines

\* layoutLandscape: two boxes side by side, a blank line, two boxes more.
LandscapeLines(f) ==
  LandscapeHeader(f) + (Larger(SystemLines(f.snap), 1 + f.count) + 2)
    + 1 + (LowerRows(f.snap, f.warned) + 2)

Lines(f) == IF Layout(f.size) = "compact" THEN 2 + (1 + 1 + f.count + 1)
            ELSE IF Layout(f.size) = "regular" THEN RegularLines(f)
            ELSE LandscapeLines(f)

\* The line with NAMES, RAM and STATUS.
HeaderLine(f) ==
  IF Layout(f.size) = "compact" THEN 4
  ELSE IF Layout(f.size) = "regular" THEN RegularAbove(f) + 3
  ELSE LandscapeHeader(f) + 2

-----------------------------------------------------------------------------
(* Order *)

\* The comparison of sortDockerContainers: names without regard to case
\* first, memory with ties by name.
Less(mode, c, d) ==
  \/ mode = "nameAsc" /\ (c.name < d.name \/ (c.name = d.name /\ c.exact < d.exact))
  \/ mode = "nameDesc" /\ (c.name > d.name \/ (c.name = d.name /\ c.exact > d.exact))
  \/ mode = "ramDesc" /\ (c.ram > d.ram \/ (c.ram = d.ram /\ c.name < d.name))
  \/ mode = "ramAsc" /\ (c.ram < d.ram \/ (c.ram = d.ram /\ c.name < d.name))

Precedes(cs, mode, i, j) ==
  Less(mode, cs[i], cs[j]) \/ (~Less(mode, cs[j], cs[i]) /\ i < j)

\* A stable sort: the place of a container is after all that precede it.
Place(cs, mode, i) == 1 + Cardinality({j \in DOMAIN cs : Precedes(cs, mode, j, i)})

Sorted(cs, mode) ==
  [k \in DOMAIN cs |-> cs[CHOOSE i \in DOMAIN cs : Place(cs, mode, i) = k]]

\* Faulty variant: the page is sorted, not the list.
ShownUnsorted(f) ==
  Sorted(SubSeq(f.snap.list, f.first + 1, f.first + f.count), f.mode)

Shown(f) == SubSeq(Sorted(f.snap.list, f.mode), f.first + 1, f.first + f.count)

\* A second click on a column turns its order round.
Toggle(column, mode) ==
  [names |-> IF mode = "nameAsc" THEN "nameDesc" ELSE "nameAsc",
   ram |-> IF mode = "ramDesc" THEN "ramAsc" ELSE "ramDesc",
   status |-> "default"][column]

\* Faulty variant: only the line itself.
ExactHeader(f, y) == y = HeaderLine(f)

\* dockerSortHeader: the header, up to two lines beside the click.
NearHeader(f, y) == y - HeaderLine(f) \in -2 .. 2

DockerSortForClick(f, column, y, mode) ==
  IF y >= 1 /\ NearHeader(f, y) THEN Toggle(column, mode) ELSE mode

-----------------------------------------------------------------------------
(* The loop of nasmon *)

\* Faulty variant: only the renderer clamps the offset.
DrawAnyway(s, mode, offset) ==
  /\ dockerOffset' = offset
  /\ lastFrame' = Frame(s, warned, size, mode, offset)

\* draw: the offset is clamped to the page, and the frame drawn with it.
Show(s, mode, offset) ==
  LET o == ClampDockerOffset(offset, Total(s), DockerPageSize(s, warned, size)) IN
  /\ dockerOffset' = o
  /\ lastFrame' = Frame(s, warned, size, mode, o)

ViewInit ==
  /\ size \in Sizes /\ winch = FALSE /\ warned = 0 /\ snap \in Snapshots
  /\ sortMode = "default" /\ dockerOffset = 0
  /\ lastFrame = Frame(snap, 0, size, "default", 0)

\* The terminal changes; a second signal finds the channel full.
Resize ==
  /\ size' \in Sizes \ {size}
  /\ winch' = TRUE
  /\ UNCHANGED <<warned, snap, sortMode, dockerOffset, lastFrame>>

\* A collector's status grows old or recovers.
Warn ==
  /\ warned' \in 0 .. MaxWarnings
  /\ UNCHANGED <<size, winch, snap, sortMode, dockerOffset, lastFrame>>

\* A tick of the client, or an update of the store in standalone mode.
NewSnapshot ==
  /\ snap' \in Snapshots
  /\ Show(snap', sortMode, dockerOffset)
  /\ UNCHANGED <<size, winch, warned, sortMode>>

\* Faulty variant: the frame keeps its size.
WinchStale ==
  /\ winch
  /\ winch' = FALSE
  /\ lastFrame' = Frame(snap, warned, lastFrame.size, sortMode, dockerOffset)
  /\ UNCHANGED <<size, warned, snap, sortMode, dockerOffset>>

Winch ==
  /\ winch
  /\ winch' = FALSE
  /\ Show(snap, sortMode, dockerOffset)
  /\ UNCHANGED <<size, warned, snap, sortMode>>

Keys == {"up", "down", "pageUp", "pageDown", "home", "end"}

\* The offset a key asks for.
Moved(key, offset, total, page) ==
  LET step == Larger(page, 1) IN
  [up |-> offset - 1, down |-> offset + 1, pageUp |-> offset - step,
   pageDown |-> offset + step, home |-> 0, end |-> Larger(total - page, 0)][key]

\* handleDockerInput's end, and the loop's redraw if anything has changed.
Settle(mode, offset) ==
  LET o == ClampDockerOffset(offset, Total(snap), DockerPageSize(snap, warned, size))
  IN /\ sortMode' = mode
     /\ IF mode # sortMode \/ o # dockerOffset
        THEN Show(snap, mode, o)
        ELSE UNCHANGED <<dockerOffset, lastFrame>>
     /\ UNCHANGED <<size, winch, warned, snap>>

Press(key) ==
  Settle(sortMode, Moved(key, dockerOffset, Total(snap),
                         DockerPageSize(snap, warned, size)))

\* Another order is shown from its beginning.
Click(column, y) ==
  LET next == DockerSortForClick(lastFrame, column, y, sortMode) IN
  Settle(next, IF next # sortMode THEN 0 ELSE dockerOffset)

Columns == {"names", "ram", "status"}

ViewNext ==
  \/ Resize \/ Warn \/ NewSnapshot \/ Winch
  \/ \E key \in Keys : Press(key)
  \/ \E column \in Columns, by \in -3 .. 3 :
       Click(column, HeaderLine(lastFrame) + by)

ViewSpec == ViewInit /\ [][ViewNext]_viewVars

\* The loop comes back to its select, which does not pass a case over forever.
FairViewSpec == ViewSpec /\ WF_viewVars(Winch)

-----------------------------------------------------------------------------
(* Properties *)

\* What the least frame of a layout needs, without any container.
Smallest(f) ==
  IF Layout(f.size) = "compact" THEN 5
  ELSE IF Layout(f.size) = "regular" THEN RegularFixedRows(f.snap, 1) + f.warned
  ELSE 6 + SystemRows(f.snap) + LowerRows(f.snap, f.warned)

Fits(f) == Smallest(f) <= f.size.rows

\* The types of the variables.
ViewTypeOK ==
  /\ size \in Sizes /\ winch \in BOOLEAN /\ warned \in 0 .. MaxWarnings
  /\ snap \in Snapshots /\ sortMode \in Modes /\ dockerOffset \in Nat
  /\ lastFrame \in [size : Size, snap : Snapshots, warned : 0 .. MaxWarnings,
                    mode : Modes, first : Nat, count : Nat]

\* What keys move is what is on the screen, after any sequence of keys,
\* clicks, sizes and snapshots: the offset and the order kept are those of the
\* last frame, a page of it is in the list, and it is the page of the keys,
\* although DockerPageSize and the renderers count rows each in their own way.
OffsetOfFrame ==
  /\ dockerOffset = lastFrame.first /\ sortMode = lastFrame.mode
  /\ snap = lastFrame.snap
  /\ lastFrame.first + lastFrame.count <= Total(snap)
  /\ lastFrame.count =
       DockerPageSize(lastFrame.snap, lastFrame.warned, lastFrame.size)

\* adaptive_test.go:51 "rendered %d rows, terminal has %d": with however many
\* containers and warnings, if the least frame fits then the frame does; and
\* containers are hidden only if not even one more row would fit.
FrameFits ==
  Fits(lastFrame) =>
    /\ Lines(lastFrame) <= lastFrame.size.rows
    /\ lastFrame.count < Total(snap) => Lines(lastFrame) = lastFrame.size.rows

\* interaction_test.go "viewport did not slice the globally sorted list": no
\* hidden container belongs between two that are shown, and none is shown twice.
PageOfSortedList ==
  LET rows == Shown(lastFrame)
      shown == {rows[i] : i \in 1 .. lastFrame.count}
      hidden == {snap.list[i] : i \in 1 .. Total(snap)} \ shown
  IN /\ \A i, j \in 1 .. lastFrame.count :
          i < j => /\ rows[i] # rows[j]
                   /\ ~Less(sortMode, rows[j], rows[i])
     /\ \A h \in hidden :
          (\A c \in shown : ~Less(sortMode, c, h)) \/ (\A c \in shown : ~Less(sortMode, h, c))

\* The last line of a frame ends in a newline: what the terminal scrolls by.
Scrolled(f) == Larger(Lines(f) + 1 - f.size.rows, 0)

\* A click on the header where the terminal shows it, after it has scrolled,
\* sorts by that column, as long as the frame fits.
ClickSorts ==
  Fits(lastFrame) =>
    \A column \in Columns :
      DockerSortForClick(lastFrame, column, HeaderLine(lastFrame) - Scrolled(lastFrame),
                         sortMode) = Toggle(column, sortMode)

\* Whatever else happens, again and again the frame is of the terminal's size.
ResizeShown == []<>(lastFrame.size = Configured(size))
=============================================================================
