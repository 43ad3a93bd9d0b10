-------------------------- MODULE FlamescopeLayout -------------------------
(* Where the heatmap of the Flamescope tab lies in its area of the screen:  *)
(* a grid of cells of one size, after the row labels, centred. Positions    *)
(* count from the corner of the area.                                       *)
EXTENDS Integers, FiniteSetsExt

CONSTANTS Rows,        \* SUBSECOND_ROWS, GRID_ROWS
          GridCols,    \* GRID_COLS
          LabelWidth,  \* LABEL_W
          MinWidth, MinHeight  \* of an area that has a layout

ASSUME LayoutAssumption ==
    /\ Rows \in Nat \ {0} /\ GridCols \in Nat \ {0}
    /\ LabelWidth \in Nat /\ MinWidth \in Nat /\ MinHeight \in Nat

HasLayout(area) == area.width >= MinWidth /\ area.height >= MinHeight

SaturatingSub(a, b) == IF a > b THEN a - b ELSE 0

CellHeight(area) == Max({area.height \div Rows, 1})

CellWidth(area) == Max({SaturatingSub(area.width, LabelWidth) \div GridCols, 2})

PadTop(area) == SaturatingSub(area.height, CellHeight(area) * Rows) \div 2

PadLeft(area) ==
    SaturatingSub(area.width, LabelWidth + CellWidth(area) * GridCols) \div 2

RowY(area, row) == PadTop(area) + row * CellHeight(area)

CellX(area, offset) == PadLeft(area) + LabelWidth + offset * CellWidth(area)

(* What of one cell of the grid lies inside the area.                       *)
Painted(area, offset, row) ==
    LET x == CellX(area, offset)
        y == RowY(area, row)
    IN ((x .. x + CellWidth(area) - 1) \X (y .. y + CellHeight(area) - 1))
         \cap ((0 .. area.width - 1) \X (0 .. area.height - 1))

(* Every cell and every label of the grid is inside the area.               *)
GridFits(area) ==
    HasLayout(area) /\ area.width >= LabelWidth + 2 * GridCols /\ area.height >= Rows
============================================================================
