------------------------------ MODULE Terminal ------------------------------
(***************************************************************************)
(* What printk() promises whoever reads the screen, without a frame        *)
(* buffer: characters appear one after the other, a full line goes on in   *)
(* the next, and below the last line everything moves up by one.  What     *)
(* comes in at the bottom are the lines that wait below the screen, the    *)
(* last of them over and over again.                                       *)
(* A cell shows a set of marks; a character leaves its own, alone or over  *)
(* what was there.                                                         *)
(***************************************************************************)
EXTENDS Integers, Sequences

CONSTANTS
    Chars,    \* characters that leave a mark
    Marks(_)  \* the marks of a character

VARIABLES
    size,     \* [cols, rows], or Off before the screen is set up
    grid,     \* the marks in each cell, by <<column, row>>
    below,    \* the lines below the screen, each the marks by column
    cursor    \* where the next character appears

tvars == <<size, grid, below, cursor>>

Off == [cols |-> 0, rows |-> 0]
Home == [col |-> 0, row |-> 0]
Cells == (0 .. size.cols - 1) \X (0 .. size.rows - 1)

TInit == size = Off /\ grid = << >> /\ below = << >> /\ cursor = Home

\* The screen starts with whatever is on it and below it.
TurnOn ==
    /\ size = Off /\ size' # Off
    /\ cursor' = Home
    /\ DOMAIN grid' = (0 .. size'.cols - 1) \X (0 .. size'.rows - 1)
    /\ below' # << >>
    /\ \A k \in DOMAIN below' : DOMAIN below'[k] = 0 .. size'.cols - 1

Up(g) ==
    /\ grid' = [p \in Cells |-> IF p[2] = size.rows - 1 THEN Head(below)[p[1]] ELSE g[<<p[1], p[2] + 1>>]]
    /\ below' = Append(Tail(below), below[Len(below)])

Down(g) ==
    IF cursor.row + 1 = size.rows
    THEN Up(g) /\ cursor' = [cursor EXCEPT !.col = 0]
    ELSE grid' = g /\ cursor' = [col |-> 0, row |-> cursor.row + 1] /\ UNCHANGED below

LineFeed == size # Off /\ Down(grid) /\ UNCHANGED size

Return == size # Off /\ cursor' = [cursor EXCEPT !.col = 0] /\ UNCHANGED <<size, grid, below>>

Show(c) ==
    LET here == <<cursor.col, cursor.row>> IN
    /\ size # Off
    /\ \E over \in {{}, grid[here]} :
         LET g == [grid EXCEPT ![here] = over \cup Marks(c)] IN
         IF cursor.col + 1 = size.cols THEN Down(g)
         ELSE grid' = g /\ cursor' = [cursor EXCEPT !.col = @ + 1] /\ UNCHANGED below
    /\ UNCHANGED size

TNext == TurnOn \/ LineFeed \/ Return \/ \E c \in Chars : Show(c)

TSpec == TInit /\ [][TNext]_tvars
=============================================================================
