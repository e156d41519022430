------------------------------- MODULE Console -------------------------------
(***************************************************************************)
(* The text console shared by the VGA and the framebuffer drivers          *)
(* (kernel/infrastructure/i686/drivers/console.c): a buffer of Height rows *)
(* of Width cells, a position, wrapping and scrolling.  A console is a     *)
(* record; the operators are the functions of console.c.  The buffer is a  *)
(* sequence of rows, a row a sequence of cells, a cell a character with    *)
(* its colour.                                                             *)
(***************************************************************************)
EXTENDS Integers, Sequences

CONSTANTS Width,        \* console->width
          Height,       \* console->height
          TabWidth,     \* CONSOLE_TAB_WIDTH
          EraseColour   \* console->erase_colour

(* The characters the drivers tell apart: printable ones, the linefeed,    *)
(* the tab, and the ones that are dropped.                                 *)
LF == "lf"
HT == "ht"
CTRL == "ctrl"
BLANK == "sp"
IsPrint(c) == c \notin {LF, HT, CTRL}

Cell(c, colour) == [char |-> c, colour |-> colour]
BlankRow == [col \in 1..Width |-> Cell(BLANK, EraseColour)]

(* initialize_console, then erase_console.                                 *)
ErasedConsole ==
    [row |-> 0, col |-> 0, buffer |-> [row \in 1..Height |-> BlankRow]]

-----------------------------------------------------------------------------
WrapText(k) ==
    IF k.col < Width THEN k
    ELSE [k EXCEPT !.col = @ - Width, !.row = @ + 1]

(* A plausible mistake: the row that scrolls in keeps its old text.        *)
ScrollTextUnerased(k) ==
    IF k.row < Height THEN k
    ELSE [k EXCEPT !.row = @ - 1, !.buffer = Append(Tail(@), @[Height])]

(* The rows move up by one and the last one is erased.                     *)
ScrollText(k) ==
    IF k.row < Height THEN k
    ELSE [k EXCEPT !.row = @ - 1, !.buffer = Append(Tail(@), BlankRow)]

(* The default case of write_character, with the scroll that follows it.   *)
WritePrintable(k, c, colour) ==
    ScrollText(WrapText(
        [k EXCEPT !.buffer[k.row + 1][k.col + 1] = Cell(c, colour), !.col = @ + 1]))

RECURSIVE WriteBlanks(_, _, _)
WriteBlanks(k, n, colour) ==
    IF n = 0 THEN k
    ELSE WriteBlanks(WritePrintable(k, BLANK, colour), n - 1, colour)

(* write_character: a linefeed also returns to the first column, and a tab *)
(* writes blanks up to the next tab stop.                                  *)
WriteCharacter(k, c, colour) ==
    CASE c = LF ->
            ScrollText([k EXCEPT !.col = 0, !.row = @ + 1])
      [] c = HT ->
            ScrollText(WriteBlanks(k, TabWidth - (k.col % TabWidth), colour))
      [] IsPrint(c) -> WritePrintable(k, c, colour)
      [] OTHER -> ScrollText(k)

(* console_write: the string, then a linefeed.                             *)
RECURSIVE ConsoleWrite(_, _, _)
ConsoleWrite(k, str, colour) ==
    IF str = <<>> THEN WriteCharacter(k, LF, colour)
    ELSE ConsoleWrite(WriteCharacter(k, Head(str), colour), Tail(str), colour)
==============================================================================
