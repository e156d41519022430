----------------------------- MODULE LogDevices -----------------------------
(***************************************************************************)
(* The devices of the kernel log's readers: a text console (vga.c with     *)
(* console.c) and a serial port (uart16550a.c).                            *)
(***************************************************************************)
EXTENDS KernelLog, Console

(* map_colour of vga.c.                                                    *)
MapColour(level) ==
    CASE level \in {0, 1, 2} -> "red"
      [] level = 3 -> "bright red"
      [] level = 4 -> "yellow"
      [] level \in {5, 6} -> "bright green"
      [] OTHER -> "gray"

(* The two do_log callbacks.                                               *)
DeviceLog(r, dev, ev) ==
    IF r = "vga" THEN ConsoleWrite(dev, ev.text, MapColour(ev.loglevel))
                 ELSE dev \o Append(ev.text, LF)

InitDevices == [r \in Readers |-> IF r = "vga" THEN ErasedConsole ELSE <<>>]

-----------------------------------------------------------------------------
(* The rows of a text on a screen without a bottom: a row ends at a        *)
(* linefeed or when it is full, and the last row is the one that grows.    *)
AddCell(rows, c, colour) ==
    LET n == Len(rows)
        row == Append(rows[n], Cell(c, colour))
    IN  [rows EXCEPT ![n] = row] \o (IF Len(row) = Width THEN <<<<>>>> ELSE <<>>)

RECURSIVE AddBlanks(_, _, _)
AddBlanks(rows, n, colour) ==
    IF n = 0 THEN rows ELSE AddBlanks(AddCell(rows, BLANK, colour), n - 1, colour)

RECURSIVE Rows(_, _, _)
Rows(rows, str, colour) ==
    IF str = <<>> THEN Append(rows, <<>>)
    ELSE LET c == Head(str)
             col == Len(rows[Len(rows)])
             more == CASE c = LF -> Append(rows, <<>>)
                       [] c = HT -> AddBlanks(rows, TabWidth - (col % TabWidth), colour)
                       [] IsPrint(c) -> AddCell(rows, c, colour)
                       [] OTHER -> rows
         IN  Rows(more, Tail(str), colour)

RECURSIVE Unrolled(_, _)
Unrolled(rows, events) ==
    IF events = <<>> THEN rows
    ELSE LET e == Head(events)
         IN  Unrolled(Rows(rows, e.text, MapColour(e.loglevel)), Tail(events))

(* The console shows the last Height rows of the text it was given, padded *)
(* with blanks, and its position is the end of that text.                  *)
ConsoleShowsLastRows ==
    LET rows == Unrolled(<<<<>>>>, heard["vga"])
        n == Len(rows)
        top == IF n > Height THEN n - Height ELSE 0
        k == out["vga"]
    IN  /\ k.row = n - top - 1
        /\ k.col = Len(rows[n])
        /\ \A row \in 1..Height, col \in 1..Width :
             k.buffer[row][col] =
               IF top + row <= n /\ col <= Len(rows[top + row])
                 THEN rows[top + row][col]
                 ELSE Cell(BLANK, EraseColour)
==============================================================================
