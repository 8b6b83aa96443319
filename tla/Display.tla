------------------------------ MODULE Display ------------------------------
(* The screen and the terminals behind it: putc, putc_for_keyboard and the    *)
(* clears of lib.c, which draw with the cursor of a terminal; terminal_write; *)
(* terminal_swap, which copies pages; remapB8 and the page tables of paging.c,*)
(* which decide what the addresses mean; and sys_vidmap.                      *)
(*                                                                            *)
(* There are NumTerminals + 1 pages of video memory: page 0 is on the screen, *)
(* page t + 1 keeps what terminal t shows while it is not.  The kernel sees   *)
(* page 0 always at 0xBC000 and page t + 1 at its own address; 0xB8000 is the *)
(* page remapB8 chose.  Attributes and the hardware cursor are left out.      *)
EXTENDS Integers, Sequences, SequencesExt

CONSTANTS NumTerminals,  (* 3 in the code                                     *)
          NumCols,       (* 80                                                *)
          NumRows,       (* 25                                                *)
          TabSpaces,     (* 4                                                 *)
          BufferSize,    (* MAX_BUFFER_SIZE = 128                             *)
          Chars,         (* the characters other than the space               *)
          BLANK,         (* ' '                                               *)
          Drawers,       (* bound: terminals whose program maps the screen    *)
          Kept,          (* bound: FALSE forgets what a swap leaves in the    *)
                         (* backing page of the terminal it shows, which is   *)
                         (* overwritten before anybody sees it again          *)
          Hazards        (* the windows a run lets the environment hit        *)

HazardKinds == {"stale",  (* a program prints between a swap and a tick       *)
                "tab",    (* a tab wraps off the last row                     *)
                "mapped", (* a swap while a program has the screen mapped     *)
                "back",   (* a program prints '\b' at column 0, or while the  *)
                          (* user has a line under way                        *)
                "prompt", (* the user types a line that begins like a prompt  *)
                "echo"}   (* a swap between the spaces of a tab that is typed *)

Terminals == 0 .. NumTerminals - 1
Pages     == 0 .. NumTerminals
Cell      == 0 .. NumRows * NumCols - 1
Glyph     == Chars \cup {BLANK}

ASSUME DisplayAssumption ==
    /\ NumTerminals \in Nat \ {0}
    /\ NumCols \in Nat \ {0}
    /\ NumRows \in Nat \ {0}
    /\ TabSpaces \in 1 .. NumCols  \* a tab wraps off one row at most
    /\ BufferSize \in 0 .. (NumRows - 1) * NumCols  \* a line never fills the screen
    /\ Drawers \subseteq Terminals
    /\ Kept \in BOOLEAN
    /\ Hazards \subseteq HazardKinds

VARIABLES
    terminal_shown,
    current_terminal,
    page,       (* page[p]: the cells of a page of video memory               *)
    b8,         (* the page at 0xB8000, for the kernel and for programs       *)
    cursor,     (* cursor_xpos and cursor_ypos of each terminal               *)
    numchar,    (* numchar_for_this_terminal                                  *)
    vidmap,     (* what sys_vidmap told the program: the page it names, -1 if *)
                (* the address is the remapped one, NumTerminals + 1 if none  *)
    key,        (* the key whose handler has echoed and not counted, or none  *)
    console     (* history: the lines of a terminal of one's own              *)

vars == <<terminal_shown, current_terminal, page, b8, cursor, numchar, vidmap, key, console>>

REMAPPED == -1
UNMAPPED == NumTerminals + 1

(* A key under way: the terminal whose program it interrupted, the terminal it*)
(* counts on, the echoes still to come and the count it is about to raise,    *)
(* COUNTED when the next echo comes first.                                    *)
COUNTED == -1
NoKey   == [flow |-> -1, t |-> -1, left |-> 0, value |-> COUNTED]
AKey    == [flow : Terminals, t : Terminals, left : 0 .. TabSpaces - 1,
            value : {COUNTED} \cup 0 .. BufferSize - 1]

(* Pages, cursors and counts have their types: a cursor may stand one row     *)
(* below the screen, as after a wrap in the last row (putc).                  *)
TypeOK ==
    /\ terminal_shown \in Terminals
    /\ current_terminal \in Terminals
    /\ page \in [Pages -> [Cell -> Glyph]]
    /\ b8 \in Pages
    /\ cursor \in [Terminals -> [x : 0 .. NumCols - 1, y : 0 .. NumRows]]
    /\ numchar \in [Terminals -> 0 .. BufferSize]
    /\ vidmap \in [Terminals -> Pages \cup {REMAPPED, UNMAPPED}]
    /\ key \in AKey \cup {NoKey}

Cleared == [k \in Cell |-> BLANK]

(* paging_init, clear and init_terminal_struct.                               *)
Init ==
    /\ terminal_shown = 0
    /\ current_terminal = 0
    /\ page = [p \in Pages |-> Cleared]
    /\ b8 = 0
    /\ cursor = [t \in Terminals |-> [x |-> 0, y |-> 0]]
    /\ numchar = [t \in Terminals |-> 0]
    /\ vidmap = [t \in Terminals |-> UNMAPPED]
    /\ key = NoKey
    /\ console = [t \in Terminals |-> <<<<>>>>]
-----------------------------------------------------------------------------
(* Drawing: a screen is a page with a cursor.  A write below the last row     *)
(* lands in the part of the page that is not shown.                           *)
Draw(s, g) ==
    LET k == NumCols * s.y + s.x IN
    IF k \in Cell THEN [s EXCEPT !.cells[k] = g] ELSE s

(* The test at the start of putc: a cursor below the last row scrolls first.  *)
Scrolled(s) ==
    IF s.y # NumRows THEN s
    ELSE [cells |-> [k \in Cell |-> IF k + NumCols \in Cell THEN s.cells[k + NumCols] ELSE BLANK],
          x |-> 0, y |-> NumRows - 1]

Newline(s) == [s EXCEPT !.x = 0, !.y = @ + 1]

PutGlyph(s, g) ==
    [Draw(s, g) EXCEPT !.x = (s.x + 1) % NumCols, !.y = @ + (s.x + 1) \div NumCols]

(* One space of a tab: it only wraps at the last column itself.               *)
PutSpace(s) ==
    IF s.x + 1 = NumCols THEN Newline(Draw(s, BLANK))
    ELSE [Draw(s, BLANK) EXCEPT !.x = @ + 1]

PutTab(s) ==
    LET spaces[n \in 0 .. TabSpaces] == IF n = 0 THEN s ELSE PutSpace(spaces[n - 1])
    IN  spaces[TabSpaces]

(* '\b' of putc: before the first column it goes up a row, past its last      *)
(* column, which is the same cell.                                            *)
PutBack(s) ==
    Draw(IF s.x = 0 THEN [s EXCEPT !.y = @ - 1, !.x = NumCols] ELSE [s EXCEPT !.x = @ - 1],
         BLANK)

(* '\b' of putc_for_keyboard: before the first column is the last of the row  *)
(* above.                                                                     *)
Back(s) == IF s.x = 0 THEN [s EXCEPT !.y = @ - 1, !.x = NumCols - 1] ELSE [s EXCEPT !.x = @ - 1]

Erase(s) == Draw(Back(s), BLANK)

Screen(p, t) == [cells |-> page[p], x |-> cursor[t].x, y |-> cursor[t].y]

(* Page p and the cursor of terminal t become screen s.                       *)
Becomes(p, t, s) ==
    /\ page' = [page EXCEPT ![p] = s.cells]
    /\ cursor' = [cursor EXCEPT ![t] = [x |-> s.x, y |-> s.y]]

(* Bound: a cursor that "back" took above the page, or that tabs take further *)
(* and further off the last column from there, is not followed.               *)
Followed(s) == s.y >= 0 /\ s.x < 2 * NumCols
-----------------------------------------------------------------------------
(* The reference: a console as a list of lines, the last of them the one the  *)
(* cursor is on, with at most NumRows of them on the screen.  A line that is  *)
(* left is filled with spaces.                                                *)
Visible(lines) == IF Len(lines) > NumRows THEN Tail(lines) ELSE lines

Filled(l) == [k \in 1 .. NumCols |-> IF k \in DOMAIN l THEN l[k] ELSE BLANK]

AddLine(lines) ==
    LET ls == Visible(lines) IN Front(ls) \o <<Filled(Last(ls)), <<>>>>

AddGlyph(lines, g) ==
    LET ls   == Visible(lines)
        last == Append(Last(ls), g)
    IN  Front(ls) \o IF Len(last) = NumCols THEN <<last, <<>>>> ELSE <<last>>

AddTab(lines) ==
    LET spaces[n \in 0 .. TabSpaces] == IF n = 0 THEN lines ELSE AddGlyph(spaces[n - 1], BLANK)
    IN  spaces[TabSpaces]

(* An empty line gives way to the one above.                                  *)
RemoveGlyph(lines) ==
    LET ls == Visible(lines)
        kept == IF Last(ls) = <<>> /\ Len(ls) > 1 THEN Front(ls) ELSE ls
    IN  Append(Front(kept), Front(Last(kept)))

Glyphs(lines) ==
    [k \in Cell |-> LET row == (k \div NumCols) + 1
                        col == (k % NumCols) + 1
                    IN  IF row \in DOMAIN lines /\ col \in DOMAIN lines[row]
                        THEN lines[row][col] ELSE BLANK]
-----------------------------------------------------------------------------
(* remapB8: the page at 0xB8000 while terminal t runs.                        *)
PageFor(t) == IF t = terminal_shown THEN 0 ELSE t + 1

(* A tick has remapped B8 since the last swap.                                *)
MayPrint == b8 = PageFor(current_terminal) \/ "stale" \in Hazards

(* The flow of control of the running terminal is not in the middle of a key. *)
Free == key.flow # current_terminal

(* terminal_write of the running program, one character at a time: putc at    *)
(* 0xB8000 with the cursor of the terminal.                                   *)
Prints(s, lines) ==
    /\ Free
    /\ MayPrint
    /\ Followed(s)
    /\ Becomes(b8, current_terminal, s)
    /\ console' = [console EXCEPT ![current_terminal] = lines]
    /\ UNCHANGED <<terminal_shown, current_terminal, b8, numchar, vidmap, key>>

PutChar(g) ==
    LET t == current_terminal IN
    Prints(PutGlyph(Scrolled(Screen(b8, t)), g), AddGlyph(console[t], g))

PrintNewline ==
    LET t == current_terminal IN
    Prints(Newline(Scrolled(Screen(b8, t))), AddLine(console[t]))

PrintTab ==
    LET t == current_terminal
        s == Scrolled(Screen(b8, t))
    IN  /\ s.y = NumRows - 1 /\ s.x + TabSpaces > NumCols => "tab" \in Hazards
        /\ Prints(PutTab(s), AddTab(console[t]))

PrintBackspace ==
    LET t == current_terminal
        s == Scrolled(Screen(b8, t))
    IN  /\ s.x = 0 \/ numchar[t] > 0 \/ key.t = t => "back" \in Hazards
        /\ Prints(PutBack(s), RemoveGlyph(console[t]))

(* The newline before what looks like a prompt, unless the line is empty.     *)
PromptLine == Newline(Scrolled(Screen(b8, current_terminal)))

(* The shell's prompt starts on a line of its own.                            *)
PrintPrompt(g) ==
    LET t == current_terminal IN
    /\ cursor[t].x # 0
    /\ Prints(PutGlyph(Scrolled(PromptLine), g), AddGlyph(AddLine(console[t]), g))
-----------------------------------------------------------------------------
(* The keyboard handler draws at 0xBC000 with the cursor of the terminal that *)
(* is shown; a key waits until the handler of the one before has ended.       *)
Echoes(s, lines, n) ==
    /\ key = NoKey
    /\ Followed(s)
    /\ Becomes(0, terminal_shown, s)
    /\ numchar' = [numchar EXCEPT ![terminal_shown] = n]
    /\ console' = [console EXCEPT ![terminal_shown] = lines]
    /\ UNCHANGED <<terminal_shown, current_terminal, b8, vidmap, key>>

Shown == Scrolled(Screen(0, terminal_shown))

(* The echo of character g, of a key that counts on terminal t, through       *)
(* terminal_write, which is handed the line as typed: if it begins like the   *)
(* prompt, the terminal that runs, whichever is typed on, starts a line first.*)
EchoOf(g, t, like) ==
    LET now    == current_terminal
        breaks == like /\ cursor[now].x # 0
        pages  == IF breaks THEN [page EXCEPT ![b8] = PromptLine.cells] ELSE page
        at     == IF breaks THEN [cursor EXCEPT ![now] = [x |-> PromptLine.x, y |-> PromptLine.y]]
                  ELSE cursor
        s      == PutGlyph(Scrolled([cells |-> pages[0], x |-> at[terminal_shown].x,
                                     y |-> at[terminal_shown].y]), g)
    IN  /\ like => "prompt" \in Hazards /\ MayPrint
        /\ Followed(s)
        /\ page' = [pages EXCEPT ![0] = s.cells]
        /\ cursor' = [at EXCEPT ![terminal_shown] = [x |-> s.x, y |-> s.y]]
        /\ console' = [console EXCEPT ![t] = AddGlyph(@, g)]
        /\ UNCHANGED <<terminal_shown, current_terminal, b8, numchar, vidmap>>

(* A key begins: it echoes, and terminal_write lets interrupts in.            *)
Begins(g, like, n) ==
    LET t == terminal_shown IN
    /\ key = NoKey
    /\ EchoOf(g, t, like)
    /\ key' = [flow |-> current_terminal, t |-> t, left |-> n, value |-> numchar[t]]

Type(g, like) ==
    /\ numchar[terminal_shown] < BufferSize
    /\ Begins(g, like, 0)

(* A tab is typed as spaces, by one handler; with less room than that it is   *)
(* one space, typed like a character.                                         *)
TypeTab(like) ==
    /\ numchar[terminal_shown] <= BufferSize - TabSpaces
    /\ Begins(BLANK, like, TabSpaces - 1)

(* The handler counts the character, on the terminal that was shown when it   *)
(* began; the count may have been reset since it was loaded.                  *)
KeyCounts ==
    /\ ~Free
    /\ key.value # COUNTED
    /\ \E n \in {key.value, numchar[key.t]} : numchar' = [numchar EXCEPT ![key.t] = n + 1]
    /\ key' = IF key.left = 0 THEN NoKey ELSE [key EXCEPT !.value = COUNTED]
    /\ UNCHANGED <<terminal_shown, current_terminal, page, b8, cursor, vidmap, console>>

(* The next space of a tab: stored at the count of the terminal it is typed   *)
(* on, and read back at the count of the one that is shown by the time of the *)
(* echo, which is another character when that is another terminal, or when    *)
(* the line has been taken meanwhile.                                         *)
TabGoesOn(g, like) ==
    /\ ~Free
    /\ key.value = COUNTED
    /\ g # BLANK => key.t # terminal_shown \/ numchar[key.t] = 0
    /\ EchoOf(g, key.t, like)
    /\ key' = [key EXCEPT !.left = @ - 1, !.value = numchar[key.t]]

TypeEnter ==
    LET t == terminal_shown IN Echoes(Newline(Shown), AddLine(console[t]), numchar[t])

TypeBackspace ==
    LET t == terminal_shown IN
    /\ numchar[t] > 0
    /\ Echoes(Erase(Shown), RemoveGlyph(console[t]), numchar[t] - 1)

(* Seeded fault: the characters typed so far can still be erased.             *)
NumcharAfterClearKept == numchar[terminal_shown]

NumcharAfterClear == 0

(* Control-L: clear_for_keyboard.                                             *)
TypeClear == Echoes([cells |-> Cleared, x |-> 0, y |-> 0], <<<<>>>>, NumcharAfterClear)

(* terminal_read of the running program takes the line.                       *)
TakeLine ==
    /\ Free
    /\ numchar' = [numchar EXCEPT ![current_terminal] = 0]
    /\ UNCHANGED <<terminal_shown, current_terminal, page, b8, cursor, vidmap, key, console>>

(* Seeded fault: the screen is not saved first.                               *)
AfterSwapUnsaved(t) == [page EXCEPT ![0] = page[t + 1]]

(* The two copies of terminal_swap.                                           *)
AfterSwap(t) ==
    [page EXCEPT ![terminal_shown + 1] = page[0], ![0] = page[t + 1],
                 ![t + 1] = IF Kept THEN @ ELSE Cleared]

terminal_swap(t) ==
    /\ Free
    /\ t # terminal_shown
    /\ (\E u \in Terminals : vidmap[u] # UNMAPPED) => "mapped" \in Hazards
    /\ key.left > 0 => "echo" \in Hazards
    /\ page' = AfterSwap(t)
    /\ terminal_shown' = t
    /\ UNCHANGED <<current_terminal, b8, cursor, numchar, vidmap, key, console>>

(* A tick: the next terminal runs, on the page remapB8 chooses for it.        *)
PITTick ==
    LET t == (current_terminal + 1) % NumTerminals IN
    /\ current_terminal' = t
    /\ b8' = PageFor(t)
    /\ UNCHANGED <<terminal_shown, page, cursor, numchar, vidmap, key, console>>

(* Seeded fault: every program gets the remapped address (what the code did   *)
(* before it had a page for each terminal).                                   *)
VidmapOfShown(t) == 0

(* sys_vidmap: the remapped address if the caller is on the screen, else the  *)
(* address of its backing page.                                               *)
VidmapOf(t) == IF t = terminal_shown THEN REMAPPED ELSE t + 1

sys_vidmap ==
    /\ Free
    /\ current_terminal \in Drawers
    /\ MayPrint
    /\ vidmap' = [vidmap EXCEPT ![current_terminal] = VidmapOf(current_terminal)]
    /\ UNCHANGED <<terminal_shown, current_terminal, page, b8, cursor, numchar, key, console>>

(* sys_halt of the program, on a terminal that keeps its screen.              *)
sys_halt ==
    /\ Free
    /\ vidmap' = [vidmap EXCEPT ![current_terminal] = UNMAPPED]
    /\ numchar' = [numchar EXCEPT ![current_terminal] = 0]
    /\ UNCHANGED <<terminal_shown, current_terminal, page, b8, cursor, key, console>>

Next ==
    \/ \E g \in Glyph : PutChar(g)
    \/ \E g \in Chars : PrintPrompt(g)
    \/ PrintNewline \/ PrintTab \/ PrintBackspace
    \/ \E like \in BOOLEAN :
          \/ TypeTab(like)
          \/ \E g \in Glyph : Type(g, like) \/ TabGoesOn(g, like)
    \/ KeyCounts
    \/ TypeEnter \/ TypeBackspace \/ TypeClear \/ TakeLine
    \/ \E t \in Terminals : terminal_swap(t)
    \/ PITTick \/ sys_vidmap \/ sys_halt

Spec == Init /\ [][Next]_vars
-----------------------------------------------------------------------------
(* The page that holds what terminal t shows.                                 *)
PictureOf(t) == PageFor(t)

(* What is on the screen, or in the backing page, of every terminal is what a *)
(* console of its own would show, whatever runs, types, scrolls and is swapped*)
(* to meanwhile.                                                              *)
PictureIsConsole ==
    \A t \in Terminals :
        /\ page[PictureOf(t)] = Glyphs(console[t])
        /\ cursor[t].y = Len(console[t]) - 1
        /\ cursor[t].x = Len(Last(console[t]))

(* The cursor has at least as many cells behind it as there are characters the*)
(* user may erase, through scrolls, clears, output and reads in between: an   *)
(* erasure never leaves the top of the page.                                  *)
EraseStaysOnScreen ==
    \A t \in Terminals : numchar[t] <= NumCols * cursor[t].y + cursor[t].x

(* A program that has mapped the screen draws on the picture of its terminal  *)
(* whenever it runs.                                                          *)
VidmapIsPicture ==
    LET t == current_terminal IN
    vidmap[t] # UNMAPPED =>
        (IF vidmap[t] = REMAPPED THEN b8 ELSE vidmap[t]) = PictureOf(t)
=============================================================================
