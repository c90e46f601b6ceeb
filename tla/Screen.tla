------------------------------- MODULE Screen -------------------------------
(***************************************************************************)
(* The kernel's console (stdio/stdio.c): the frame buffer that             *)
(* open_mod_vbe() takes over from GRUB, the background picture that        *)
(* bmp2vbe() draws (file/file.c) or cls() in its place, and printk(),      *)
(* which spells numbers with itoa() and whose characters putc() draws,     *)
(* wraps and scrolls.  All callers run with interrupts disabled; one step  *)
(* is a character or a conversion.                                         *)
(*                                                                         *)
(* mem is the memory from vbe_header.addr on, also behind the screen, one  *)
(* entry for a pixel or for a character and its attribute.                 *)
(***************************************************************************)
EXTENDS Integers, Sequences

CONSTANTS
    Text,       \* [x, y] of the text screen (80 x 25)
    Graphic,    \* [x, y] of the graphic one, in pixels
    FontX, FontY,
    Numerals,   \* "0" to "9"
    Letters,    \* "a" to "f"
    Minus,
    Chars,      \* characters that are drawn, these among them
    Glyph,      \* the pixels of each, by <<x, y>>
    Bits,       \* width of an int
    Strings,    \* arguments of %s
    Pictures,   \* possible sizes of /boot/background.bmp
    Leftover,   \* what the video memory holds before anybody writes
    Shift       \* bmp2vbe's displacement in pixels, by colour depth: [h, v]

Colours == {0, 24, 32}   \* bits per pixel, 0: text
LF == "newline"
CR == "return"
Cell == (0 .. FontX - 1) \X (0 .. FontY - 1)
Large(s, t) == 3 * (IF s.x * s.y > t.x * t.y THEN s.x * s.y ELSE t.x * t.y)
Addresses == 0 .. Large(Text, Graphic) - 1

ASSUME ScreenAssumption ==
    /\ {Text.x, Text.y, Graphic.x, Graphic.y, FontX, FontY} \subseteq Nat \ {0}
    /\ Text.y > 1 /\ Graphic.x >= FontX /\ Graphic.y >= FontY
    /\ Glyph \in [Chars -> SUBSET Cell] /\ Chars \cap {LF, CR} = {}
    /\ {Numerals, Letters} \subseteq Seq(Chars) /\ Len(Numerals) > 1
    /\ \A i \in Addresses : Leftover[i] \notin Chars \cup {"blank", "picture", "ink"}
    /\ Minus \in Chars /\ Bits \in Nat \ {0} /\ Strings \subseteq Seq(Chars)

VARIABLES
    step,     \* _main: "vbe", "background", "run"
    vbe,      \* vbe_header: [x, y, color]
    mem,      \* "blank", "picture", "ink", a character, or what was left over
    xpos, ypos,
    text      \* what printk has still to put of a conversion

vars == <<step, vbe, mem, xpos, ypos, text>>

Init ==
    /\ step = "vbe" /\ vbe = [x |-> 0, y |-> 0, color |-> 0]
    /\ mem = Leftover
    /\ xpos = 0 /\ ypos = 0 /\ text = << >>

\* The mode GRUB has set.
open_mod_vbe ==
    /\ step = "vbe" /\ step' = "background"
    /\ \E c \in Colours :
         LET s == IF c = 0 THEN Text ELSE Graphic IN vbe' = [x |-> s.x, y |-> s.y, color |-> c]
    /\ UNCHANGED <<mem, xpos, ypos, text>>

xy == vbe.x * vbe.y
Smaller(a, b) == IF a < b THEN a ELSE b

\* Every row of the picture lands h pixels to the right and v rows further down.
bmp2vbe(b) ==
    IF vbe.color = 0 THEN mem
    ELSE LET s == Shift[vbe.color]
             At(x, y) == y * vbe.x + s.h + vbe.x * s.v + x
             drawn == {At(x, y) : x \in 0 .. Smaller(vbe.x, b.x) - 1, y \in 0 .. Smaller(vbe.y, b.y) - 1}
         IN  [i \in Addresses |-> IF i \in drawn THEN "picture" ELSE mem[i]]

cls == [i \in Addresses |-> IF i < xy THEN "blank" ELSE mem[i]]

\* A background picture, if there is one, takes the place of cls().
background ==
    /\ step = "background" /\ step' = "run"
    /\ mem' = cls \/ \E b \in Pictures : mem' = bmp2vbe(b)
    /\ UNCHANGED <<vbe, xpos, ypos, text>>

-----------------------------------------------------------------------------
\* memcpy ascends, and every copy here is to a lower address.
memcpy(m, orig, des, cant) ==
    [i \in Addresses |-> IF i \in des .. des + cant - 1 THEN m[i + orig - des] ELSE m[i]]

memset(m, des, cant, dat) ==
    [i \in Addresses |-> IF i \in des .. des + cant - 1 THEN dat ELSE m[i]]

\* bmp2graf sets the pixels of the letter and leaves the others alone.
bmp2graf(m, c) ==
    LET cor == ypos * FontY * vbe.x + xpos * FontX
    IN  [i \in Addresses |-> IF i \in {cor + p[2] * vbe.x + p[1] : p \in Glyph[c]} THEN "ink" ELSE m[i]]

Drawn(c) ==
    IF vbe.color = 0 THEN [mem EXCEPT ![xpos + ypos * vbe.x] = c] ELSE bmp2graf(mem, c)

Columns == IF vbe.color = 0 THEN vbe.x ELSE vbe.x \div FontX
Lines   == IF vbe.color = 0 THEN vbe.y ELSE vbe.y \div FontY

\* Mutant: the last line is cleared one line too low.
ScrolledLow(m) ==
    IF vbe.color = 0 THEN memcpy(m, vbe.x, 0, 2 * vbe.x * (vbe.y - 1))
    ELSE memset(memcpy(m, vbe.x * FontY, 0, (vbe.y - FontY) * vbe.x), vbe.y * vbe.x, FontY * vbe.x, "blank")

\* A text is moved with twice its length, and nothing is cleared: what lies behind
\* the screen comes in as its last line and moves up itself.
Scrolled(m) ==
    IF vbe.color = 0 THEN memcpy(m, vbe.x, 0, 2 * vbe.x * (vbe.y - 1))
    ELSE memset(memcpy(m, vbe.x * FontY, 0, (vbe.y - FontY) * vbe.x),
                (vbe.y - FontY) * vbe.x, FontY * vbe.x, "blank")

Newline(m) ==
    /\ xpos' = 0
    /\ IF ypos + 1 >= Lines THEN ypos' = ypos /\ mem' = Scrolled(m)
       ELSE ypos' = ypos + 1 /\ mem' = m

\* Mutant: the line goes on in the first column without a new line.
putcSameLine(c) ==
    \/ c = LF /\ Newline(mem)
    \/ c = CR /\ xpos' = 0 /\ UNCHANGED <<ypos, mem>>
    \/ /\ c \in Chars
       /\ mem' = Drawn(c) /\ xpos' = (xpos + 1) % Columns /\ UNCHANGED ypos

putc(c) ==
    \/ c = LF /\ Newline(mem)
    \/ c = CR /\ xpos' = 0 /\ UNCHANGED <<ypos, mem>>
    \/ /\ c \in Chars
       /\ IF xpos + 1 >= Columns THEN Newline(Drawn(c))
          ELSE mem' = Drawn(c) /\ xpos' = xpos + 1 /\ UNCHANGED ypos

-----------------------------------------------------------------------------
Conversions == {"d", "u", "x"}
Ints == -2^(Bits - 1) .. 2^(Bits - 1) - 1

Digit(resto) == (Numerals \o Letters)[resto + 1]

\* The digits come out last one first, and are turned round with the sign.
Spelled(ud, divisor) ==
    LET a[n \in 0 .. ud] ==
            (IF n \div divisor = 0 THEN << >> ELSE a[n \div divisor]) \o <<Digit(n % divisor)>>
    IN  a[ud]

Divisor(base) == Len(Numerals) + IF base = "x" THEN Len(Letters) ELSE 0

\* Mutant: the sign is looked at whatever the conversion.
itoaSigned(base, d) ==
    IF d < 0 THEN <<Minus>> \o Spelled((-d) % 2^Bits, Divisor(base)) ELSE Spelled(d, Divisor(base))

\* d becomes an unsigned long; only %d has a sign.
itoa(base, d) ==
    IF base = "d" /\ d < 0 THEN <<Minus>> \o Spelled((-d) % 2^Bits, Divisor(base))
    ELSE Spelled(d % 2^Bits, Divisor(base))

Convert(base, d) == text = << >> /\ text' = itoa(base, d) /\ UNCHANGED <<mem, xpos, ypos>>

\* One turn of one of printk's loops: a character of the format or of %c, a
\* conversion or an argument of %s, or the next character of these.
printk ==
    /\ step = "run"
    /\ \/ text = << >> /\ (\E c \in Chars \cup {LF, CR} : putc(c)) /\ UNCHANGED text
       \/ \E base \in Conversions, d \in Ints : Convert(base, d)
       \/ text = << >> /\ text' \in Strings /\ UNCHANGED <<mem, xpos, ypos>>
       \/ text # << >> /\ putc(Head(text)) /\ text' = Tail(text)
    /\ UNCHANGED <<step, vbe>>

Next == open_mod_vbe \/ background \/ printk

Spec == Init /\ [][Next]_vars

-----------------------------------------------------------------------------
(* Properties                                                              *)

\* Behind a graphic screen printk changes nothing, whatever it scrolls: putc computes
\* addresses and counts in bytes, lines and pixels in variables it uses for several
\* things.  Behind a text screen it does (3680 bytes at each scroll), but no more
\* than as much again as the screen, which the adapter's 32 KB hold.
OnlyTheScreen ==
    [][step = "run" =>
         \A i \in Addresses : i >= (IF vbe.color = 0 THEN 2 * xy ELSE xy) => mem'[i] = mem[i]]_vars

\* What a number reads as: the digits weighted from the last one on.
Reads(s, divisor) ==
    LET Worth(c) == CHOOSE n \in 0 .. divisor - 1 : Digit(n) = c
        v[k \in 0 .. Len(s)] == IF k = 0 THEN 0 ELSE v[k - 1] * divisor + Worth(s[k])
    IN  v[Len(s)]

\* A number that printk is about to put reads as the argument: signed with %d, also
\* for the least number, which has no counterpart, and without a sign as the word
\* that holds it with %u and %x.  No digit but 0 comes first.
ReadsBack ==
    [][\A base \in Conversions, d \in Ints :
         Convert(base, d) =>
             LET neg == base = "d" /\ d < 0
                 digits == IF neg THEN Tail(text') ELSE text'
             IN  /\ neg => Head(text') = Minus
                 /\ \A k \in DOMAIN digits : \E n \in 0 .. Divisor(base) - 1 : digits[k] = Digit(n)
                 /\ Reads(digits, Divisor(base)) = IF neg THEN -d ELSE IF d < 0 THEN d + 2^Bits ELSE d
                 /\ Len(digits) > 1 => Head(digits) # Digit(0)]_vars

\* What a reader sees of a cell: the ink in it, or the character, or something that
\* was there before.
Strange(c) == {<<-1, c>>}
Seen(col, row) ==
    IF vbe.color # 0
    THEN {p \in Cell : mem[(row * FontY + p[2]) * vbe.x + col * FontX + p[1]] = "ink"}
    ELSE LET c == mem[row * vbe.x + col]
         IN  IF c \in Chars THEN Glyph[c] ELSE IF c = "blank" THEN {} ELSE Strange(c)

\* The lines that come in at the bottom: a blank one, or the text memory's next lines.
Below ==
    IF vbe.color # 0 THEN <<[col \in 0 .. Columns - 1 |-> {}]>>
    ELSE [k \in 1 .. Lines - 1 |-> [col \in 0 .. Columns - 1 |-> Seen(col, Lines + k - 1)]]

T == INSTANCE Terminal WITH
    Marks  <- LAMBDA c : Glyph[c],
    size   <- IF step = "run" THEN [cols |-> Columns, rows |-> Lines] ELSE [cols |-> 0, rows |-> 0],
    grid   <- IF step = "run" THEN [p \in (0 .. Columns - 1) \X (0 .. Lines - 1) |-> Seen(p[1], p[2])] ELSE << >>,
    below  <- IF step = "run" THEN Below ELSE << >>,
    cursor <- [col |-> xpos, row |-> ypos]

\* printk's text appears as on a terminal: nothing is lost between the lines, on a
\* screen whose height is no multiple of the letters', and over a picture; a line
\* that comes in is blank on a graphic screen.  On a text screen, where nobody
\* clears it, it is what the memory holds behind the screen, line after line.
ImplementsTerminal == T!TSpec
=============================================================================
