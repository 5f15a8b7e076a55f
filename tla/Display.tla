------------------------------ MODULE Display -------------------------------
(***************************************************************************)
(* What kernel_main shows: the console (kernel/src/console.rs) on the      *)
(* bootloader's frame buffer, the change of mode through the Bochs         *)
(* graphics adapter's registers (kernel/src/bga.rs) and the logo drawn     *)
(* pixel by pixel (main.rs:94-120).  Breakpoint exceptions print meanwhile.*)
(*                                                                         *)
(* Colours are left out; positions are computed as the code computes them. *)
(* A text is its length in bytes, which all are characters here.           *)
(***************************************************************************)
EXTENDS Integers, Sequences

CONSTANTS
    Screens,        \* frame buffers the bootloader may hand over
    CharWidth, RasterHeight,    \* size of a character in pixels
    LogoWidth, LogoHeight,      \* size of resources/logo.png
    BreakpointText, \* lengths of the pieces breakpoint_handler prints
    MaxBreakpoints  \* bound: breakpoint exceptions

\* mapped: bytes of the frame buffer that are mapped.  granularity: the adapter
\* rounds a width down to a multiple of it.
Screen == [width : Nat, height : Nat, stride : Nat, bytes_per_pixel : {3, 4},
           mapped : Nat, granularity : Nat \ {0}]

ASSUME DisplayAssumption ==
    /\ \A s \in Screens : s \in Screen /\ CharWidth <= s.width /\ s.width <= s.stride
                          /\ s.mapped >= s.stride * s.height * s.bytes_per_pixel
    /\ {CharWidth, RasterHeight, LogoWidth, LogoHeight} \subseteq Nat \ {0}
    /\ LogoWidth < 65536
    /\ BreakpointText \in Seq(Nat) /\ MaxBreakpoints \in Nat

VARIABLES
    screen,     \* the frame buffer, as in boot_info
    CONSOLE,    \* the NotoFontDisplay, or None
    vbe,        \* the adapter's registers and the row length it displays with
    pc, k,      \* the part of kernel_main, and how far it has come
    pieces,     \* the pieces of a text that _print has still to write
    printed,    \* history: the bytes given to draw_string so far
    status,     \* "running", "fault", "panicked" or "reset"
    breakpoints \* breakpoint exceptions so far

displayVars == <<screen, CONSOLE, vbe, pc, k, pieces, printed, status, breakpoints>>

None == [ok |-> FALSE]

DisplayInit ==
    /\ screen \in Screens
    /\ CONSOLE = None
    /\ vbe = [enabled |-> TRUE, xres |-> screen.width, yres |-> screen.height,
              bpp |-> 8 * screen.bytes_per_pixel, pitch |-> screen.stride]
    /\ pc = "console_init" /\ k = 1
    /\ pieces = <<>> /\ printed = 0
    /\ status = "running"
    /\ breakpoints = 0

Goto(part) == pc' = part /\ k' = 1

----------------------------------------------------------------------------
(* The console *)

\* The index into draw_buffer of the last pixel of the last character.
LastIndex(c, len) ==
    (len * CharWidth - 1) + c.cursor_x + (RasterHeight - 1 + c.cursor_y) * c.stride

\* Plausible mistake; no specification uses it.
RowPerCharacter(c, len) ==
    IF ~c.ok THEN c
    ELSE IF len > 0 /\ LastIndex(c, len) >= c.stride * c.height THEN [c EXCEPT !.ok = FALSE]
    ELSE [c EXCEPT !.cursor_y = @ + len * RasterHeight]

\* An index beyond draw_buffer panics.  cursor_y moves by the length of the
\* text; cursor_x only by the branch that tests it.
draw_string(c, len) ==
    IF ~c.ok THEN c
    ELSE IF len > 0 /\ LastIndex(c, len) >= c.stride * c.height THEN [c EXCEPT !.ok = FALSE]
    ELSE IF c.cursor_x >= c.width
         THEN [c EXCEPT !.cursor_y = 0, !.cursor_x = @ + RasterHeight]
         ELSE [c EXCEPT !.cursor_y = @ + len]

\* _print, with interrupts masked: write_fmt calls write_str for each piece
\* before anything else runs.
Running == status = "running" /\ pieces = <<>>

print(text) == pieces' = text /\ UNCHANGED <<CONSOLE, printed, status>>

Draw(c, len) ==
    /\ CONSOLE' = draw_string(c, len)
    /\ status' = IF CONSOLE'.ok THEN status ELSE "panicked"
    /\ printed' = printed + len

write_str ==
    /\ status = "running" /\ pieces # <<>>
    /\ Draw(CONSOLE, Head(pieces))
    /\ pieces' = Tail(pieces)
    /\ UNCHANGED <<screen, vbe, pc, k, breakpoints>>

\* The number of u32s that console::init writes and puts into draw_buffer.
FillLength == screen.stride * screen.height

\* A fault before the IDT is loaded resets the machine.
console_init ==
    /\ Running /\ pc = "console_init"
    /\ IF 4 * FillLength > screen.mapped
       THEN status' = "reset" /\ UNCHANGED <<CONSOLE, pc, k, printed>>
       ELSE /\ Draw([ok |-> TRUE, width |-> screen.width, height |-> screen.height,
                     stride |-> screen.stride, cursor_x |-> 0, cursor_y |-> 0],
                    14)  \* "Kernel Message"
            /\ Goto("println")
    /\ UNCHANGED <<screen, vbe, pieces, breakpoints>>

\* The three texts of kernel_main, each with its "\n".
Texts == <<30, 55, 25>>

println ==
    /\ Running /\ pc = "println"
    /\ print(<<Texts[k]>>)
    /\ IF k < Len(Texts) THEN k' = k + 1 /\ UNCHANGED pc ELSE Goto("bga_set_video_mode")
    /\ UNCHANGED <<screen, vbe, breakpoints>>

breakpoint_handler ==
    /\ Running /\ pc # "console_init" /\ breakpoints < MaxBreakpoints
    /\ print(BreakpointText)
    /\ breakpoints' = breakpoints + 1
    /\ UNCHANGED <<screen, vbe, pc, k>>

----------------------------------------------------------------------------
(* The mode and the logo *)

\* External: the adapter.  It takes a size only while it is disabled, and
\* displays with it from the moment it is enabled.
VbeAfter(reg, value) ==
    CASE reg = "ENABLE" /\ value % 2 = 0 -> [vbe EXCEPT !.enabled = FALSE]
      [] reg = "ENABLE" /\ value % 2 = 1 ->
            [vbe EXCEPT !.enabled = TRUE,
                        !.pitch = IF vbe.enabled THEN @ ELSE vbe.xres - (vbe.xres % screen.granularity)]
      [] reg = "XRES" /\ ~vbe.enabled -> [vbe EXCEPT !.xres = value]
      [] reg = "YRES" /\ ~vbe.enabled -> [vbe EXCEPT !.yres = value]
      [] reg = "BPP" /\ ~vbe.enabled -> [vbe EXCEPT !.bpp = value]
      [] OTHER -> vbe

as_u16(n) == n % 65536

\* Plausible mistake; no specification uses it.
NotDisabled ==
    <<<<"XRES", as_u16(LogoWidth)>>, <<"YRES", as_u16(LogoHeight)>>, <<"BPP", 32>>,
      <<"ENABLE", 3>>, <<"BANK", 0>>>>

\* The writes of bga_set_video_mode, with the linear frame buffer and video
\* memory cleared, and of bga_set_bank.
ModeWrites ==
    <<<<"ENABLE", 0>>, <<"XRES", as_u16(LogoWidth)>>, <<"YRES", as_u16(LogoHeight)>>,
      <<"BPP", 32>>, <<"ENABLE", 3>>, <<"BANK", 0>>>>

bga_write_register ==
    /\ Running /\ pc = "bga_set_video_mode"
    /\ vbe' = VbeAfter(ModeWrites[k][1], ModeWrites[k][2])
    /\ IF k < Len(ModeWrites) THEN k' = k + 1 /\ UNCHANGED pc ELSE Goto("logo")
    /\ UNCHANGED <<screen, CONSOLE, pieces, printed, status, breakpoints>>

\* Plausible mistake; no specification uses it.
OldStride(y) == 4 * (y * screen.stride + LogoWidth)

\* The end, in bytes, of row y of the logo: dst_offset of its last pixel.
RowEnd(y) == 4 * (y * LogoWidth + LogoWidth)

\* One row of the loop, if it lies within the memory mapped.
draw_row ==
    /\ Running /\ pc = "logo"
    /\ RowEnd(k - 1) <= screen.mapped
    /\ IF k < LogoHeight THEN k' = k + 1 /\ UNCHANGED pc ELSE Goto("done")
    /\ UNCHANGED <<screen, CONSOLE, vbe, pieces, printed, status, breakpoints>>

row_faults ==
    /\ Running /\ pc = "logo"
    /\ RowEnd(k - 1) > screen.mapped
    /\ status' = "fault"
    /\ UNCHANGED <<screen, CONSOLE, vbe, pc, k, pieces, printed, breakpoints>>

\* The handler reports the fault and returns to the instruction.
page_fault_handler ==
    /\ status = "fault"
    /\ status' = "running"
    /\ UNCHANGED <<screen, CONSOLE, vbe, pc, k, pieces, printed, breakpoints>>

kernel_main ==
    \/ console_init \/ println \/ write_str
    \/ bga_write_register \/ draw_row \/ row_faults \/ page_fault_handler

DisplayNext == kernel_main \/ breakpoint_handler

\* The boot thread gets the CPU again and again (Kernel.tla).
DisplaySpec ==
    DisplayInit /\ [][DisplayNext]_displayVars /\ WF_displayVars(kernel_main)

----------------------------------------------------------------------------
\* The console stays within the frame buffer: filling it and keeping it as u32s
\* runs over its end only if a pixel has fewer than four bytes, and printing
\* only when the texts have moved the cursor down all of the screen: a row for
\* each byte printed, since the branch that tests cursor_x never starts at the
\* top again.  That panics under the CONSOLE lock.
ConsoleFits ==
    /\ status = "reset" => screen.bytes_per_pixel < 4
    /\ status = "panicked" => screen.height < printed + RasterHeight
    /\ CONSOLE.ok => CONSOLE.cursor_x = 0 /\ CONSOLE.cursor_y = printed

\* "After bga_set_video_mode, the framebuffer stride equals the new width"
\* (main.rs:97) for exactly the widths that the adapter does not round.
LogoPitch ==
    pc = "logo" => /\ vbe.enabled /\ vbe.bpp = 32
                   /\ vbe.pitch = LogoWidth <=> LogoWidth % screen.granularity = 0

\* The logo is drawn to its end, or it is too large for the frame buffer the
\* bootloader mapped, and then every return from the page fault handler
\* faults again; no breakpoint keeps it from that but by a panic.  The fairness
\* leaves out what Kernel.tla shows: kernel_main draws as one thread of several
\* with interrupts enabled, and a timer interrupt that comes while the current
\* thread holds SCHEDULER hangs the CPU (HangsOnOwnLock), the logo unfinished.
LogoShown ==
    pc = "logo" ~> \/ pc = "done" \/ status = "panicked"
                   \/ 4 * LogoWidth * LogoHeight > screen.mapped
=============================================================================
