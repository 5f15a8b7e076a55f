----------------------------- MODULE MCDisplay ------------------------------
(* Display.tla with the real sizes of the logo and of the texts, on screens    *)
(* with and without padding, too small for the logo, too low for the texts,  *)
(* and with three bytes a pixel.  Pages of 4096 bytes are mapped.            *)
EXTENDS Display

ScreenOf(width, height, stride, bytes_per_pixel, granularity) ==
    [width |-> width, height |-> height, stride |-> stride,
     bytes_per_pixel |-> bytes_per_pixel, granularity |-> granularity,
     mapped |-> ((stride * height * bytes_per_pixel + 4095) \div 4096) * 4096]

MCScreens ==
    {ScreenOf(s[1], s[2], s[3], s[4], g) :
        s \in {<<1280, 720, 1280, 4>>, <<1024, 768, 1024, 4>>, <<774, 774, 832, 4>>,
               <<800, 600, 832, 4>>, <<640, 100, 640, 4>>, <<1024, 768, 1024, 3>>},
        g \in {1, 8}}

\* EXCEPTION: BREAKPOINT and the stack frame, in pieces.
MCBreakpointText == <<22, 60, 60, 60, 50>>
=============================================================================
