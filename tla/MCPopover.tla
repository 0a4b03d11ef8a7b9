------------------------------ MODULE MCPopover ------------------------------
EXTENDS Popover

Output(x, y, width, height) == [active |-> TRUE, x |-> x, y |-> y, width |-> width, height |-> height]

MCAnchors == {None, <<1910, 20>>, <<-10, 1150>>, <<-2890, 20>>}

\* No answer; two outputs, the second left of the first; a small one in a
\* large one, and one at the edge of the numbers; one that is off, and one
\* whose right edge is not a 32-bit number.
MCScreens == {None,
              <<Output(0, 0, 1920, 1080), Output(-1600, -100, 1600, 1300)>>,
              <<Output(1800, 0, 200, 100), Output(-100, 0, 2200, 1180), Output(-2900, 0, 400, 600)>>,
              <<[Output(0, 0, 1920, 1080) EXCEPT !.active = FALSE], Output(100, 0, 2850, 1080)>>}
=============================================================================
