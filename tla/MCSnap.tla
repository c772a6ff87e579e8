------------------------------- MODULE MCSnap -------------------------------
(* Small instances of Snap for TLC.                                        *)
EXTENDS Snap

\* booksnap without options
Plain ==
    [interval |-> <<>>, offset |-> <<>>, invalidate |-> <<>>, stamps |-> <<>>, instr |-> {},
     flags |-> {}, N |-> -1, C |-> -1, byValue |-> FALSE]

Ns(i) == <<i, "ns">>

\* A grid 1 after multiples of 2; one 1 after multiples of 3, given with a
\* negative offset; invalidation after a time or a number of intervals, with a filter; stamps
\* before, between, at and after the quotes, with a catch-all; consolidation;
\* an offset that comes to a full interval; errors.
SomeLines ==
    {[Plain EXCEPT !.interval = Ns(2), !.offset = Ns(7)],
     [Plain EXCEPT !.interval = <<1, "us">>, !.invalidate = Ns(3), !.instr = {"a"}, !.C = 2],
     [Plain EXCEPT !.interval = Ns(3), !.offset = Ns(-5), !.invalidate = Ns(2), !.instr = {"a"},
                   !.N = 2],
     [Plain EXCEPT !.stamps = <<1, 3, 4, 6>>, !.invalidate = <<2, "">>, !.instr = {"a", "*"},
                   !.offset = Ns(1), !.flags = {1}],
     [Plain EXCEPT !.interval = <<1, "us">>, !.offset = Ns(-4), !.instr = {"a"}, !.C = 3,
                   !.byValue = TRUE, !.N = 2],
     [Plain EXCEPT !.instr = {"b"}, !.C = 1, !.N = 2, !.flags = {1, 2}],
     [Plain EXCEPT !.interval = <<1, "m">>, !.instr = {"b"}, !.N = 1, !.flags = {3}],
     [Plain EXCEPT !.interval = Ns(3), !.instr = {"b"}, !.flags = {1, 2}],
     [Plain EXCEPT !.interval = Ns(3), !.instr = {"b"}, !.C = 2, !.byValue = TRUE],
     [Plain EXCEPT !.interval = <<0, "s">>],
     [Plain EXCEPT !.invalidate = <<1, "x">>],
     [Plain EXCEPT !.N = 0]}

=============================================================================
