------------------------------ MODULE MCPrograms ------------------------------
(***************************************************************************)
(* The programs for TLC.                                                   *)
(***************************************************************************)
EXTENDS Programs

MCProcs == {"main", "sinhvien", "voinuoc"}
MCFiles == {"input", "output", "sv_inp", "vn_inp", "tmp", "src", "dst"}
MCBad == {""}

\* One line; two lines; a 0, no number at the end, and no LF.
MCInputs == {<<49, LF, 49, 50, SP, 51, LF>>,
             <<50, LF, 51, SP, 52, LF, 53, LF>>,
             <<50, LF, 48, SP, 50, LF, SP>>}

MCSources == {<<>>, <<97>>, <<97, 98>>, <<97, 98, 99, 100, 101>>}

\* In words of five bits: -16 and 15 fit, 16 and 31 do not, nor 33, whose
\* last five bits are 1.
MCIntKeys == {<<50, LF, SP, DASH, 49, 54, LF, 49, 53, LF>>,
              <<50, SP, 51, 49, LF, 49, 54, SP, 50, SP>>,
              <<49, SP, 51, 51, LF, 48, LF>>,
              <<51, LF, 51, LF, 49, LF, DASH, 50, LF, 120, LF>>,
              <<SOH, 49, SP, 51, LF>>}

\* Names: the file and a new one, the file twice, none, one that does not
\* exist, too long a line, and ^A.
MCNameKeys == {<<115, LF, 100, LF>>, <<115, LF, 115, LF>>, <<LF, 100, LF>>,
               <<100, LF, 115, LF>>, <<115, 115, 115, 115, LF>>, <<115, LF, SOH>>,
               <<97, LF, 98, 99, LF, LF>>}
=============================================================================
