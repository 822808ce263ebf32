--------------------------- MODULE MCRiscvTarget ---------------------------
(***************************************************************************)
(* RiscvTarget with two triggers, one software breakpoint, two addresses   *)
(* of instructions and one of data.                                        *)
(***************************************************************************)
EXTENDS RiscvTarget

\* Three for the two triggers, so that a request meets a full table of them; the
\* slot for a software breakpoint is just filled.
MCPoints == {<<"software", "c1">>,
             <<"hardware", "c1">>, <<"hardware", "c2">>, <<"write", "d1">>}
=============================================================================
