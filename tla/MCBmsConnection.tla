-------------------------- MODULE MCBmsConnection --------------------------
(* Small instances of BmsConnection for TLC.                               *)
EXTENDS BmsConnection

\* Firmware that prompts, firmware that does not, and the real trailer between
\* the line and the prompt.
MCTrail == {<<"body", "done", "trail", "prompt">>}

MCResponses == MCTrail \cup {<<"body", "prompt">>, <<"body", "done">>}

\* Every link, with and without a punctual console.
MCSettings == [link : {"console", "bridge", "serial"}, punctual : BOOLEAN]

\* A punctual console at the end of a serial line.
MCTimely == {[link |-> "serial", punctual |-> TRUE]}
=============================================================================
