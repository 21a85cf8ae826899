----------------------------- MODULE MCRegistry -----------------------------
\* Registry for TLC: a compositor that is older than the client for outputs and
\* newer for seats.
EXTENDS Registry

MCNames == {"wl_output", "wl_seat", "wl_shm"}

\* What the display binds, and an output.
MCStart == {<<"wl_seat", "wl_shm", "wl_output">>}

MCOffered == [n \in Names |-> IF n = "wl_output" THEN 1 ELSE 2]
MCVersion == [n \in Names |-> IF n = "wl_seat" THEN 1 ELSE 2]
=============================================================================
