--------------------------- MODULE MCDataTransfer ---------------------------
\* DataTransfer for TLC: peers that write nothing, one chunk and two, so that
\* content comes in several reads and a pipe's end may come without any.
EXTENDS DataTransfer

MCSizes == {<<2, 0, 1>>, <<0, 1, 1>>}
=============================================================================
