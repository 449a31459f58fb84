--------------------------- MODULE MCClientStream ---------------------------
(* ClientStream for TLC: see README.md for the bounds.                     *)
EXTENDS ClientStream

\* Short, quick-ack, extended and senseless headers; 127 inside a payload is
\* what a splitter that has lost its place would take for a header.
MCPackets ==
    [abridged |->
        {<<1, 127, 0, 0, 127>>, <<129, 0, 0, 0, 1>>, <<0>>,
         <<127, 1, 0, 0, 127, 1, 2, 3>>, <<255, 1, 0, 0, 9, 9, 9, 9>>, <<127, 0, 0, 0>>},
     intermediate |->
        {<<1, 0, 0, 0, 7>>, <<3, 0, 0, 128, 0, 0, 0>>, <<0, 0, 0, 0>>}]

MCInit0 == <<127, 1>>

=============================================================================
