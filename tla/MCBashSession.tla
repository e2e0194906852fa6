--------------------------- MODULE MCBashSession ---------------------------
\* BashSession for TLC.
EXTENDS BashSession

\* A prompt; text and a prompt; text with a '#' in it; no prompt, since the user is not
\* root or the program waits for input; more than the buffer holds.
MCOutputs ==
  { <<"#">>, <<"x", "#">>, <<"#", "x", "#">>, <<"x">>,
    <<"x", "x", "x", "x", "x", "x", "#">> }
=============================================================================
