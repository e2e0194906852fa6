----------------------------- MODULE MCPipeline -----------------------------
\* Pipeline for TLC.
EXTENDS Pipeline

\* A pipeline of three that passes everything on, with a line next to it; the kinds of
\* early leaving; a line that is read with garbage at its end; a line of bars only.
MCFiles ==
  { << <<"gen", "pass", "pass">>, <<"gen">> >>,
    << <<"gen", "pass">>, <<"gen", "head">> >>,
    << <<"gen", "pass", "head">> >>,
    << <<"gen", "gen", "pass">> >>,
    << <<"bad", "pass", "pass">>, <<>> >>,
    << <<"bad">>, <<"gen", "bad">> >> }
MCUnterminated == {2}
=============================================================================
