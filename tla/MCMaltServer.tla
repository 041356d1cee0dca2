----------------------------- MODULE MCMaltServer -----------------------------
(***************************************************************************)
(* MaltServer for TLC: the texts of the clients.                           *)
(***************************************************************************)
EXTENDS MaltServer, TLC

\* One and two sentences, with and without a final blank line, a leading blank
\* line, two blank lines in a row, and the text of the readiness probe.
AllDocs ==
    {<<"token">>,
     <<"token", "blank">>,
     <<"token", "token", "blank", "token">>,
     <<"token", "blank", "token", "blank">>,
     <<"blank", "token">>,
     <<"token", "blank", "blank", "token">>}

\* Texts as crf2conll prints them: each sentence ends with one blank line, or
\* the last one does not.
SeparatedDocs ==
    {<<"token">>,
     <<"token", "blank", "token">>,
     <<"token", "blank", "token", "blank">>}
===============================================================================
