--------------------------- MODULE MCSerialInput ---------------------------
EXTENDS SerialInput

\* One payload of every kind: a report whose session byte needs an escape, a
\* packet that needs the other one, a line of text of a single byte, a request
\* and a debug line.
MCPayloads == {<<33, 192>>, <<200, 219>>, <<72>>, <<63, 65>>, <<13, 65>>}

\* A report for session 10, the code of a newline.
MCNewlineReport == {<<33, 82, 10, 0>>, <<1, 200>>}
=============================================================================
