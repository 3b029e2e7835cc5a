------------------------------ MODULE MCConsole ------------------------------
\* A screen of two rows of two characters, and the library printk uses, for TLC.
EXTENDS Console, Strings, Stdio

\* printk("%s\n", "a") and a backspace; the two lines of a report.
MCMessages == {vsprintf(<<"%", "s", LF>>, <<<<"a">>>>), <<BS>>, <<>>}
MCReport == <<vsprintf(<<"%", "d">>, <<7>>), <<"?">>>>

\* Formats of ide.c and assert.c, with the text between the conversions cut
\* short, and one with a conversion that is dropped.
MCFormats == {
    <<<<"%", "s", "_", "%", "d">>, <<<<"s", "d", "a">>, 5>>>>,
    <<<<"s", "d", "%", "c">>, <<"b">>>>,
    <<<<"t", ":", "0", "x", "%", "x">>, <<131>>>>,
    <<<<"%", "s", "%", "s", "%", "d", "%", "d", LF>>, <<<<>>, <<"n">>, -128, 0>>>>,
    <<<<"%", "u", "%", "d">>, <<3>>>>}

\* Every message that is printed comes from a library that does what string.h and
\* stdio.h say: areas, pairs and searches of string.c, numerals and formats of
\* stdio.c.
LibraryRight == sent > 0 => StringsRight /\ StdioRight
=============================================================================
