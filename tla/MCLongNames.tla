---------------------------- MODULE MCLongNames ----------------------------
\* Two names that differ in case, and three with one alias, of which two need
\* runs; both aliases have one checksum.
EXTENDS LongNames

MCNames  == {"FOO", "foo", "LONGNAME", "longname_14char", "longname_of_more_than_26_chars"}
MCAlias  == [n \in MCNames |-> IF n \in {"FOO", "foo"} THEN "FOO" ELSE "LONGNAME"]
MCChunks == [n \in MCNames |-> CASE n \in {"FOO", "LONGNAME"} -> 0
                                 [] n = "foo" -> 1
                                 [] n = "longname_14char" -> 2
                                 [] OTHER -> 3]
MCFold   == [n \in MCNames |-> IF n = "FOO" THEN "foo" ELSE n]
MCSum    == [a \in {"FOO", "LONGNAME"} |-> 7]
=============================================================================
