-------------------------- MODULE MCAdditionalFiles --------------------------
(* The entries of the archives in the run of AdditionalFiles: names that     *)
(* meet on the disk in every way, and sizes up to and beyond the limit.      *)
EXTENDS AdditionalFiles

MCSource == <<"src">>

Plain(name, kind, size) ==
    [name |-> name, form |-> "plain", kind |-> kind, size |-> size]

MCEntries ==
    {Plain(n, "file", s) : n \in {<<"a">>, <<"b">>, <<"a", "b">>}, s \in 0..3}
    \cup {Plain(n, "file", 1) :
             n \in {<<>>, <<".">>, <<".", "a">>, <<"..", "a">>, <<"a", "..", "b">>,
                    <<"a", "..", "..", "src">>, <<"src">>, <<"src", "b">>, <<"b", "..", "src">>}}
    \cup {Plain(n, "dir", 0) :
             n \in {<<"a">>, <<".", "a">>, <<"a", "b">>, <<"src">>}}
    \cup {Plain(<<"a">>, "symlink", 0), Plain(<<"b">>, "other", 0)}
    \cup {[name |-> <<"a">>, form |-> f, kind |-> "file", size |-> 0] :
             f \in {"absolute", "backslash"}}

=============================================================================
