-------------------------- MODULE MCDirectorySync --------------------------
(* Two entries, one of which may have an entry below it.  The files a1 and *)
(* b1 look alike; ab2 and ro2 differ from them in size and time.           *)
EXTENDS DirectorySync

MCPaths == {<<"a">>, <<"a", "a">>, <<"b">>}

File(data, mtime, mode) == [kind |-> "file", data |-> data, mtime |-> mtime, mode |-> mode]

MCNodes == {NONE, [kind |-> "dir", data |-> <<>>, mtime |-> 1, mode |-> "rw"],
            File(<<"A">>, 1, "rw"), File(<<"B">>, 1, "rw"),
            File(<<"A", "B">>, 2, "rw"), File(<<"A", "B">>, 2, "ro")}
=============================================================================
