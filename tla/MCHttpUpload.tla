---------------------------- MODULE MCHttpUpload ----------------------------
(***************************************************************************)
(* Small instances of HttpUpload for TLC.                                  *)
(***************************************************************************)
EXTENDS HttpUpload, TLC

\* The documented order, its reverse, and bodies that lack a field, have more, or
\* have a bad path.
MCLayouts == {<<"path", "file">>, <<"file", "path">>, <<"path">>, <<"file">>,
              <<"file", "badpath">>, <<"path", "other", "file", "badpath">>}

\* The order every client example uses.
DocumentedLayouts == {<<"path", "file">>}

Symmetry == Permutations(Uploads) \cup Permutations(Gets)

=============================================================================
