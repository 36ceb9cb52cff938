----------------------------- MODULE MCPathUtils -----------------------------
(***************************************************************************)
(* PathUtils for TLC.  The strings are all those over an ordinary          *)
(* character, ".", "/" and NUL up to a length: two for a name, so that     *)
(* ".", "..", "a/" and "/a" are among the names, one for the id of a       *)
(* temporary file, and four for a dex path, so that "/a/.", "/../", "//a", *)
(* "/a//", "/a/", "//" and "/a/a" are among the paths.                     *)
(***************************************************************************)
EXTENDS PathUtils

Chars == {"a", ".", "/", "NUL"}

MCNames == BoundedSeq(Chars, 2)
MCIds == BoundedSeq(Chars, 1)
\* The dex files of apps are added by name, in the data directory of an app
\* on internal storage and on an expanded volume, and one level above; one
\* is written with two separators in a row and one with a separator at its
\* end.
AppDexPaths ==
    {Join(names) : names \in
        {<< <<"data">>, <<"user">>, <<"a">>, <<"a">>, <<"a">> >>,
         << <<"data">>, <<"user_de">>, <<"a">>, <<"a">>, <<"a">>, <<"a", ".">> >>,
         << <<"mnt">>, <<"expand">>, <<"a">>, <<"user">>, <<"a">>, <<"a">>, <<"a">> >>,
         << <<"data">>, <<"user">>, <<"a">>, <<"a">> >>}}
        \cup {Join(<< <<"data">>, <<"user">>, <<"a">>, <<"a">> >>) \o <<"/">>,
              Join(<< <<"data">>, <<"user">> >>) \o <<"/">>
                  \o Join(<< <<"a">>, <<"a">>, <<"a">> >>)}

MCDexPaths == BoundedSeq(Chars, 4) \cup AppDexPaths

\* The files that ListManagedFiles may meet: in a data directory or beside
\* one, in the directory of an app, of the installed apps, of the profiles
\* or elsewhere, below "oat" or not, with the name of a profile, of an
\* artifact, of a temporary file, or another name.
MCFiles ==
    {Join(root \o area \o dir \o <<name>>) :
        root \in {<< <<"data">> >>, << <<"mnt">>, <<"expand">>, <<"a">> >>,
                  << <<"mnt">>, <<"expand">> >>},
        area \in {<< <<"user">>, <<"a">>, <<"a">> >>, << <<"user_de">>, <<"a">>, <<"a">> >>,
                  << <<"user">>, <<"oat">> >>, << <<"app">>, <<"a">>, <<"a">> >>,
                  << <<"misc">>, <<"profiles">> >>, << <<"dalvik-cache">> >>,
                  << <<"a">>, <<"a">>, <<"a">> >>},
        dir \in {<<>>, << <<"a">> >>, << <<"oat">> >>, << <<"a">>, <<"oat">> >>,
                 << <<"oat">>, <<"a">> >>, << <<"oat">>, <<"a">>, <<"a">> >>},
        name \in {<<"a">>, <<"a", ".prof">>, <<"a", ".odex">>, <<"a", ".vdex">>,
                  <<"a", ".art">>, <<".prof">>, <<"a", ".tmp">>,
                  <<"a", ".prof", ".", "a", ".tmp">>, <<"a", ".art", ".", ".tmp">>}}
MCUserIds == {0, 10}

\* What std::filesystem::path gives for the paths the validator lets through.
ASSUME /\ ParentPath(<<"/", "a", "/", "/", "a">>) = <<"/", "a">>
       /\ ParentPath(<<"/", "a", "/">>) = <<"/", "a">>
       /\ ParentPath(<<"/", "a">>) = <<"/">>
       /\ ParentPath(<<"/">>) = <<"/">>
       /\ Filename(<<"/", "a", "/">>) = <<>>
       /\ SamePath(<<"/", "/", "a">>, <<"/", "a">>)
       /\ ~SamePath(<<"/", "a", "/">>, <<"/", "a">>)
       /\ ~SamePath(<<"/", "a", "/", ".">>, <<"/", "a", "/">>)

=============================================================================
