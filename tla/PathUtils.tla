----------------------------- MODULE PathUtils -----------------------------
(***************************************************************************)
(* The validators and path builders of artd, artd/path_utils.cc: the       *)
(* requests that name a profile, a dex metadata file or a compiled         *)
(* artifact are checked and turned into the path of the file.              *)
(*                                                                         *)
(* The functions are pure: they are operators here, and an action applies  *)
(* an entry point to a request.  A string is a sequence of                 *)
(* symbols: the characters that the validators tell apart ("/", ".", the   *)
(* NUL character, an ordinary character) and, in a result, the pieces of   *)
(* text that a builder inserts ("misc", "oat", ".prof", ...), each one     *)
(* symbol.  A piece of text holds no "/" and is not "." or "..".           *)
(*                                                                         *)
(* Functions of other files that the builders call are not in the map.     *)
(* std::filesystem::path (is_absolute, lexically_normal, parent_path,      *)
(* filename, and the comparison of two paths, which goes element by        *)
(* element and not character by character) is defined here by what the     *)
(* C++ standard says of it.  The conversions of OatFileAssistant and of    *)
(* file_utils are left open: their result is a symbol that names the       *)
(* conversion, applied to its argument.                                    *)
(***************************************************************************)
EXTENDS Integers, Sequences, FiniteSets, SequencesExt, TLC

CONSTANTS
    Names,        \* strings given as packageName and profileName
    Ids,          \* strings given as the id of a temporary file
    DexPaths,     \* strings given as dexPath
    UserIds,      \* values of userId
    Isas,         \* strings given as isa
    ValidIsas,    \* those that GetInstructionSetFromString knows
    Files,        \* paths of regular files that the file system may hold
    NULL

VARIABLES
    request,      \* the call made: entry point, argument, environment
    result        \* what it returned

vars == <<request, result>>

-----------------------------------------------------------------------------
(* Strings and std::filesystem::path *)

Slash == "/"
NUL == "NUL"
Dot == <<".">>
DotDot == <<".", ".">>

\* The locations of the device, as the environment reports them.
AndroidData == <<Slash, "data">>
AndroidExpand == <<Slash, "mnt", Slash, "expand">>
ArtRoot == <<Slash, "apex">>

\* The pieces between the separators: "/a/b" is <<"", "a", "b">>.
Split(s) ==
    FoldLeft(LAMBDA acc, c : IF c = Slash
                             THEN Append(acc, <<>>)
                             ELSE [acc EXCEPT ![Len(acc)] = Append(@, c)],
             << <<>> >>, s)

\* The absolute path with the given filenames.
Join(names) == FlattenSeq([i \in DOMAIN names |-> <<Slash>> \o names[i]])

IsAbsolute(s) == s # <<>> /\ s[1] = Slash

\* The filenames of an absolute path as path::begin .. path::end gives them
\* after the root: separators that follow each other count as one, and a
\* path that ends in a separator has an empty filename at its end.
PathElements(s) ==
    LET names == SelectSeq(Split(s), LAMBDA e : e # <<>>)
    IN  IF names # <<>> /\ Last(s) = Slash THEN Append(names, <<>>) ELSE names

\* operator== of two absolute paths: the same filenames in the same order.
SamePath(p, q) == PathElements(p) = PathElements(q)

\* path::lexically_normal of an absolute path: separators are merged, "."
\* is dropped, a filename followed by ".." is dropped with it, ".." at the
\* root is dropped; a path that ended in a separator, in "." or in ".."
\* keeps a separator at its end, unless it is the root.
LexicallyNormal(s) ==
    LET names == SelectSeq(Split(s), LAMBDA e : e # <<>>)
        kept == FoldLeft(LAMBDA st, e : IF e = Dot THEN st
                                        ELSE IF e # DotDot THEN Append(st, e)
                                        ELSE IF st = <<>> THEN st ELSE Front(st),
                         <<>>, names)
        open == Last(s) = Slash \/ Last(names) \in {Dot, DotDot}
    IN  IF kept = <<>> THEN <<Slash>>
        ELSE Join(kept) \o (IF open THEN <<Slash>> ELSE <<>>)

\* path::filename: what follows the last separator.
Filename(s) == Last(Split(s))

\* path::parent_path of an absolute path: the text before the filename
\* without the separators at its end, and the root as it is written for a
\* file in the root and for the root itself.
ParentPath(s) ==
    LET before == SubSeq(s, 1, Len(s) - Len(Filename(s)))
        last == SelectLastInSeq(before, LAMBDA c : c # Slash)
    IN  IF last = 0 THEN before ELSE SubSeq(before, 1, last)

-----------------------------------------------------------------------------
(* Results *)

Ok(path) == [status |-> "ok", path |-> path]
Err(why) == [status |-> "error", why |-> why]
Valid == [status |-> "ok"]

\* LOG(FATAL): the process is aborted.
Fatal == [status |-> "fatal"]

\* OR_RETURN: the error of the first step is returned, or the second step
\* is taken.
OrReturn(first, second) == IF first.status = "error" THEN first ELSE second

-----------------------------------------------------------------------------
(* The validators *)

\* Mutant of ValidateAbsoluteNormalPath: the normal form is not checked.
ValidateAbsoluteNormalPath_NormalNotChecked(path_str) ==
    IF path_str = <<>> THEN Err("empty")
    ELSE IF Contains(path_str, NUL) THEN Err("nul")
    ELSE IF ~IsAbsolute(path_str) THEN Err("not_absolute")
    ELSE Valid

\* path_str is turned into a path for the last comparison, which is that
\* of two paths.
ValidateAbsoluteNormalPath(path_str) ==
    IF path_str = <<>> THEN Err("empty")
    ELSE IF Contains(path_str, NUL) THEN Err("nul")
    ELSE IF ~IsAbsolute(path_str) THEN Err("not_absolute")
    ELSE IF ~SamePath(LexicallyNormal(path_str), path_str) THEN Err("not_normal")
    ELSE Valid

\* Mutant of ValidatePathElementSubstring: "/" is let through.
ValidatePathElementSubstring_SlashAllowed(s) ==
    IF s = <<>> THEN Err("empty")
    ELSE IF Contains(s, NUL) THEN Err("nul")
    ELSE Valid

ValidatePathElementSubstring(s) ==
    IF s = <<>> THEN Err("empty")
    ELSE IF Contains(s, Slash) THEN Err("slash")
    ELSE IF Contains(s, NUL) THEN Err("nul")
    ELSE Valid

\* Mutant of ValidatePathElement: "." and ".." are let through.
ValidatePathElement_DotsAllowed(s) == ValidatePathElementSubstring(s)

ValidatePathElement(s) ==
    OrReturn(ValidatePathElementSubstring(s),
             IF s \in {Dot, DotDot} THEN Err("dots") ELSE Valid)

ValidateDexPath(dex_path) == ValidateAbsoluteNormalPath(dex_path)

\* GetAndroidDataOrError, GetArtRootOrError: the location, or the error the
\* environment reports.
GetAndroidDataOrError(env) == IF env THEN Ok(AndroidData) ELSE Err("android_data")
GetAndroidExpandOrError(env) == IF env THEN Ok(AndroidExpand) ELSE Err("android_expand")
GetArtRootOrError(env) == IF env THEN Ok(ArtRoot) ELSE Err("art_root")

-----------------------------------------------------------------------------
(* ListManagedFiles *)

\* The wildcards of tools::Glob: "*" stands for any text inside a path
\* element, "**" as a path element for zero or more path elements.
Star == "*"
StarStar == "**"

RECURSIVE MatchesName(_, _)
MatchesName(pattern, name) ==
    IF pattern = <<>> THEN name = <<>>
    ELSE IF Head(pattern) = Star
         THEN \E k \in 0..Len(name) :
                 MatchesName(Tail(pattern), SubSeq(name, k + 1, Len(name)))
         ELSE name # <<>> /\ Head(name) = Head(pattern)
                 /\ MatchesName(Tail(pattern), Tail(name))

RECURSIVE MatchesPath(_, _)
MatchesPath(patterns, names) ==
    IF patterns = <<>> THEN names = <<>>
    ELSE IF Head(patterns) = <<StarStar>>
         THEN \E k \in 0..Len(names) :
                 MatchesPath(Tail(patterns), SubSeq(names, k + 1, Len(names)))
         ELSE names # <<>> /\ MatchesName(Head(patterns), Head(names))
                 /\ MatchesPath(Tail(patterns), Tail(names))

\* tools::Glob: the regular files that match one of the patterns.
Glob(patterns, files) ==
    {f \in files : \E p \in patterns : MatchesPath(Split(p), Split(f))}

\* Mutant of SecondaryOatDir: the directory "oat" is missing.
SecondaryOatDir_AnyDir(data_root, user_dir) ==
    data_root \o <<Slash, user_dir, Slash, Star, Slash, Star, Slash, StarStar>>

\* secondary_oat_dir: the oat directories below the data directory of an
\* app.
SecondaryOatDir(data_root, user_dir) ==
    data_root \o <<Slash, user_dir, Slash, Star, Slash, Star, Slash, StarStar,
                   Slash, "oat">>

\* Mutant of MaybeTmpSuffix: the temporary files are not listed.
MaybeTmpSuffix_None == {<<>>}

\* maybe_tmp_suffix: "" and ".*.tmp".
MaybeTmpSuffix == {<<>>, <<".", Star, ".tmp">>}

\* The data directories: internal storage and every expanded volume.
DataRoots == {AndroidData, AndroidExpand \o <<Slash, Star>>}

\* The patterns that ListManagedFiles collects; Glob does not look at their
\* order.
ManagedPatterns ==
    LET secondary == {<<Slash, Star, ".prof">>} \cup
                     {<<Slash, Star, Slash, Star, ext>> : ext \in {".odex", ".vdex", ".art"}}
    IN  {AndroidData \o <<Slash, "misc", Slash, "profiles", Slash, StarStar>>,
         AndroidData \o <<Slash, "dalvik-cache", Slash, StarStar>>}
        \cup {root \o <<Slash, "app", Slash, Star, Slash, Star, Slash, "oat", Slash,
                        StarStar>> : root \in DataRoots}
        \cup {SecondaryOatDir(root, user_dir) \o file \o suffix :
                 root \in DataRoots, user_dir \in {"user", "user_de"},
                 file \in secondary, suffix \in MaybeTmpSuffix}

\* env, expand: whether the lookups of the two directories succeed.
ListManagedFiles(env, expand, files) ==
    OrReturn(GetAndroidDataOrError(env),
    OrReturn(GetAndroidExpandOrError(expand), Ok(Glob(ManagedPatterns, files))))

-----------------------------------------------------------------------------
(* The builders.  env says whether the environment's lookup succeeds. *)

\* The decimal text of a user id: one symbol, with no "/" and no ".".
UserIdText(n) == ToString(n)

BuildArtBinPath(binary_name, env) ==
    OrReturn(GetArtRootOrError(env), Ok(ArtRoot \o <<Slash, "bin", Slash>> \o binary_name))

\* The conversions of OatFileAssistant succeed or fail as the environment
\* says; what they return is left open.
BuildOatPath(a, env) ==
    OrReturn(ValidateDexPath(a.dexPath),
             IF a.isa \notin ValidIsas THEN Err("isa")
             ELSE IF ~env THEN Err("oat_file_assistant")
             ELSE IF a.isInDalvikCache
                  THEN Ok(<<"DexLocationToOatFilename">> \o a.dexPath)
                  ELSE Ok(<<"DexLocationToOdexFilename">> \o a.dexPath))

BuildPrimaryRefProfilePath(p, env) ==
    OrReturn(ValidatePathElement(p.packageName),
    OrReturn(ValidatePathElementSubstring(p.profileName),
    OrReturn(GetAndroidDataOrError(env),
             Ok(AndroidData \o <<Slash, "misc", Slash, "profiles", Slash, "ref", Slash>>
                    \o p.packageName \o <<Slash>> \o p.profileName \o <<".prof">>))))

BuildPrebuiltProfilePath(p) ==
    OrReturn(ValidateDexPath(p.dexPath), Ok(p.dexPath \o <<".prof">>))

BuildPrimaryCurProfilePath(p, env) ==
    OrReturn(ValidatePathElement(p.packageName),
    OrReturn(ValidatePathElementSubstring(p.profileName),
    OrReturn(GetAndroidDataOrError(env),
             Ok(AndroidData \o <<Slash, "misc", Slash, "profiles", Slash, "cur", Slash>>
                    \o <<UserIdText(p.userId), Slash>>
                    \o p.packageName \o <<Slash>> \o p.profileName \o <<".prof">>))))

BuildSecondaryRefProfilePath(p) ==
    OrReturn(ValidateDexPath(p.dexPath),
             Ok(ParentPath(p.dexPath) \o <<Slash, "oat", Slash>>
                    \o Filename(p.dexPath) \o <<".prof">>))

BuildSecondaryCurProfilePath(p) ==
    OrReturn(ValidateDexPath(p.dexPath),
             Ok(ParentPath(p.dexPath) \o <<Slash, "oat", Slash>>
                    \o Filename(p.dexPath) \o <<".cur", ".prof">>))

\* Mutant of BuildFinalProfilePath: the case forSecondary is missing.
BuildFinalProfilePath_PrimaryOnly(p, env) ==
    IF p.finalPath.tag = "forPrimary"
    THEN BuildPrimaryRefProfilePath(p.finalPath, env)
    ELSE Fatal

BuildFinalProfilePath(p, env) ==
    CASE p.finalPath.tag = "forPrimary" -> BuildPrimaryRefProfilePath(p.finalPath, env)
      [] p.finalPath.tag = "forSecondary" -> BuildSecondaryRefProfilePath(p.finalPath)
      [] OTHER -> Fatal

\* NewFile::BuildTempPath is in another file.  It is taken to append
\* ".<id>.tmp" to the final path: the form for which maybe_tmp_suffix of
\* ListManagedFiles is written.
BuildTempPath(final_path, id) == final_path \o <<".">> \o id \o <<".tmp">>

BuildTmpProfilePath(p, env) ==
    OrReturn(ValidatePathElementSubstring(p.id),
             LET final == BuildFinalProfilePath(p, env)
             IN  OrReturn(final,
                          IF final.status = "fatal" THEN Fatal
                          ELSE Ok(BuildTempPath(final.path, p.id))))

BuildDexMetadataPath(p) ==
    OrReturn(ValidateDexPath(p.dexPath), Ok(<<"ReplaceFileExtension.dm">> \o p.dexPath))

BuildProfileOrDmPath(p, env) ==
    CASE p.tag = "primaryRefProfilePath" -> BuildPrimaryRefProfilePath(p, env)
      [] p.tag = "prebuiltProfilePath" -> BuildPrebuiltProfilePath(p)
      [] p.tag = "primaryCurProfilePath" -> BuildPrimaryCurProfilePath(p, env)
      [] p.tag = "secondaryRefProfilePath" -> BuildSecondaryRefProfilePath(p)
      [] p.tag = "secondaryCurProfilePath" -> BuildSecondaryCurProfilePath(p)
      [] p.tag = "tmpProfilePath" -> BuildTmpProfilePath(p, env)
      [] p.tag = "dexMetadataPath" -> BuildDexMetadataPath(p)
      [] OTHER -> Fatal

BuildVdexPath(a, env) ==
    LET oat == BuildOatPath(a, env)
    IN  OrReturn(oat, Ok(<<"OatPathToVdexPath">> \o oat.path))

-----------------------------------------------------------------------------
(* The requests *)

PrimaryRefProfilePath ==
    [tag : {"primaryRefProfilePath"}, packageName : Names, profileName : Names]
PrebuiltProfilePath == [tag : {"prebuiltProfilePath"}, dexPath : DexPaths]
PrimaryCurProfilePath ==
    [tag : {"primaryCurProfilePath"}, userId : UserIds, packageName : Names,
     profileName : Names]
SecondaryRefProfilePath == [tag : {"secondaryRefProfilePath"}, dexPath : DexPaths]
SecondaryCurProfilePath == [tag : {"secondaryCurProfilePath"}, dexPath : DexPaths]
DexMetadataPath == [tag : {"dexMetadataPath"}, dexPath : DexPaths]

WritableProfilePath ==
    [tag : {"forPrimary"}, packageName : Names, profileName : Names]
        \cup [tag : {"forSecondary"}, dexPath : DexPaths]
TmpProfilePath == [tag : {"tmpProfilePath"}, finalPath : WritableProfilePath, id : Ids]

ProfilePath ==
    PrimaryRefProfilePath \cup PrebuiltProfilePath \cup PrimaryCurProfilePath
        \cup SecondaryRefProfilePath \cup SecondaryCurProfilePath
        \cup TmpProfilePath \cup DexMetadataPath

ArtifactsPath == [dexPath : DexPaths, isa : Isas, isInDalvikCache : BOOLEAN]

-----------------------------------------------------------------------------
(* The specification: a call and its return, one after another *)

Init == request = NULL /\ result = NULL

Request(fn, arg, env) == [fn |-> fn, arg |-> arg, env |-> env]

CallBuildProfileOrDmPath ==
    /\ request = NULL
    /\ \E p \in ProfilePath, env \in BOOLEAN :
        /\ request' = Request("BuildProfileOrDmPath", p, env)
        /\ result' = BuildProfileOrDmPath(p, env)

CallBuildOatPath ==
    /\ request = NULL
    /\ \E a \in ArtifactsPath, env \in BOOLEAN :
        /\ request' = Request("BuildOatPath", a, env)
        /\ result' = BuildOatPath(a, env)

CallBuildVdexPath ==
    /\ request = NULL
    /\ \E a \in ArtifactsPath, env \in BOOLEAN :
        /\ request' = Request("BuildVdexPath", a, env)
        /\ result' = BuildVdexPath(a, env)

CallBuildArtBinPath ==
    /\ request = NULL
    /\ \E name \in Names, env \in BOOLEAN :
        /\ request' = Request("BuildArtBinPath", name, env)
        /\ result' = BuildArtBinPath(name, env)

\* The file system holds one regular file; Glob looks at each file by
\* itself.
CallListManagedFiles ==
    /\ request = NULL
    /\ \E f \in Files, env \in BOOLEAN, expand \in BOOLEAN :
        /\ request' = Request("ListManagedFiles", f, <<env, expand>>)
        /\ result' = ListManagedFiles(env, expand, {f})

\* The caller has taken the result.
Return ==
    /\ request # NULL
    /\ request' = NULL
    /\ result' = NULL

Next ==
    \/ CallBuildProfileOrDmPath
    \/ CallBuildOatPath
    \/ CallBuildVdexPath
    \/ CallBuildArtBinPath
    \/ CallListManagedFiles
    \/ Return

Spec == Init /\ [][Next]_vars

-----------------------------------------------------------------------------
(* Properties *)

\* A call returns a path or an error and never reaches LOG(FATAL): the
\* switches of BuildProfileOrDmPath and BuildFinalProfilePath handle every
\* tag, as the comments at their ends say.
TypeOK ==
    /\ request = NULL <=> result = NULL
    /\ result # NULL =>
          \/ result.status = "ok" /\ DOMAIN result = {"status", "path"}
          \/ result.status = "error" /\ DOMAIN result = {"status", "why"}

IsProfileRequest(tags) ==
    /\ request # NULL
    /\ request.fn = "BuildProfileOrDmPath"
    /\ request.arg.tag \in tags
    /\ result.status = "ok"

\* The primary profile of a request, for a tmp request the final one.
Primary(p) == IF p.tag = "tmpProfilePath" THEN p.finalPath ELSE p

\* A primary profile lies in the directory of its package: the validators
\* leave no packageName or profileName through that makes
\* BuildPrimaryRefProfilePath or BuildPrimaryCurProfilePath, or the tmp path
\* built from them, name a file elsewhere.  The path is absolute, has no "."
\* or ".." element, and its directory is <data>/misc/profiles/ref/<package>
\* or <data>/misc/profiles/cur/<user>/<package>.
PrimaryProfileInsidePackageDirectory ==
    IsProfileRequest({"primaryRefProfilePath", "primaryCurProfilePath", "tmpProfilePath"})
        /\ Primary(request.arg).tag # "forSecondary" =>
        LET p == Primary(request.arg)
            kind == IF p.tag = "primaryCurProfilePath"
                    THEN << <<"cur">>, <<UserIdText(p.userId)>> >>
                    ELSE << <<"ref">> >>
            dir == << <<"data">>, <<"misc">>, <<"profiles">> >> \o kind \o <<p.packageName>>
        IN  /\ IsAbsolute(result.path)
            /\ LexicallyNormal(result.path) = result.path
            /\ Front(Tail(Split(result.path))) = dir

\* Two different requests for a primary profile never name the same file:
\* BuildPrimaryRefProfilePath and BuildPrimaryCurProfilePath are injective
\* on what the validators accept.
DistinctRequestsDistinctFiles ==
    IsProfileRequest({"primaryRefProfilePath", "primaryCurProfilePath"}) =>
        \A other \in PrimaryRefProfilePath \cup PrimaryCurProfilePath :
            /\ other.tag = request.arg.tag
            /\ other # request.arg
            => BuildProfileOrDmPath(other, TRUE) # result

\* The directory of a path, as the file system sees it: its filenames
\* without the last.
Directory(s) == SelectSeq(Front(Split(s)), LAMBDA e : e # <<>>)

\* A profile derived from a dex file lies beside the dex file, whatever
\* dexPath ValidateDexPath lets through: one with separators that follow
\* each other, one that ends in a separator and has no filename, a file in
\* the root, the root.  The prebuilt profile is in the directory of the dex
\* file and the secondary profiles are in its "oat" directory, the name of
\* the profile begins with the name of the dex file, and no element of the
\* path built is "." or "..": parent_path, filename and the text pasted
\* between them in BuildSecondaryRefProfilePath and
\* BuildSecondaryCurProfilePath never name a file elsewhere.
DexProfileBesideDex ==
    IsProfileRequest({"prebuiltProfilePath", "secondaryRefProfilePath",
                      "secondaryCurProfilePath"}) =>
        LET dex == request.arg.dexPath
            own == Directory(result.path)
        IN  /\ IsAbsolute(result.path)
            /\ \A i \in DOMAIN own : own[i] \notin {Dot, DotDot}
            /\ own = IF request.arg.tag = "prebuiltProfilePath"
                     THEN Directory(dex) ELSE Append(Directory(dex), <<"oat">>)
            /\ IsPrefix(Filename(dex), Filename(result.path))
            /\ Last(result.path) = ".prof"

\* ValidateAbsoluteNormalPath accepts only text in normal form, as its name
\* and its error "is not in normal form" say: the dexPath of a request that
\* BuildPrebuiltProfilePath answers with a path is what lexically_normal
\* makes of it, character by character.
AcceptedPathIsInNormalForm ==
    IsProfileRequest({"prebuiltProfilePath"}) =>
        LexicallyNormal(request.arg.dexPath) = request.arg.dexPath

\* The file that a path names: its filenames, each after one separator.
FileOf(s) == Join(SelectSeq(Split(s), LAMBDA e : e # <<>>))

\* The files below the data directory of an app, <root>/user/<user>/<package>
\* or <root>/user_de/<user>/<package>, and those of them below a directory
\* "oat".
IsAppFile(f, below) ==
    \E root \in DataRoots, user_dir \in {"user", "user_de"} :
        MatchesPath(Split(root \o <<Slash, user_dir, Slash, Star, Slash, Star, Slash,
                                    StarStar>> \o below), Split(f))
InApp == <<Slash, Star>>
InOatOfApp == <<Slash, "oat", Slash, StarStar, Slash, Star>>

\* Every profile that artd writes is a file that artd manages: the path
\* that BuildProfileOrDmPath returns for a primary profile, for a secondary
\* profile of a dex file in the data directory of an app, and for the
\* temporary file of either, matches a pattern of ListManagedFiles, so that
\* the cleanup that works from that list sees each of them.
BuiltProfilesAreManaged ==
    IsProfileRequest({"primaryRefProfilePath", "primaryCurProfilePath",
                      "secondaryRefProfilePath", "secondaryCurProfilePath",
                      "tmpProfilePath"})
        /\ ("dexPath" \in DOMAIN Primary(request.arg)
               => IsAppFile(FileOf(Primary(request.arg).dexPath), InApp))
        =>
        ListManagedFiles(TRUE, TRUE, {FileOf(result.path)}) = Ok({FileOf(result.path)})

\* ListManagedFiles leaves the files of the apps alone, as the comment on
\* its patterns promises: a file it lists in the data directory of an app
\* lies below a directory "oat" there and is a profile or a compiled
\* artifact, or the temporary file of one.
OnlyOatFilesOfAppsAreManaged ==
    request # NULL /\ request.fn = "ListManagedFiles" /\ result.status = "ok" =>
        \A f \in result.path : IsAppFile(f, InApp) =>
            /\ IsAppFile(f, InOatOfApp)
            /\ \E ext \in {".prof", ".odex", ".vdex", ".art"}, suffix \in MaybeTmpSuffix :
                  MatchesName(<<Star, ext>> \o suffix, Filename(f))

=============================================================================
