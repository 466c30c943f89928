---------------------------- MODULE ServerUrl ----------------------------
(***************************************************************************)
(* Server URLs and the <server>/<workspace> shorthand (workspace/          *)
(* target.cpp).  A URL is a sequence of tokens: "://", ":", "/" and names  *)
(* of at least two characters in lower or upper case; a query is part of   *)
(* the name before it.                                                     *)
(***************************************************************************)
EXTENDS Integers, Sequences, SequencesExt

Separator == <<"://", FALSE>>
Colon == <<":", FALSE>>
Slash == <<"/", FALSE>>
Lower(n) == <<n, FALSE>>
Upper(n) == <<n, TRUE>>

Nullopt == <<>>    \* std::nullopt; no URL and no name is empty

First(url, token) == Min({i \in 1..Len(url) : url[i] = token} \cup {Len(url) + 1})

ToLower(url) == [i \in 1..Len(url) |-> <<url[i][1], FALSE>>]

\* Where splitAtPath cuts: the first slash behind "://", or, without one,
\* behind the first two characters.
PathStart(url) ==
    LET from == IF Contains(url, Separator) THEN First(url, Separator) + 1
                ELSE IF url # <<>> /\ Head(url) \notin {Colon, Slash} THEN 2 ELSE 3
    IN  Min({i \in from..Len(url) : url[i] = Slash} \cup {Len(url) + 1})

Authority(url) == SubSeq(url, 1, PathStart(url) - 1)
Path(url) == SubSeq(url, PathStart(url), Len(url))

\* Mutant: the slash of the root stays.
KeepsRootSlash(raw) ==
    IF First(raw, Separator) \in {1, Len(raw) + 1} THEN Nullopt
    ELSE ToLower(Authority(raw)) \o Path(raw)

\* normalizeServerUrl: scheme and host to lower case, the port and the path
\* as they are, except that the root has no slash.
NormalizeServerUrl(raw) ==
    LET scheme == First(raw, Separator)
        authority == Authority(raw)
        ports == {i \in scheme + 1..Len(authority) : authority[i] = Colon}
        host == IF ports = {} THEN Len(authority) ELSE Min(ports) - 1
    IN  IF scheme \in {1, Len(raw) + 1} THEN Nullopt
        ELSE ToLower(SubSeq(authority, 1, host))
             \o SubSeq(authority, host + 1, Len(authority))
             \o (IF Path(raw) = <<Slash>> THEN <<>> ELSE Path(raw))

Trimmed(path) ==
    LET kept == {i \in 1..Len(path) : path[i] # Slash}
    IN  IF kept = {} THEN <<>> ELSE SubSeq(path, Min(kept), Max(kept))

\* parseTargetSpec: the server that init talks to (urlAfterSplit, or fullUrl
\* without a split) and the workspace name.
ParseTargetSpec(input, explicitWorkspace) ==
    LET url == IF NormalizeServerUrl(input) = Nullopt THEN input ELSE NormalizeServerUrl(input)
        trimmed == Trimmed(Path(url))
        slashes == {i \in 1..Len(trimmed) : trimmed[i] = Slash}
        cut == IF slashes = {} THEN 0 ELSE Max(slashes)
    IN  CASE explicitWorkspace # Nullopt -> [server |-> url, name |-> explicitWorkspace]
          [] explicitWorkspace = Nullopt /\ trimmed = <<>> -> [server |-> url, name |-> Nullopt]
          [] OTHER -> [server |-> Authority(url)
                                  \o (IF cut = 0 THEN <<>> ELSE <<Slash>> \o SubSeq(trimmed, 1, cut - 1)),
                       name |-> SubSeq(trimmed, cut + 1, Len(trimmed))]
=============================================================================
