-------------------------- MODULE ServerUrlCheck --------------------------
(***************************************************************************)
(* ServerUrl against what a target is written from: one server and one     *)
(* workspace name, in every spelling the command line takes.               *)
(***************************************************************************)
EXTENDS Integers, Sequences

CONSTANTS
    Words,                      \* what names are made of
    Scheme, Host, Port,
    Paths, Workspaces

VARIABLE wanted     \* the pieces of a target

U == INSTANCE ServerUrl

\* No word is one of the separators, which are tokens of their own.
ASSUME TargetAssumption ==
    /\ Words \cap {"://", ":", "/"} = {}
    /\ {Scheme, Host, Port} \subseteq Words
    /\ Paths \subseteq Seq(Words \X BOOLEAN)
    /\ Workspaces \subseteq Words \X BOOLEAN

\* A server and a workspace name, in both spellings.
Targets ==
    [given : {TRUE}, upper : SUBSET {"scheme", "host"}, port : BOOLEAN,
     path : Paths, slash : BOOLEAN, name : Workspaces]

NoTarget == [given |-> FALSE]

TargetInit == wanted \in Targets \cup {NoTarget}

TargetSpec == TargetInit /\ [][UNCHANGED wanted]_wanted

Cased(word, upper) == IF upper THEN U!Upper(word) ELSE U!Lower(word)

\* Scheme and host, with the port if it is written.
Origin(in) ==
    <<Cased(Scheme, "scheme" \in in.upper), U!Separator, Cased(Host, "host" \in in.upper)>>
    \o (IF in.port THEN <<U!Colon, U!Lower(Port)>> ELSE <<>>)

\* A slash before every segment.
Subpath(path) ==
    [i \in 1 .. 2 * Len(path) |-> IF i % 2 = 1 THEN U!Slash ELSE path[i \div 2]]

Address(in) == Origin(in) \o Subpath(in.path)

Closing(in) == IF in.slash THEN <<U!Slash>> ELSE <<>>

\* <server>/<name> and <server> --workspace <name>, with or without a slash
\* at the end.
Shorthand(in) == U!ParseTargetSpec(Address(in) \o <<U!Slash, in.name>> \o Closing(in), U!Nullopt)
Longhand(in) == U!ParseTargetSpec(Address(in) \o Closing(in), <<in.name>>)

Key(in) == Address([in EXCEPT !.upper = {}])

\* The slash that a server keeps in its key: not the root's.
Kept(in) == IF in.path = <<>> THEN <<>> ELSE Closing(in)

\* The key of a server in the credentials file is its address in lower case,
\* whichever way a target is written; the one way to a second key is a
\* sub-path given to --workspace with a slash behind it, which stays.  The
\* name is the one written, and reading a key again leaves it alone.
KeysOfServer ==
    wanted.given =>
        /\ Shorthand(wanted) = [server |-> Key(wanted), name |-> <<wanted.name>>]
        /\ Longhand(wanted) = [server |-> Key(wanted) \o Kept(wanted), name |-> <<wanted.name>>]
        /\ \A spec \in {Shorthand(wanted), Longhand(wanted)} :
              U!NormalizeServerUrl(spec.server) = spec.server
=============================================================================
