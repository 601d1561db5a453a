----------------------------- MODULE MCOverlay ------------------------------
(* Workspaces that a few edits make from nothing, and a walk of any part;    *)
(* and the ignore rules, on small sets of patterns.                          *)
EXTENDS Overlay, Ignore, MCExternal

MCNode == {<<"a">>, <<"b">>, <<"a", "a">>, <<"a", "b">>, <<"b", "a">>,
           <<"a", "a", "a">>, <<"a", "a", "b">>}

-----------------------------------------------------------------------------
(* Two patterns at the root and one in a directory. A pattern with a slash   *)
(* in it is not deep.                                                        *)
MCPattern == {t \in Pattern({<<"a">>, <<"b">>, <<"a", "b">>}) : Len(t.path) > 1 => ~t.deep}
MCRootPatterns == UNION {[1..n -> MCPattern] : n \in 0..2}
MCFiles == {(<<>> :> T) : T \in MCRootPatterns}
              \cup {(<<>> :> <<t>>) @@ (<<"a">> :> U) : t \in MCPattern, U \in MCRootPatterns}
MCQueries == {<<"a">>, <<"b">>, <<"a", "b">>, <<"b", "a">>, <<"a", "a", "b">>, <<"b", "a", "b">>}
MCSubrepos == {{}, {<<"a">>}, {<<"b", "a">>}}

ASSUME GitignoreFollowed ==
    \A files \in MCFiles : \A q \in MCQueries : \A isDir \in BOOLEAN : FollowsGitignore(files, q, isDir)

ASSUME TreesAnswerLikeWalks ==
    \A files \in MCFiles : \A subs \in MCSubrepos : \A q \in MCQueries : \A isDir \in BOOLEAN :
        /\ AnswersLikeWalk(files, subs, q, isDir)
        /\ SubreposHidden(files, subs, q, isDir)
=============================================================================
