------------------------------- MODULE MCConfig -------------------------------
(* Config over two remotes, one of them also spelt in upper case, with a URL *)
(* of one of two kinds and an option that only one kind has, in three levels *)
(* that may have been edited in any way.                                     *)
EXTENDS Naturals, FiniteSets, TLC

MCName == {"a", "b", "c", "B", "C"}
MCLower == [n \in MCName |-> CASE n = "B" -> "b" [] n = "C" -> "c" [] OTHER -> n]
MCAllowed == [u \in {"ssh", "path"} |-> IF u = "ssh" THEN {"url", "port"} ELSE {"url"}]

C == INSTANCE Config WITH Name <- MCName, None <- "none", Lower <- MCLower, Allowed <- MCAllowed

Ssh == "url" :> "ssh"
Path == "url" :> "path"
Port == "port" :> "22"

Tables(S) == {[a |-> x] : x \in S} \cup {[b |-> x] : x \in S} \cup {[a |-> x, b |-> y] : x, y \in S}
             \cup {<<>>}
Conf(cores, S) == [core : cores, remote : Tables(S)]
Empty == [core |-> "none", remote |-> <<>>]

MCFiles == {<<Empty, g, r, l>> : g \in {Empty, [core |-> "a", remote |-> [a |-> Ssh]]},
                                 r \in Conf({"none", "a", "B"}, {Ssh, Ssh @@ Port}),
                                 l \in Conf({"none", "b"}, {Path, Port})}
MCUsable == {f \in MCFiles : C!Valid(f, C!Local)}


(* Outside a repository there are two levels.                                *)
MCInside(f) == IF f[3] = Empty /\ f[4] = Empty THEN BOOLEAN ELSE {TRUE}
MCLevel == {C!Global, C!Repo, C!Local}
Kept(files, t) == C!KeepsDefaults(files, t)

-----------------------------------------------------------------------------
ASSUME RemotesKeepDefaults ==
    \A f \in MCUsable : \A inside \in MCInside(f) : \A k \in MCLevel : \A n \in {"a", "b"} :
        LET s == C!Begin(f, inside)
        IN /\ \A force, default \in BOOLEAN : Kept(f, C!RemoteAdd(s, k, n, "path", force, default))
           /\ Kept(f, C!RemoteModify(s, k, n, "port", "22"))
           /\ Kept(f, C!RemoteUnset(s, k, n, "url"))
           /\ Kept(f, C!RemoteDefault(s, k, n)) /\ Kept(f, C!RemoteDefault(s, k, "none"))
           /\ Kept(f, C!RemoteRemove(s, k, n))
           /\ \A new \in {"c", "C", "B"} : Kept(f, C!RemoteRename(s, k, n, new))

ASSUME CommandsFailClean ==
    \A f \in MCUsable : \A inside \in MCInside(f) :
    \A k \in MCLevel : \A n \in {"a", "b"} : \A down \in C!LEVELS \cup {5} :
        LET s == C!Begin(f, inside)
        IN /\ C!FailsClean(f, k, n, C!Removing(s, k, n, down))
           /\ C!FailsClean(f, k, n, C!Renaming(s, k, n, "c", down))
           /\ C!FailsClean(f, k, n, C!RemoteModify(s, k, n, "url", "path"))
           /\ C!FailsClean(f, k, n, C!RemoteAdd(s, k, n, "path", TRUE, FALSE))
           /\ C!FailsClean(f, k, n, C!RemoteUnset(s, k, n, "port"))

ASSUME RenamesOnlyOne ==
    \A f \in MCUsable : \A k \in MCLevel : \A n \in {"a", "b"} : \A new \in {"c", "C", "B"} :
        C!RenamesOne(f, k, n, new, C!RemoteRename(C!Begin(f, TRUE), k, n, new))
=============================================================================
