------------------------------- MODULE Naming -------------------------------
(***************************************************************************)
(* builder.AppName: the name of a pull request's App and PRDeployment, from *)
(* a template and the slugs of repository and branch.  A word is a         *)
(* sequence of characters; a few letters stand for all.                    *)
(***************************************************************************)
EXTENDS Naturals, SequencesExt

CONSTANTS
    Characters, \* what words consist of
    MaxName,    \* the longest name, 253 in the code
    Digits      \* per pull request number: its digits, a word

LowerCase == [A |-> "a", B |-> "b"]
Alphanumeric == {"a", "b", "p", "r", "1", "2", "3"}

ASSUME NamingAssumption ==
    /\ MaxName \in Nat \ {0}
    /\ Alphanumeric \cup {"-"} \subseteq Characters
    /\ \A number \in DOMAIN Digits : Digits[number] \in Seq(Characters)

ToLower(c) == IF c \in DOMAIN LowerCase THEN LowerCase[c] ELSE c

-----------------------------------------------------------------------------
(* slugify *)

\* '/', '_' and whatever else is not allowed become dashes.
Dashed(w) == [i \in DOMAIN w |-> IF ToLower(w[i]) \in Alphanumeric THEN ToLower(w[i]) ELSE "-"]

\* A dash behind a dash is left out.
Squeezed(w) ==
    LET squeezed[n \in 0..Len(w)] ==
          IF n = 0 THEN <<>>
          ELSE IF w[n] = "-" /\ n > 1 /\ w[n - 1] = "-" THEN squeezed[n - 1]
          ELSE Append(squeezed[n - 1], w[n])
    IN  squeezed[Len(w)]

\* Defect: only a dash in front is removed.
TrimmedLeft(w) == IF w # <<>> /\ Head(w) = "-" THEN Tail(w) ELSE w

\* A squeezed word has at most one dash at each end.
Trimmed(w) ==
    LET left == IF w # <<>> /\ Head(w) = "-" THEN Tail(w) ELSE w
    IN  IF left # <<>> /\ Last(left) = "-" THEN Front(left) ELSE left

Clean(w) == Trimmed(Squeezed(Dashed(w)))

\* The name is cut after it was trimmed.
Slugify(w) == SubSeq(Clean(w), 1, IF Len(Clean(w)) > MaxName THEN MaxName ELSE Len(Clean(w)))

-----------------------------------------------------------------------------
(* AppName *)

\* The last segment of the repository's URL.
RepoName(url) ==
    LET slashes == {i \in DOMAIN url : url[i] = "/"}
        start == IF slashes = {} THEN 1 ELSE Max(slashes) + 1
        segment == SubSeq(url, start, Len(url))
    IN  [i \in DOMAIN segment |-> ToLower(segment[i])]

\* "number" is the template used by default.
Templates == {"number", "branch", "repo-branch"}

Render(template, repo, number, slug) ==
    CASE template = "number"      -> repo \o <<"-", "p", "r", "-">> \o Digits[number]
      [] template = "branch"      -> slug
      [] template = "repo-branch" -> repo \o <<"-">> \o slug

AppName(template, url, number, branch) ==
    Slugify(Render(template, RepoName(url), number, Slugify(branch)))

\* What Kubernetes accepts as the name of an object.
ValidName(name) == name # <<>> /\ Head(name) # "-" /\ Last(name) # "-"

-----------------------------------------------------------------------------
(* The reference: the letters and digits in order, and a dash between two that are not *)
(* neighbours                                                                          *)

Letters(w) == {i \in DOMAIN w : ToLower(w[i]) \in Alphanumeric}

\* A dash stands for the first of the other characters.
Kept(w) == {i \in DOMAIN w : \/ i \in Letters(w)
                             \/ i - 1 \in Letters(w) /\ \E j \in Letters(w) : i < j}

Place(set, i) == Cardinality({k \in set : k <= i})

IsSlugOf(name, w) ==
    /\ Len(name) = Cardinality(Kept(w))
    /\ \A i \in Kept(w) :
         name[Place(Kept(w), i)] = IF i \in Letters(w) THEN ToLower(w[i]) ELSE "-"
=============================================================================
