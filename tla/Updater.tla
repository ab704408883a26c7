------------------------------ MODULE Updater ------------------------------
(***************************************************************************)
(* Nickvision::Update::Updater (src/update/updater.cpp) and the calls it   *)
(* makes of Web (src/network/web.cpp), against a repository whose releases *)
(* appear and disappear. Every request may fail. Entries that lack an id,  *)
(* a tag or the mark of a prerelease, which are skipped, are not listed.   *)
(***************************************************************************)
EXTENDS Version

CONSTANTS
    Updaters,    \* the objects
    Tags,        \* versions that releases may have
    Unreadable,  \* a tag that is no version, or an answer that is no JSON
    MaxReleases  \* bound on the releases published

ASSUME UpdaterAssumption ==
    /\ Zero \in Versions /\ Tags \subseteq Versions
    /\ Unreadable \notin Versions
    /\ MaxReleases \in Nat

VARIABLES
    releases,    \* what the server lists, the newest first
    published,   \* how many there have been, the id of the last
    inOrder,     \* history: each was of a higher version than those listed, and
                 \* than Zero, which stands for no release
    latest,      \* m_latestStableReleaseId and m_latestPreviewReleaseId of each
    fetched,     \* history: the release each last announced of a type
    target,      \* the release whose whole asset the last step put in place, if any
    terminated   \* an exception left a noexcept function

updaterVars == <<releases, published, inOrder, latest, fetched, target, terminated>>

VersionType == {"Stable", "Preview"}
NoRelease == -1
NoFile == 0

UpdaterInit ==
    /\ releases = <<>> /\ published = 0 /\ inOrder = TRUE
    /\ latest = [u \in Updaters |-> [t \in VersionType |-> NoRelease]]
    /\ fetched = latest
    /\ target = NoFile /\ terminated = FALSE

\* The server is of no interest after the program has ended.
Publish(tag, prerelease) ==
    /\ ~terminated /\ published < MaxReleases
    /\ releases' = <<[id |-> published + 1, tag |-> tag, prerelease |-> prerelease]>> \o releases
    /\ published' = published + 1
    /\ inOrder' = /\ inOrder /\ tag # Unreadable /\ Less(Zero, tag)
                  /\ \A i \in DOMAIN releases : Less(releases[i].tag, tag)
    /\ target' = NoFile
    /\ UNCHANGED <<latest, fetched, terminated>>

Withdraw(i) ==
    /\ ~terminated
    /\ releases' = SubSeq(releases, 1, i - 1) \o SubSeq(releases, i + 1, Len(releases))
    /\ target' = NoFile
    /\ UNCHANGED <<published, inOrder, latest, fetched, terminated>>

-----------------------------------------------------------------------------
(* fetchCurrentVersion() *)

LastOf(set) == {i \in set : \A j \in set : j <= i}

\* Nothing counts as found until a version is that is not 0.0.0: the loop takes
\* every prerelease up to the first such one, and the id of the last of them.
Prereleases ==
    {i \in DOMAIN releases :
        /\ releases[i].prerelease
        /\ \A j \in 1..i - 1 : releases[j].prerelease => releases[j].tag = Zero}

FirstPrerelease == LastOf(Prereleases)

\* And what it did not take as a prerelease, as stable: it may be a prerelease too.
Others ==
    {i \in DOMAIN releases \ Prereleases :
        \A j \in 1..i - 1 : j \notin Prereleases => releases[j].tag = Zero}

FirstOther == LastOf(Others)

TagOf(found) == IF found = {} THEN Zero ELSE releases[CHOOSE i \in found : TRUE].tag
IdOf(found, old) == IF found = {} THEN old ELSE releases[CHOOSE i \in found : TRUE].id

StableIsNewer == Greater(TagOf(FirstOther), TagOf(FirstPrerelease))

Answer(type) == IF type = "Stable" \/ StableIsNewer THEN FirstOther ELSE FirstPrerelease

\* Mutant: the id of the preview is not replaced with its version.
IdsKept(old) == [Stable  |-> IdOf(FirstOther, old["Stable"]),
                 Preview |-> IdOf(FirstPrerelease, old["Preview"])]

Ids(old) == [Stable  |-> IdOf(FirstOther, old["Stable"]),
             Preview |-> IF StableIsNewer THEN IdOf(FirstOther, old["Stable"])
                         ELSE IdOf(FirstPrerelease, old["Preview"])]

FetchCurrentVersion(u, type) ==
    /\ ~terminated
    /\ IF Unreadable \in {TagOf(FirstOther), TagOf(FirstPrerelease)}
       THEN terminated' = TRUE /\ UNCHANGED <<latest, fetched>>
       ELSE /\ latest' = [latest EXCEPT ![u] = Ids(@)]
            /\ fetched' = [fetched EXCEPT ![u][type] = IdOf(Answer(type), NoRelease)]
            /\ UNCHANGED terminated
    /\ target' = NoFile
    /\ UNCHANGED <<releases, published, inOrder>>

\* The release is asked for by its id and may be gone. The file there was is
\* removed first, and a failed download leaves none, or a part of the new one.
DownloadUpdate(u, type) ==
    /\ ~terminated
    /\ latest[u][type] \in {releases[i].id : i \in DOMAIN releases}
    /\ target' \in {latest[u][type], NoFile}
    /\ UNCHANGED <<releases, published, inOrder, latest, fetched, terminated>>

\* u = v, under the mutexes of both, which are locked as SuspendInhibitor's.
AssignUpdater(u, v) ==
    /\ ~terminated /\ u # v
    /\ latest' = [latest EXCEPT ![u] = latest[v]]
    /\ fetched' = [fetched EXCEPT ![u] = fetched[v]]
    /\ target' = NoFile
    /\ UNCHANGED <<releases, published, inOrder, terminated>>

UpdaterNext ==
    \/ \E tag \in Tags \cup {Unreadable}, prerelease \in BOOLEAN : Publish(tag, prerelease)
    \/ \E i \in DOMAIN releases : Withdraw(i)
    \/ \E u \in Updaters :
          \/ \E type \in VersionType : FetchCurrentVersion(u, type) \/ DownloadUpdate(u, type)
          \/ \E v \in Updaters : AssignUpdater(u, v)

UpdaterSpec == UpdaterInit /\ [][UpdaterNext]_updaterVars

-----------------------------------------------------------------------------
StableReleases == {i \in DOMAIN releases : ~releases[i].prerelease}
TwoPrereleasesFirst == Len(releases) >= 2 /\ releases[1].prerelease /\ releases[2].prerelease

\* An updater announces the newest stable release, unless the two newest
\* releases are prereleases, when it takes the second for stable, or one has the
\* tag 0.0.0, which counts as none; and, of releases that were published in the
\* order of their versions, the newest of all as the preview.
AnnouncesNewest ==
    /\ {Unreadable, Zero} \cap {releases[i].tag : i \in DOMAIN releases} = {}
       /\ ~TwoPrereleasesFirst =>
           TagOf(Answer("Stable")) = TagOf({i \in StableReleases : \A j \in StableReleases : i <= j})
    /\ inOrder /\ releases # <<>> => TagOf(Answer("Preview")) = releases[1].tag

\* The announced release is listed, and was no prerelease taken for stable and
\* none whose tag counts as none.
StillAnnounced(u, type, i) ==
    /\ releases[i].id = fetched[u][type] /\ releases[i].tag # Zero
    /\ type = "Stable" => ~releases[i].prerelease

\* While the announced release is listed, a stable download was not published
\* before it, in whatever order of versions releases appear; and of releases
\* published in the order of their versions no download, stable or preview, has an
\* older version: whatever was fetched, published or withdrawn since, also by a
\* copy. (Out of order a preview may well be older: 2.0.0-beta is announced, then
\* 1.9.0 and 1.9.1-beta are published, and fetching the stable version moves the
\* id of the preview to 1.9.1-beta.)
DownloadsAnnounced(u, type) ==
    \A i, j \in DOMAIN releases :
        StillAnnounced(u, type, i) /\ releases[j].id = target' =>
            /\ type = "Stable" => releases[j].id >= releases[i].id
            /\ inOrder => ~Less(releases[j].tag, releases[i].tag)

UpdatesAreCurrent ==
    /\ []AnnouncesNewest
    /\ [][\A u \in Updaters, type \in VersionType :
            DownloadUpdate(u, type) => DownloadsAnnounced(u, type)]_updaterVars

=============================================================================
