---------------------------- MODULE ReleaseChannel -----------------------------
(***************************************************************************)
(* The stable release of the appliance: truchsessReleases.ts reads it from *)
(* GitHub for every box that asks, and store-release-admin.mjs holds it    *)
(* back.  A request is a database read and three rounds of calls to        *)
(* GitHub, and between any two of them the operator may pin another tag    *)
(* and the developers may publish, replace or withdraw a release.  What a  *)
(* release is made of is cached by each instance of the application; when  *)
(* five minutes are over is left to chance.                                *)
(*                                                                         *)
(* A release is known by its number, which grows with published_at and     *)
(* with the ids of its assets: a release that replaces another under the   *)
(* same tag has a number of its own.                                       *)
(***************************************************************************)
EXTENDS Naturals

CONSTANTS
    Tags,
    NoTag,        \* NULL in pinned_tag
    AppInstances, \* of the application, each with its own memory
    Askers,       \* requests of boxes that may run at the same time
    MaxReleases   \* bound: releases ever published

\* Only tags that begin with truchsess-iso- are pinned or looked at.
ASSUME TagAssumption == NoTag \notin Tags /\ "newest" \notin Tags

VARIABLES
    gitHub,       \* the release of each tag
    numbered,     \* the number of the last release
    pinned,       \* company_os_release_channels
    releaseCache, \* what each instance remembers, by cache key
    askers        \* the requests

releaseVars == <<gitHub, numbered, pinned, releaseCache, askers>>

NewestKey == "newest"  \* the cache key of an unpinned channel
CacheKeys == Tags \union {NewestKey}

NoRelease == [tag |-> NoTag, state |-> "absent", number |-> 0, sound |-> FALSE]
NotAsking == [at |-> "idle"]

ReleasesInit ==
    /\ gitHub = [t \in Tags |-> NoRelease]
    /\ numbered = 0
    /\ pinned = NoTag
    /\ releaseCache = [a \in AppInstances |-> [k \in CacheKeys |-> NoRelease]]
    /\ askers = [q \in Askers |-> NotAsking]

-------------------------------------------------------------------------------
\* The repository

\* sound: every update asset has a digest, and no checksum file contradicts it.
PublishRelease(t, sound) ==
    /\ numbered < MaxReleases          \* bound
    /\ numbered' = numbered + 1
    /\ gitHub' = [gitHub EXCEPT ![t] = [tag |-> t, state |-> "published",
                                        number |-> numbered + 1, sound |-> sound]]
    /\ UNCHANGED <<pinned, releaseCache, askers>>

\* A withdrawn release is deleted, or a draft again: then its assets stay.
WithdrawRelease(t, state) ==
    /\ gitHub[t].state = "published"
    /\ gitHub' = [gitHub EXCEPT ![t].state = state]
    /\ UNCHANGED <<numbered, pinned, releaseCache, askers>>

\* set-stable and clear.  Nobody looks whether the tag has a release.
SetStable(t) ==
    /\ pinned' = t
    /\ UNCHANGED <<gitHub, numbered, releaseCache, askers>>

-------------------------------------------------------------------------------
\* latestTruchsessRelease

Asker(q, value) == askers' = [askers EXCEPT ![q] = value]

\* stableTag
AskStable(q, a) ==
    /\ askers[q].at \in {"idle", "answered"}
    /\ Asker(q, [at |-> "asking", app |-> a, pin |-> pinned])
    /\ UNCHANGED <<gitHub, numbered, pinned, releaseCache>>

Eligible == {t \in Tags : gitHub[t].state = "published"}

\* What GitHub has for a tag, or the newest it has.
Looked(pin) ==
    IF pin # NoTag THEN IF pin \in Eligible THEN gitHub[pin] ELSE NoRelease
    ELSE IF Eligible = {} THEN NoRelease
    ELSE gitHub[CHOOSE t \in Eligible :
                  \A u \in Eligible : gitHub[u].number <= gitHub[t].number]

\* Mutated form of CacheKey: one entry for the channel, pinned or not.
CacheKeyOfChannel(pin) == NewestKey

CacheKey(pin) == IF pin = NoTag THEN NewestKey ELSE pin

\* releaseForTag: from the cache, or from GitHub and into the cache.
LookUpRelease(q) ==
    LET asker == askers[q]
        key == CacheKey(asker.pin)
        hit == releaseCache[asker.app][key]
        release == IF hit # NoRelease THEN hit ELSE Looked(asker.pin)
    IN
    /\ asker.at = "asking"
    /\ IF release = NoRelease
       THEN Asker(q, NotAsking) /\ UNCHANGED releaseCache
       ELSE /\ Asker(q, [at |-> "found", pin |-> asker.pin, release |-> release])
            /\ releaseCache' = [releaseCache EXCEPT ![asker.app][key] = release]
    /\ UNCHANGED <<gitHub, numbered, pinned>>

CacheExpires(a, k) ==
    /\ releaseCache[a][k] # NoRelease
    /\ releaseCache' = [releaseCache EXCEPT ![a][k] = NoRelease]
    /\ UNCHANGED <<gitHub, numbered, pinned, askers>>

\* Mutated form of AssetsFound: assets are asked for by tag and name.
AssetsFoundByName(release) == gitHub[release.tag].state # "absent"

\* redirectUrl: assets are asked for by id.
AssetsFound(release) ==
    /\ gitHub[release.tag].state # "absent"
    /\ gitHub[release.tag].number = release.number

\* The checksum files and a link to every asset: all of them, or an error.
LinkAssets(q) ==
    LET release == askers[q].release IN
    /\ askers[q].at = "found"
    /\ IF release.sound /\ AssetsFound(release)
       THEN Asker(q, [at |-> "linked", pin |-> askers[q].pin, release |-> release,
                      linked |-> gitHub[release.tag].number])
       ELSE Asker(q, NotAsking)
    /\ UNCHANGED <<gitHub, numbered, pinned, releaseCache>>

\* immutableCommitForTag: what the tag points at by now.
ReadCommit(q) ==
    /\ askers[q].at = "linked"
    /\ Asker(q, [at |-> "answered", pin |-> askers[q].pin,
                 release |-> askers[q].release, linked |-> askers[q].linked,
                 commit |-> gitHub[askers[q].release.tag].number])
    /\ UNCHANGED <<gitHub, numbered, pinned, releaseCache>>

\* GitHub answers with an error, or with a link that lives too long.
AskerFails(q) ==
    /\ askers[q].at \in {"asking", "found", "linked"}
    /\ Asker(q, NotAsking)
    /\ UNCHANGED <<gitHub, numbered, pinned, releaseCache>>

ReleaseStep ==
    \/ \E t \in Tags :
          \/ \E sound \in BOOLEAN : PublishRelease(t, sound)
          \/ \E state \in {"absent", "draft"} : WithdrawRelease(t, state)
    \/ \E t \in Tags \union {NoTag} : SetStable(t)
    \/ \E q \in Askers :
          \/ \E a \in AppInstances : AskStable(q, a)
          \/ LookUpRelease(q)
          \/ LinkAssets(q)
          \/ ReadCommit(q)
          \/ AskerFails(q)
    \/ \E a \in AppInstances, k \in CacheKeys : CacheExpires(a, k)

-------------------------------------------------------------------------------
\* An operator who holds a release back is obeyed at once: a box that asks
\* while a tag is pinned is answered with the release of that tag or with none,
\* whatever its instance remembers.  And what a box is answered belongs
\* together though it was read at four moments and partly from memory: the
\* links lead to the files whose digests it is told, and the commit is not
\* older than they are.
StableIsOneRelease ==
    \A q \in Askers : askers[q].at = "answered" =>
        /\ askers[q].pin # NoTag => askers[q].release.tag = askers[q].pin
        /\ askers[q].linked = askers[q].release.number
        /\ askers[q].commit >= askers[q].release.number
===============================================================================
