---------------------------- MODULE FetchSources ----------------------------
(***************************************************************************)
(* PHASE 1 on the build host: fetch.sh and build/fetch-sources.sh fill      *)
(* sources/ with the four upstreams that config/versions.lock names, and    *)
(* skip what a stamp says is there.  The script can stop at any step: a     *)
(* mirror that fails, Ctrl-C, a full disk.                                  *)
(***************************************************************************)
EXTENDS Integers

CONSTANTS
  Refs,       \* release tags of each upstream, newer ones larger
  Moving,     \* upstreams that release, and that the user moves in the lock
  Recuts,     \* upstreams whose tags may be cut again, once
  Pinned,     \* libreboot releases in build/libreboot-sha512sums
  Works,      \* revisions of the working tree: defconfig, patches, keys, and MAC
  MaxFaults   \* bound: runs of the script that stop midway

Comps == {"coreboot", "edk2", "libreboot", "lbmk"}
Trees == Comps \ {"libreboot"}

ASSUME FetchAssumption ==
  /\ Refs \subseteq Nat \ {0}
  /\ 1 \in Refs
  /\ Moving \subseteq Comps
  /\ Recuts \subseteq Trees
  /\ Pinned \subseteq Refs
  /\ Works \subseteq Nat \ {0}
  /\ 1 \in Works
  /\ MaxFaults \in Nat

VARIABLES
  newest,     \* newest[c]: the newest release of c upstream
  tag,        \* tag[c][r]: the commit release r of c points at
  config,     \* config/versions.lock
  work,       \* the working tree
  lock,       \* sources/versions.lock
  tree,       \* tree[c]: what sources/<c> has checked out
  whole,      \* history: trees with their submodules, tarballs or cache
  stamps,     \* .stamp-clone and .stamp-fetch, .stamp-fetch, .stamp-populated
  tarball,    \* tarball[r]: the libreboot tarball of release r
  sha,        \* releases whose .sha512 and .sig a mirror has served
  sums,       \* sha256sums.txt
  frozen,     \* the working tree as it was copied into sources/, 0 for not yet
  pc,         \* the next step of the run, "idle" between runs
  latest,     \* --latest
  refresh,    \* --refresh
  prev,       \* PREV_*: the lock of the run before
  now,        \* the set this run fetches
  ready,      \* history: the last run came to its end, "refreshed" with --refresh
  missed,     \* history: a run stopped before it dropped the stamps of what
              \* moved, and no --refresh has ended since
  faults      \* runs that stopped midway

upstream == <<newest, tag>>
flags    == <<latest, refresh, prev, now>>
disk     == <<tree, whole, stamps, tarball, sha, sums>>
fetchVars == <<newest, tag, config, work, lock, tree, whole, stamps, tarball,
               sha, sums, frozen, pc, latest, refresh, prev, now, ready, missed,
               faults>>

\* A lock entry names a tag and the commit it pointed at; "rev" tells the
\* commits of one tag apart.
Version == [ref : Refs, rev : 0 .. 1]
Nothing == [ref |-> 0, rev |-> 0]
Set     == [Comps -> Version \cup {Nothing}]
Stamps  == {"clone", "coreboot", "edk2", "lbmk"}
NoSet   == [c \in Comps |-> Nothing]
NoSums  == [ref |-> 0, file |-> "none"]

FetchSteps == {"fill", "invalidate", "coreboot", "clone", "crossgcc", "edk2",
               "checkout", "submodules", "head", "libreboot", "download",
               "verify", "lbmk", "populate", "sums", "takeover", "freeze"}

FetchTypeOK ==
  /\ newest \in [Comps -> Refs]
  /\ tag \in [Comps -> [Refs -> 0 .. 1]]
  /\ config \in [Comps -> Version]
  /\ work \in Works
  /\ lock \in Set /\ prev \in Set /\ now \in Set
  /\ tree \in [Trees -> Version \cup {Nothing}]
  /\ whole \subseteq Trees
  /\ stamps \subseteq Stamps
  /\ tarball \in [Refs -> {"none", "part", "whole"}]
  /\ sha \subseteq Refs
  /\ sums \in [ref : Refs \cup {0}, file : {"none", "part", "whole"}]
  /\ frozen \in Works \cup {0}
  /\ latest \in BOOLEAN /\ refresh \in BOOLEAN
  /\ ready \in {"no", "yes", "refreshed"}
  /\ missed \in BOOLEAN
  /\ faults \in 0 .. MaxFaults

FetchInit ==
  /\ newest = [c \in Comps |-> 1]
  /\ tag = [c \in Comps |-> [r \in Refs |-> 0]]
  /\ config = [c \in Comps |-> [ref |-> 1, rev |-> 0]]
  /\ work = 1
  /\ lock = NoSet
  /\ tree = [c \in Trees |-> Nothing]
  /\ whole = {}
  /\ stamps = {}
  /\ tarball = [r \in Refs |-> "none"]
  /\ sha = {}
  /\ sums = NoSums
  /\ frozen = 0
  /\ pc = "idle"
  /\ latest = FALSE
  /\ refresh = FALSE
  /\ prev = NoSet
  /\ now = NoSet
  /\ ready = "no"
  /\ missed = FALSE
  /\ faults = 0

Cut(c, r) == [ref |-> r, rev |-> tag[c][r]]

\* The script's variables are gone when it ends.
Exit ==
  /\ pc' = "idle"
  /\ latest' = FALSE
  /\ refresh' = FALSE
  /\ prev' = NoSet
  /\ now' = NoSet

Goto(step) == pc' = step /\ UNCHANGED flags

-----------------------------------------------------------------------------
(* Outside the scripts: upstream releases and cuts tags again, the user edits *)
(* the lock, back to an older release too, and the working tree.              *)

Release(c) ==
  /\ c \in Moving
  /\ newest[c] + 1 \in Refs
  /\ newest' = [newest EXCEPT ![c] = newest[c] + 1]
  /\ UNCHANGED <<tag, config, work, lock, disk, frozen, pc, flags, ready,
                 missed, faults>>

Recut(c) ==
  /\ c \in Recuts
  /\ tag[c][newest[c]] = 0
  /\ tag' = [tag EXCEPT ![c][newest[c]] = 1]
  /\ UNCHANGED <<newest, config, work, lock, disk, frozen, pc, flags, ready,
                 missed, faults>>

EditLock(c, r) ==
  /\ pc = "idle"
  /\ c \in Moving
  /\ r <= newest[c]
  /\ config' = [config EXCEPT ![c] = Cut(c, r)]
  /\ UNCHANGED <<upstream, work, lock, disk, frozen, pc, flags, ready, missed,
                 faults>>

EditWork(w) ==
  /\ work' = w
  /\ UNCHANGED <<upstream, config, lock, disk, frozen, pc, flags, ready,
                 missed, faults>>

-----------------------------------------------------------------------------
(* The version set                                                           *)

\* PREV_* is read, the set is read or resolved, and the shell truncates
\* sources/versions.lock to write it.
Start(l, r) ==
  /\ pc = "idle"
  /\ latest' = l
  /\ refresh' = r
  /\ prev' = lock
  /\ now' = IF l THEN [c \in Comps |-> Cut(c, newest[c])] ELSE config
  /\ lock' = NoSet
  /\ ready' = "no"
  /\ pc' = "fill"
  /\ UNCHANGED <<upstream, config, work, disk, frozen, missed,
                 faults>>

FillLock ==
  /\ pc = "fill"
  /\ lock' = now
  /\ Goto("invalidate")
  /\ UNCHANGED <<upstream, config, work, disk, frozen, ready, missed, faults>>

Moved(c) == prev[c] # Nothing /\ prev[c] # now[c]

\* Mutant: coreboot's second stamp is forgotten.
InvalidateOneStamp ==
  /\ pc = "invalidate"
  /\ stamps' = stamps \ {c \in Trees : Moved(c)}
  /\ Goto("coreboot")
  /\ UNCHANGED <<upstream, config, work, lock, tree, whole, tarball, sha, sums,
                 frozen, ready, missed, faults>>

\* Libreboot needs no stamp, its version is in the file name.
Invalidate ==
  /\ pc = "invalidate"
  /\ stamps' = stamps \ ({c \in Trees : Moved(c)}
                           \cup {s \in {"clone"} : Moved("coreboot")})
  /\ Goto("coreboot")
  /\ UNCHANGED <<upstream, config, work, lock, tree, whole, tarball, sha, sums,
                 frozen, ready, missed, faults>>

-----------------------------------------------------------------------------
(* coreboot: clone and submodules, then the crossgcc tarballs                 *)

\* Mutant: --refresh does not reach the skip.
HaveStamped(stamp) == stamp \in stamps

Have(stamp) == stamp \in stamps /\ ~refresh

\* The stamps live inside the tree, and go with it.
Coreboot ==
  /\ pc = "coreboot"
  /\ IF Have("coreboot") THEN Goto("edk2") /\ UNCHANGED <<tree, whole, stamps>>
     ELSE IF Have("clone")
          THEN Goto("crossgcc") /\ UNCHANGED <<tree, whole, stamps>>
     ELSE /\ Goto("clone")
          /\ tree' = [tree EXCEPT !["coreboot"] = Nothing]
          /\ whole' = whole \ {"coreboot"}
          /\ stamps' = stamps \ {"clone", "coreboot"}
  /\ UNCHANGED <<upstream, config, work, lock, tarball, sha, sums, frozen,
                 ready, missed, faults>>

\* The tag is fetched, not the commit.
Clone ==
  /\ pc = "clone"
  /\ tree' = [tree EXCEPT !["coreboot"] = Cut("coreboot", now["coreboot"].ref)]
  /\ stamps' = stamps \cup {"clone"}
  /\ Goto("crossgcc")
  /\ UNCHANGED <<upstream, config, work, lock, whole, tarball, sha, sums,
                 frozen, ready, missed, faults>>

Crossgcc ==
  /\ pc = "crossgcc"
  /\ whole' = whole \cup {"coreboot"}
  /\ stamps' = stamps \cup {"coreboot"}
  /\ Goto("edk2")
  /\ UNCHANGED <<upstream, config, work, lock, tree, tarball, sha, sums, frozen,
                 ready, missed, faults>>

-----------------------------------------------------------------------------
(* edk2: a tree from an earlier run is kept and fetched into                  *)

Edk2 ==
  /\ pc = "edk2"
  /\ IF Have("edk2") THEN Goto("head") /\ UNCHANGED <<tree, whole, stamps>>
     ELSE /\ Goto("checkout")
          /\ IF tree["edk2"] # Nothing /\ ~refresh
             THEN UNCHANGED <<tree, whole, stamps>>
             ELSE /\ tree' = [tree EXCEPT !["edk2"] = Nothing]
                  /\ whole' = whole \ {"edk2"}
                  /\ stamps' = stamps \ {"edk2"}
  /\ UNCHANGED <<upstream, config, work, lock, tarball, sha, sums, frozen,
                 ready, missed, faults>>

\* Mutant: stamped when the commit is checked out, before the submodules.
CheckoutStamps ==
  /\ pc = "checkout"
  /\ tree' = [tree EXCEPT !["edk2"] = now["edk2"]]
  /\ whole' = whole \ {"edk2"}
  /\ stamps' = stamps \cup {"edk2"}
  /\ Goto("submodules")
  /\ UNCHANGED <<upstream, config, work, lock, tarball, sha, sums, frozen,
                 ready, missed, faults>>

\* The commit of the lock; one that a tag no longer points at may be gone.
Checkout ==
  /\ pc = "checkout"
  /\ \/ /\ tree' = [tree EXCEPT !["edk2"] = now["edk2"]]
        /\ whole' = whole \ {"edk2"}
        /\ Goto("submodules")
     \/ /\ now["edk2"] # Cut("edk2", now["edk2"].ref)
        /\ Exit
        /\ UNCHANGED <<tree, whole>>
  /\ UNCHANGED <<upstream, config, work, lock, stamps, tarball, sha, sums,
                 frozen, ready, missed, faults>>

Submodules ==
  /\ pc = "submodules"
  /\ whole' = whole \cup {"edk2"}
  /\ stamps' = stamps \cup {"edk2"}
  /\ Goto("head")
  /\ UNCHANGED <<upstream, config, work, lock, tree, tarball, sha, sums, frozen,
                 ready, missed, faults>>

\* Mutant: the lock keeps what was resolved.
HeadTrusted ==
  /\ pc = "head"
  /\ Goto("libreboot")
  /\ UNCHANGED <<upstream, config, work, lock, disk, frozen, ready,
                 missed, faults>>

\* The lock records what the tree contains.  An entry stands for its commit:
\* the name of the tag beside it, which the script leaves, is not kept apart.
Head ==
  /\ pc = "head"
  /\ lock' = [lock EXCEPT !["edk2"] = tree["edk2"]]
  /\ Goto("libreboot")
  /\ UNCHANGED <<upstream, config, work, disk, frozen, ready, missed, faults>>

-----------------------------------------------------------------------------
(* libreboot: one file, then its checksum and signature                       *)

Libreboot ==
  /\ pc = "libreboot"
  /\ LET r == now["libreboot"].ref
     IN  IF tarball[r] # "none" /\ ~refresh
         THEN Goto("verify") /\ UNCHANGED tarball
         ELSE /\ Goto("download")
              /\ tarball' = [tarball EXCEPT ![r] = "part"]
  /\ UNCHANGED <<upstream, config, work, lock, tree, whole, stamps, sha, sums,
                 frozen, ready, missed, faults>>

Download ==
  /\ pc = "download"
  /\ tarball' = [tarball EXCEPT ![now["libreboot"].ref] = "whole"]
  /\ sha' = sha \cup {now["libreboot"].ref}
  /\ Goto("verify")
  /\ UNCHANGED <<upstream, config, work, lock, tree, whole, stamps, sums,
                 frozen, ready, missed, faults>>

\* The pinned SHA512, else the mirror's, else a warning.
Verify ==
  /\ pc = "verify"
  /\ LET r == now["libreboot"].ref
     IN  IF tarball[r] = "whole" \/ r \notin Pinned \cup sha
         THEN Goto("lbmk")
         ELSE Exit
  /\ UNCHANGED <<upstream, config, work, lock, disk, frozen, ready,
                 missed, faults>>

-----------------------------------------------------------------------------
(* lbmk: cloned, its cache filled by one inject of the tarball                *)

Lbmk ==
  /\ pc = "lbmk"
  /\ IF Have("lbmk") THEN Goto("sums") /\ UNCHANGED <<tree, whole, stamps>>
     ELSE /\ Goto("populate")
          /\ tree' = [tree EXCEPT !["lbmk"] = Nothing]
          /\ whole' = whole \ {"lbmk"}
          /\ stamps' = stamps \ {"lbmk"}
  /\ UNCHANGED <<upstream, config, work, lock, tarball, sha, sums, frozen,
                 ready, missed, faults>>

Populate ==
  /\ pc = "populate"
  /\ tree' = [tree EXCEPT !["lbmk"] = Cut("lbmk", now["lbmk"].ref)]
  /\ IF tarball[now["libreboot"].ref] = "whole"
     THEN /\ whole' = whole \cup {"lbmk"}
          /\ stamps' = stamps \cup {"lbmk"}
          /\ Goto("sums")
     ELSE Exit /\ UNCHANGED <<whole, stamps>>
  /\ UNCHANGED <<upstream, config, work, lock, tarball, sha, sums, frozen,
                 ready, missed, faults>>

-----------------------------------------------------------------------------
(* The end of the run                                                         *)

Checksums ==
  /\ pc = "sums"
  /\ sums' = [ref  |-> now["libreboot"].ref,
              file |-> tarball[now["libreboot"].ref]]
  /\ Goto(IF latest THEN "takeover" ELSE "freeze")
  /\ UNCHANGED <<upstream, config, work, lock, tree, whole, stamps, tarball,
                 sha, frozen, ready, missed, faults>>

\* --latest, on the host, after the container has ended well.
TakeOver ==
  /\ pc = "takeover"
  /\ config' = lock
  /\ Goto("freeze")
  /\ UNCHANGED <<upstream, work, lock, disk, frozen, ready, missed, faults>>

Freeze ==
  /\ pc = "freeze"
  /\ frozen' = work
  /\ ready' = IF refresh THEN "refreshed" ELSE "yes"
  /\ missed' = (missed /\ ~refresh)
  /\ Exit
  /\ UNCHANGED <<upstream, config, work, lock, disk, faults>>

\* The run stops at this step, its other effects done.
Abort ==
  /\ pc \in FetchSteps
  /\ faults < MaxFaults
  /\ faults' = faults + 1
  /\ missed' = (missed \/ pc \in {"fill", "invalidate"})
  /\ Exit
  /\ UNCHANGED <<upstream, config, work, lock, disk, frozen, ready>>

Fetch ==
  \/ \E l, r \in BOOLEAN : Start(l, r)
  \/ FillLock
  \/ Invalidate
  \/ Coreboot
  \/ Clone
  \/ Crossgcc
  \/ Edk2
  \/ Checkout
  \/ Submodules
  \/ Head
  \/ Libreboot
  \/ Download
  \/ Verify
  \/ Lbmk
  \/ Populate
  \/ Checksums
  \/ TakeOver
  \/ Freeze
  \/ Abort

User ==
  \/ \E c \in Comps : Release(c) \/ Recut(c)
  \/ \E c \in Comps, r \in Refs : EditLock(c, r)
  \/ \E w \in Works : EditWork(w)

-----------------------------------------------------------------------------
(* Properties                                                                *)

\* A stamp stands for a complete tree, whichever run was stopped where: what
\* the next run skips needs no second look.
StampMeansWhole ==
  /\ stamps \cap Trees \subseteq whole
  /\ \A c \in whole : tree[c] # Nothing

\* After a run that ended, sources/versions.lock names the edk2 commit that is
\* checked out (fetch-sources.sh: "State what the tree contains, not what
\* ls-remote said").
Edk2Recorded == ready # "no" => lock["edk2"] = tree["edk2"]

\* --refresh repairs whatever stopped runs have left: after one that ended,
\* every tree is complete and of the release the lock names, and so is the
\* tarball (build-firmware.py: "sources corrupt. ./fetch.sh --refresh").
RefreshRepairs ==
  ready = "refreshed" =>
     /\ \A c \in Trees : c \in whole /\ tree[c].ref = lock[c].ref
     /\ tarball[lock["libreboot"].ref] = "whole"

\* The fetch changes config/versions.lock only when it has fetched all of the
\* set it writes there: every tree is complete and of the release written, edk2
\* of the very commit, and the checksums are of the tarball (fetch.sh: "a fetch
\* that dies halfway cannot leave config/versions.lock half-updated", "take them
\* over now that the fetch actually succeeded").  What makes an exception is a
\* run that stopped after truncating sources/versions.lock and before dropping
\* the stamps of what had moved: it has hidden the move from later runs, until
\* one of them is a --refresh.
TakesOverFetched ==
  [][(config' # config /\ pc # "idle") =>
        /\ whole = Trees
        /\ config'["edk2"] = tree["edk2"]
        /\ sums.ref = config'["libreboot"].ref
        /\ (~missed \/ refresh) =>
             \A c \in Trees : tree[c].ref = config'[c].ref]_config
=============================================================================
