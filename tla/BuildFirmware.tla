---------------------------- MODULE BuildFirmware ----------------------------
(***************************************************************************)
(* PHASE 2 on the build host: scripts/build-firmware.py checks sources/,    *)
(* copies the working tree into it, builds the image coreboot-t480 with     *)
(* build/Dockerfile.offline or finds that it is still the right one, and    *)
(* makes a ROM in it.  Fetches and builds follow each other in any order.   *)
(***************************************************************************)
EXTENDS FetchSources

CONSTANT Vetted   \* revisions with a keyset and a recorded rollback version

ASSUME BuildAssumption == Vetted \subseteq Works

VARIABLES
  force,   \* --rebuild-base
  asked,   \* history: the working tree when this build started, else 0
  image    \* the image: its label, if it has one, and what went into it

vars == <<fetchVars, force, asked, image>>

NoLabel == <<NoSet, 0>>
NoImage == [label |-> NoLabel, from |-> NoSet, config |-> 0]

TypeOK ==
  /\ FetchTypeOK
  /\ pc \in {"idle", "base", "variant", "unverified"} \cup FetchSteps
  /\ force \in BOOLEAN
  /\ asked \in Works \cup {0}
  /\ image = NoImage \/ image \in [label  : Set \X Works \cup {NoLabel},
                                   from   : [Comps -> Version],
                                   config : Works]

Init ==
  /\ FetchInit
  /\ force = FALSE
  /\ asked = 0
  /\ image = NoImage

-----------------------------------------------------------------------------

\* The lock and the directories are looked for, not what is in them: a tree
\* that a stopped run has wiped may be there again, empty.
RequireSources == frozen # 0

\* The files sha256sums.txt lists: the tarball and the crossgcc tarballs, which
\* two releases of coreboot may share.
VerifyChecksums ==
  /\ sums # NoSums
  /\ tarball[sums.ref] = sums.file
  /\ "coreboot" \in whole

\* Mutant: the label of the versions alone.
ConfigHashVersions == <<lock, 1>>

\* versions.lock and what sync_build_config() has copied.
ConfigHash == <<lock, frozen>>

StartBuild(f) ==
  /\ pc = "idle"
  /\ RequireSources
  /\ VerifyChecksums
  /\ work \in Vetted
  /\ frozen' = work
  /\ force' = f
  /\ asked' = work
  /\ pc' = "base"
  /\ UNCHANGED <<upstream, config, work, lock, disk, flags, ready, missed, faults,
                 image>>

\* ls | head -1
FirstTarball ==
  CHOOSE r \in Refs : /\ tarball[r] # "none"
                      /\ \A q \in Refs : tarball[q] # "none" => r <= q

\* Mutant: an edk2 tree that is not there is no error.
CompilesWithoutEdk2 ==
  /\ {"coreboot", "lbmk"} \subseteq whole
  /\ tarball[FirstTarball] = "whole"

\* podman build: the libreboot stage injects offline, the other one compiles.
\* The submodules of an edk2 tree may be those of its last commit.
Compiles ==
  /\ {"coreboot", "lbmk"} \subseteq whole
  /\ tree["edk2"] # Nothing
  /\ tarball[FirstTarball] = "whole"

BuiltImage ==
  [label  |-> ConfigHash,
   from   |-> [c \in Comps |-> IF c = "libreboot"
                               THEN [ref |-> FirstTarball, rev |-> 0]
                               ELSE tree[c]],
   config |-> frozen]

\* build-firmware.py ends, well or not.
Ends == pc' = "idle" /\ force' = FALSE /\ asked' = 0

\* On to the variants with an image that matches, or with a warning only.
Variants   == pc' = "variant" /\ UNCHANGED <<force, asked>>
Unverified == pc' = "unverified" /\ UNCHANGED <<force, asked>>

\* An image of another label is refused, and --rebuild-base asked for.  One
\* without a label is used, and so is any if podman image inspect fails: it
\* prints nothing then.
BuildBase ==
  /\ pc = "base"
  /\ IF image # NoImage /\ ~force
     THEN /\ \E label \in {image.label, NoLabel} :
               \/ label = ConfigHash /\ Variants
               \/ label = NoLabel /\ Unverified
               \/ label \notin {ConfigHash, NoLabel} /\ Ends
          /\ UNCHANGED image
     ELSE IF Compiles THEN Variants /\ image' = BuiltImage
     ELSE Ends /\ UNCHANGED image
  /\ UNCHANGED <<upstream, config, work, lock, disk, flags, frozen, ready,
                 missed, faults>>

\* podman build by hand, or by a build-firmware.py that had no label yet.
BuildByHand ==
  /\ pc = "idle"
  /\ frozen # 0
  /\ Compiles
  /\ image' = [BuiltImage EXCEPT !.label = NoLabel]
  /\ UNCHANGED <<fetchVars, force, asked>>

\* container_build() or extract_plain() makes the ROM in the image, and leaves
\* the image as it is; or the build is stopped.
Variant ==
  /\ pc \in {"base", "variant", "unverified"}
  /\ Ends
  /\ UNCHANGED <<upstream, config, work, lock, disk, flags, frozen, ready,
                 missed, faults, image>>

Build ==
  \/ \E f \in BOOLEAN : StartBuild(f)
  \/ BuildBase
  \/ Variant
  \/ BuildByHand

Next ==
  \/ Build
  \/ (Fetch \/ User) /\ UNCHANGED <<force, asked, image>>

Spec == Init /\ [][Next]_vars

-----------------------------------------------------------------------------
(* Properties                                                                *)

\* A ROM carries the defconfig, patches and keys that the working tree had when
\* its build started, whatever image was there and whatever was edited in
\* between, unless build_base has warned that it cannot tell.  With
\* --rebuild-base it never has to ("Your changes are NOT in that image", "cannot
\* verify it matches the current config/patches. --rebuild-base to be certain").
RomFollowsConfig ==
  (pc = "variant" \/ (pc = "unverified" /\ force)) => image.config = asked

\* After a fetch that ended, a ROM is built from the set that
\* sources/versions.lock names (its header: "the set this sources/ tree was
\* fetched with"), again unless build_base has warned.
RomFollowsLock == (pc = "variant" /\ ready # "no") => image.from = lock
=============================================================================
