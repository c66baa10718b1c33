---------------------------- MODULE OfflineBundle ----------------------------
(***************************************************************************)
(* build_bundle.py: builders that share an output directory.  A build      *)
(* verifies its inputs against the locks, removes the bundle it replaces,  *)
(* fills a staging directory of its own, records checksums of it, gives it *)
(* the bundle's name and may zip, file by file, what has that name.  A     *)
(* build may fail or be killed at any step.                                *)
(***************************************************************************)
EXTENDS Naturals, Sequences

CONSTANTS
    Builder,
    Kind,       \* what may be asked for: a mode, cleared assets, reference recordings
    MaxBuild    \* bound: builds begun, an earlier one included

ASSUME KindAssumption ==
    Kind \subseteq [mode : {"local-validation", "distributable"}, cleared : BOOLEAN, voices : BOOLEAN]

\* The files of a bundle that are told apart: Python, llama.cpp and the models; the
\* reference recordings; the three configuration files that the user changes;
\* PACKAGE-STATUS; BUILD-METADATA.json; SHA256SUMS.
Name == {"assets", "voices", "settings", "status", "metadata", "sums"}

\* What is staged before the checksums, step by step; the names as Windows sorts them.
Part == <<{"assets", "settings", "voices"}, {"status"}>>
Sorted == <<"metadata", "settings", "assets", "voices", "status", "sums">>

\* A directory, or what can be extracted from a zip: the build each file is from.
NoFile == 0
NoFiles == [n \in Name |-> NoFile]
Present(d) == {n \in Name : d[n] # NoFile}
BuildsOf(d) == {d[n] : n \in Present(d)}

VARIABLES
    builder,    \* what every builder is doing
    bundle,     \* the directory with the bundle's name
    archive,    \* what was written of it to the zip since that was last opened
    built       \* the builds begun, and what the checksums of each name

bundleVars == <<builder, bundle, archive, built>>

NoBuild == [at |-> "idle", id |-> 0, files |-> NoFiles, done |-> 0, of |-> {}]

\* The gate on redistribution.
MayBuild(kind) == kind.mode = "distributable" => kind.cleared /\ ~kind.voices

Files(kind) == IF kind.voices THEN Name ELSE Name \ {"voices"}
FilesOf(k) == Files(built[k].kind)
Whole(k) == [n \in Name |-> IF n \in FilesOf(k) THEN k ELSE NoFile]
Unsummed == {"settings", "sums"}    \* the files that have no checksum

\* An earlier build has left its bundle, or nothing.
BundleInit ==
    /\ builder = [b \in Builder |-> NoBuild] /\ archive = {}
    /\ \E kind \in Kind :
        MayBuild(kind) /\ built = <<[kind |-> kind, named |-> Files(kind) \ Unsummed]>>
    /\ bundle \in {NoFiles, Whole(1)}

Job(b) == builder[b]
Becomes(b, job) == builder' = [builder EXCEPT ![b] = job]
Advances(b, from, to) == Job(b).at = from /\ Becomes(b, [Job(b) EXCEPT !.at = to])

Begins(b) ==
    /\ Job(b).at = "idle" /\ Len(built) < MaxBuild
    /\ \E kind \in Kind :
        MayBuild(kind) /\ built' = Append(built, [kind |-> kind, named |-> {}])
    /\ Becomes(b, [NoBuild EXCEPT !.at = "verifying", !.id = Len(built) + 1])
    /\ UNCHANGED <<bundle, archive>>

\* The commit is a clean one and the inputs are the locked ones; they are copied
\* later, from where they were verified.
Verifies(b) == Advances(b, "verifying", "verified") /\ UNCHANGED <<bundle, archive, built>>

\* With --replace (the build ends without), the bundle that is in the way is removed,
\* file by file in any order, before anything is staged.  A file that another builder
\* has removed meanwhile ends the removal.
MakesRoom(b) ==
    /\ \/ bundle = NoFiles /\ Advances(b, "verified", "staging") /\ UNCHANGED bundle
       \/ bundle # NoFiles /\ Advances(b, "verified", "removing") /\ UNCHANGED bundle
       \/ /\ Job(b).at = "removing" /\ UNCHANGED builder
          /\ \E n \in Present(bundle) : bundle' = [bundle EXCEPT ![n] = NoFile]
       \/ /\ bundle = NoFiles \/ \E c \in Builder \ {b} : Job(c).at = "removing"
          /\ Advances(b, "removing", "staging") /\ UNCHANGED bundle
    /\ UNCHANGED <<archive, built>>

\* Nobody else looks into a stage.
StagesPart(b) ==
    /\ Job(b).at = "staging" /\ Job(b).done < Len(Part)
    /\ Becomes(b, [Job(b) EXCEPT !.done = @ + 1,
          !.files = [n \in Name |-> IF n \in Part[Job(b).done + 1] \cap FilesOf(Job(b).id)
                                    THEN Job(b).id ELSE @[n]]])
    /\ UNCHANGED <<bundle, archive, built>>

\* write_manifests, between two scans of the whole stage: all that is in the stage
\* has a checksum, but for the user's settings.
Sums(b) ==
    /\ Becomes(b, [Job(b) EXCEPT !.at = "summed", !.files["metadata"] = Job(b).id, !.files["sums"] = Job(b).id])
    /\ built' = [built EXCEPT ![Job(b).id].named = (Present(Job(b).files) \cup {"metadata"}) \ Unsummed]
    /\ UNCHANGED <<bundle, archive>>

\* Mutant of WritesSums: the checksums are taken of what is staged by now.
WritesSumsEarly(b) == Job(b).at = "staging" /\ Sums(b)

WritesSums(b) == Job(b).at = "staging" /\ Job(b).done = Len(Part) /\ Sums(b)

\* A directory that has got the name in the meantime makes the renaming fail.
Publishes(b) ==
    /\ Job(b).at = "summed" /\ bundle = NoFiles /\ bundle' = Job(b).files
    /\ Becomes(b, NoBuild) \/ Becomes(b, [NoBuild EXCEPT !.at = "opening"])   \* --archive
    /\ UNCHANGED <<archive, built>>

\* create_archive, which reads what has the bundle's name by now.  Opening a zip
\* destroys what was in it.
OpensArchive(b) ==
    /\ Job(b).at = "opening" /\ Becomes(b, [NoBuild EXCEPT !.at = "zipping", !.of = BuildsOf(bundle)])
    /\ archive' = {} /\ UNCHANGED <<bundle, built>>

\* A file is passed over when it is gone, or when the names were listed before it was
\* there: of the bundle that had the name then, no file comes later.
ZipsFile(b) ==
    /\ Job(b).at = "zipping" /\ Job(b).done < Len(Sorted)
    /\ LET n == Sorted[Job(b).done + 1] IN
       \/ bundle[n] # NoFile /\ Becomes(b, [Job(b) EXCEPT !.done = @ + 1, !.files[n] = bundle[n]])
       \/ /\ bundle[n] = NoFile \/ bundle[n] \notin Job(b).of
          /\ Becomes(b, [Job(b) EXCEPT !.done = @ + 1])
    /\ UNCHANGED <<bundle, archive, built>>

\* What is written can be extracted once the zip is closed, as it is on an error too.
\* Of what two builders wrote to it at the same time only parts can be.
ClosesArchive(b) ==
    /\ Job(b).at = "zipping" /\ Becomes(b, NoBuild)
    /\ archive' = archive \cup {Job(b).files}
    /\ UNCHANGED <<bundle, built>>

\* An error removes the stage; a kill leaves it, under its own name, and a zip that
\* nothing can be extracted from.
StopsBuild(b) ==
    /\ Job(b).at # "idle" /\ Becomes(b, NoBuild)
    /\ UNCHANGED <<bundle, archive, built>>

BundleNext ==
    \E b \in Builder :
        \/ Begins(b) \/ Verifies(b) \/ MakesRoom(b) \/ StagesPart(b) \/ WritesSums(b) \/ Publishes(b)
        \/ OpensArchive(b) \/ ZipsFile(b) \/ ClosesArchive(b) \/ StopsBuild(b)

BundleSpec == BundleInit /\ [][BundleNext]_bundleVars

------------------------------------------------------------------------------
(* Properties.                                                              *)

\* The checksums that Self-Check.ps1 verifies (not the licences and the voices that
\* it asks for as well): all the files that SHA256SUMS names are there.  Two builds'
\* files can have the same content, but for those with the time of the build.
Stamped == {"metadata", "status"}
PassesSums(d) ==
    LET k == d["sums"] IN
    k # NoFile /\ \A n \in built[k].named : d[n] # NoFile /\ (n \in Stamped => d[n] = k)

WholeBut(d, k, missing) == \A n \in FilesOf(k) \ missing : d[n] = k
OfOneBuild(d, k) == \A n \in Present(d) : d[n] = k

SaysRedistributable(d) == d["status"] # NoFile /\ built[d["status"]].kind.mode = "distributable"
MayBePassedOn(d) == d["voices"] = NoFile /\ (d["assets"] # NoFile => built[d["assets"]].kind.cleared)

\* What has the bundle's name passes the check of its checksums if it is a whole
\* bundle, and says truly whether it may be passed on: without reference recordings
\* and with assets whose redistribution was cleared.  And a bundle that passes the
\* check, or anything extracted from its archive that does, is one build's, whole but
\* for the user's settings, and says so truly: a half-removed bundle and a zip of two
\* builds are found out.  (What a zip of two builds says is not true as such: it can
\* hold the recordings of one and the status of another.)
Parts(d) == {[n \in Name |-> IF n \in kept THEN d[n] ELSE NoFile] : kept \in SUBSET Name}
BundleIsWhatItSays ==
    /\ \A k \in DOMAIN built : WholeBut(bundle, k, {}) => PassesSums(bundle)
    /\ SaysRedistributable(bundle) => MayBePassedOn(bundle)
    /\ \A d \in {bundle} \cup UNION {Parts(z) : z \in archive} : PassesSums(d) =>
        /\ WholeBut(d, d["sums"], {"settings"}) /\ OfOneBuild(d, d["sums"])
        /\ SaysRedistributable(d) => MayBePassedOn(d)
==============================================================================
