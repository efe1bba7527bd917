-------------------------------- MODULE Release --------------------------------
(***************************************************************************)
(* Cutting a release (scripts/release.py, scripts/build_image.py).         *)
(*                                                                         *)
(* One version is released, in as many runs as it takes: each validates    *)
(* the tree, builds, gives the newest build its published name, writes     *)
(* SHA256SUMS and creates or updates the release on GitHub.  A run that    *)
(* fails leaves what it has done so far to the next one, which may have    *)
(* other options.  The owner commits meanwhile and may publish or discard  *)
(* a draft in the browser.                                                 *)
(***************************************************************************)
EXTENDS Naturals, Sequences

CONSTANTS
  Options,    \* what a run may be asked for, [force, publish, skip, zip, createTag]
  Breaks,     \* subset of {"compile", "collect", "stage", "push", "create", "edit", "upload",
              \* "silent"}; the last: gh reports an upload that did not happen
  MaxRuns, MaxCommits, MaxBreaks  \* bounds

ASSUME OptionsAssumption ==
  Options \subseteq
    [force : BOOLEAN, publish : BOOLEAN, skip : BOOLEAN, zip : BOOLEAN, createTag : BOOLEAN]

VARIABLES
  head, bumped,  \* the commit of the tree, and whether it describes this version
  tag,           \* commit of the local annotated tag, or 0
  output,        \* number of the build in the images directory of Buildroot
  artifacts,     \* time-stamped files, oldest first: [kind, file]
  prepared,      \* the files with published names, or NoFile
  origin,        \* commit of the tag on the remote, or 0
  release,       \* on GitHub: [state, assets]
  byHand,        \* the tag on the remote was made by publishing in the browser
  step, opts, todo, result,  \* of the run: step, options, files left, outcome
  runs, commits, breaks

local == <<output, artifacts, prepared>>
remote == <<origin, release, byHand>>
run == <<step, opts, todo, result>>
relVars == <<head, bumped, tag, local, remote, run, runs, commits, breaks>>

Names == {"image", "swu", "sums"}
Assets == <<"image", "swu", "sums">>
NoFile == [build |-> 0]
Whole(b) == [build |-> b, whole |-> TRUE]
Part(b) == [build |-> b, whole |-> FALSE]

NoOptions == [force |-> FALSE, publish |-> FALSE, skip |-> FALSE, zip |-> TRUE, createTag |-> FALSE]
Absent == [state |-> "none", assets |-> [n \in Names |-> NoFile]]

RelInit ==
  /\ head = 1 /\ bumped = TRUE /\ tag = 0 /\ output = 0 /\ artifacts = <<>>
  /\ prepared = [n \in Names |-> NoFile]
  /\ origin = 0 /\ release = Absent /\ byHand = FALSE
  /\ step = "idle" /\ opts = NoOptions /\ todo = <<>> /\ result = "none"
  /\ runs = 0 /\ commits = 0 /\ breaks = 0

Breaking(b) == b \in Breaks /\ breaks < MaxBreaks /\ breaks' = breaks + 1
Smooth == UNCHANGED breaks

\* ReleaseError, or the process is killed.
RunEnds(outcome) == step' = "idle" /\ todo' = <<>> /\ result' = outcome /\ UNCHANGED opts
Goes(s, files) == step' = s /\ todo' = files /\ UNCHANGED <<opts, result>>

-----------------------------------------------------------------------------
(* The tree.                                                               *)

Commit ==
  /\ commits < MaxCommits /\ commits' = commits + 1
  /\ head' = head + 1 /\ bumped' \in BOOLEAN
  /\ UNCHANGED <<tag, local, remote, run, runs, breaks>>

\* assert_versions_match, ensure_tag
Validated(o) == bumped /\ (tag # 0 \/ o.createTag)

Start(o) ==
  /\ step = "idle" /\ runs < MaxRuns /\ runs' = runs + 1
  /\ opts' = o /\ todo' = <<>>
  /\ IF Validated(o)
     THEN /\ tag' = IF tag = 0 THEN head ELSE tag
          /\ step' = (IF o.skip THEN "reuse" ELSE "compile") /\ result' = "none"
     ELSE /\ result' = "failed" /\ UNCHANGED <<tag, step>>
  /\ UNCHANGED <<head, bumped, local, remote, commits, breaks>>

-----------------------------------------------------------------------------
(* build_image.py                                                          *)

\* local_build, remote_build: Buildroot leaves an image and a package.
Compile ==
  /\ step = "compile"
  /\ \/ Smooth /\ output' = output + 1 /\ Goes("collect", <<>>)
     \/ Breaking("compile") /\ RunEnds("failed") /\ UNCHANGED output
  /\ UNCHANGED <<head, bumped, tag, artifacts, prepared, remote, runs, commits>>

File(kind, file) == [kind |-> kind, file |-> file]

\* Without a ZIP the image gets a name that newest_match does not look for.
Collected ==
  <<File("swu", Whole(output)), File(IF opts.zip THEN "image" ELSE "raw", Whole(output))>>

\* What an error or a kill leaves of the two: copy_local and
\* verify_zip_member_sha256 remove a wrong copy, but not half of one.
Scraps ==
  {<<>>, <<File("swu", Part(output))>>, <<Collected[1]>>,
   <<Collected[1], [Collected[2] EXCEPT !.file = Part(output)]>>}

Collect ==
  /\ step = "collect"
  /\ \/ Smooth /\ artifacts' = artifacts \o Collected /\ Goes("stage", <<"image", "swu">>)
     \/ /\ Breaking("collect") /\ RunEnds("failed")
        /\ \E left \in Scraps : artifacts' = artifacts \o left
  /\ UNCHANGED <<head, bumped, tag, output, prepared, remote, runs, commits>>

-----------------------------------------------------------------------------
(* Published names and SHA256SUMS.                                         *)

Matching(kind) == {i \in DOMAIN artifacts : artifacts[i].kind = kind}

\* Mutant of Newest: the first match of an unsorted listing.
Oldest(kind) ==
  artifacts[CHOOSE i \in Matching(kind) : \A j \in Matching(kind) : i <= j].file

\* newest_match
Newest(kind) ==
  artifacts[CHOOSE i \in Matching(kind) : \A j \in Matching(kind) : j <= i].file

\* Both sources are looked up before the first of them is copied.
Found == \A kind \in {"image", "swu"} : Matching(kind) # {}

\* stage_asset
StageAsset ==
  LET n == Head(todo)
      source == Newest(n)
      next == Goes(IF Len(todo) = 1 THEN "sums" ELSE "stage", Tail(todo)) IN
  /\ step = "stage"
  /\ \/ ~Found /\ Smooth /\ RunEnds("failed") /\ UNCHANGED prepared
     \/ Found /\ prepared[n] # NoFile /\ ~opts.force /\ Smooth /\ UNCHANGED prepared
        /\ IF prepared[n] = source THEN next ELSE RunEnds("failed")
     \/ Found /\ (prepared[n] = NoFile \/ opts.force)
        /\ \/ Smooth /\ prepared' = [prepared EXCEPT ![n] = source] /\ next
           \/ /\ Breaking("stage") /\ RunEnds("failed")
              /\ prepared' = [prepared EXCEPT ![n] = Part(source.build)]
  /\ UNCHANGED <<head, bumped, tag, output, artifacts, remote, runs, commits>>

\* --skip-build
Reuse ==
  /\ step = "reuse"
  /\ IF prepared["image"] # NoFile /\ prepared["swu"] # NoFile THEN Goes("sums", <<>>) ELSE RunEnds("failed")
  /\ UNCHANGED <<head, bumped, tag, local, remote, runs, commits, breaks>>

WriteChecksums ==
  /\ step = "sums" /\ Goes("publish", <<>>)
  /\ prepared' = [prepared EXCEPT !["sums"] = [build |-> prepared["image"].build,
                                           image |-> prepared["image"], swu |-> prepared["swu"]]]
  /\ UNCHANGED <<head, bumped, tag, output, artifacts, remote, runs, commits, breaks>>

-----------------------------------------------------------------------------
(* publish_release                                                         *)

Refused == release.state # "none" /\ ~opts.force

NeedsTag == opts.publish /\ origin = 0

Publish ==
  /\ step = "publish"
  /\ IF Refused THEN RunEnds("failed")
     ELSE Goes(IF NeedsTag THEN "push" ELSE IF release.state = "none" THEN "create" ELSE "edit", <<>>)
  /\ UNCHANGED <<head, bumped, tag, local, remote, runs, commits, breaks>>

Push ==
  /\ step = "push"
  /\ \/ Smooth /\ origin' = tag /\ Goes(IF release.state # "none" THEN "edit" ELSE "create", <<>>)
     \/ Breaking("push") /\ RunEnds("failed") /\ UNCHANGED origin
  /\ UNCHANGED <<head, bumped, tag, local, release, byHand, runs, commits>>

Mode == IF opts.publish THEN "public" ELSE "draft"

\* gh attaches the files to a draft and publishes that; a killed gh leaves it.
Create ==
  /\ step = "create"
  /\ \/ /\ Smooth /\ Goes("verify", <<>>)
        /\ release' = [state |-> Mode, assets |-> prepared]
     \/ /\ Breaking("create") /\ RunEnds("failed")
        /\ release' \in {release} \cup
             {[state |-> "draft", assets |-> [n \in Names |-> IF n \in sent THEN prepared[n] ELSE NoFile]] :
                sent \in SUBSET Names}
  /\ UNCHANGED <<head, bumped, tag, local, origin, byHand, runs, commits>>

\* upload_assets skips what already has the digest of the local file.
ToUpload == SelectSeq(Assets, LAMBDA n : release.assets[n] # prepared[n])

Edit ==
  /\ step = "edit"
  /\ \/ Smooth /\ release' = [release EXCEPT !.state = Mode] /\ Goes("upload", ToUpload)
     \/ Breaking("edit") /\ RunEnds("failed") /\ UNCHANGED release
  /\ UNCHANGED <<head, bumped, tag, local, origin, byHand, runs, commits>>

\* --clobber deletes the old asset before the new one is sent.
UploadAsset ==
  /\ step = "upload" /\ todo # <<>>
  /\ \/ /\ Smooth /\ Goes("upload", Tail(todo))
        /\ release' = [release EXCEPT !.assets[Head(todo)] = prepared[Head(todo)]]
     \/ Breaking("silent") /\ Goes("upload", Tail(todo)) /\ UNCHANGED release
     \/ /\ Breaking("upload") /\ RunEnds("failed")
        /\ release' \in {release, [release EXCEPT !.assets[Head(todo)] = NoFile]}
  /\ UNCHANGED <<head, bumped, tag, local, origin, byHand, runs, commits>>

Uploaded ==
  /\ step = "upload" /\ todo = <<>> /\ Goes("verify", <<>>)
  /\ UNCHANGED <<head, bumped, tag, local, remote, runs, commits, breaks>>

\* verify_release
Matches == release.state = Mode /\ \A n \in Names : release.assets[n] = prepared[n]

Verify ==
  /\ step = "verify" /\ RunEnds(IF Matches THEN "released" ELSE "failed")
  /\ UNCHANGED <<head, bumped, tag, local, remote, runs, commits, breaks>>

-----------------------------------------------------------------------------
(* The owner on github.com, who discards a draft between two runs only.     *)

\* The tag is made at the tip of the branch if the remote has none.
PublishDraft ==
  /\ release.state = "draft" /\ release' = [release EXCEPT !.state = "public"]
  /\ IF origin # 0 THEN UNCHANGED <<origin, byHand>> ELSE origin' \in 1..head /\ byHand' = TRUE
  /\ UNCHANGED <<head, bumped, tag, local, run, runs, commits, breaks>>

DiscardDraft ==
  /\ release.state = "draft" /\ result = "failed" /\ release' = Absent
  /\ UNCHANGED <<head, bumped, tag, local, origin, byHand, run, runs, commits, breaks>>

RelNext ==
  \/ Commit \/ \E o \in Options : Start(o)
  \/ Compile \/ Collect \/ StageAsset \/ Reuse \/ WriteChecksums
  \/ Publish \/ Push \/ Create \/ Edit \/ UploadAsset \/ Uploaded \/ Verify
  \/ PublishDraft \/ DiscardDraft

RelSpec == RelInit /\ [][RelNext]_relVars

-----------------------------------------------------------------------------
(* A run that says "released" has left on GitHub what it was asked for:    *)
(* the checksums are those of the two other assets, and when it built with *)
(* a ZIP, both are whole and of its own build (doc/releasing.md, "Confirm  *)
(* one fresh image + matching .swu").                                      *)
Truthful ==
  result = "released" =>
    LET assets == release.assets IN
    /\ release.state \in {"public", Mode}
    /\ assets["sums"].image = assets["image"] /\ assets["sums"].swu = assets["swu"]
    /\ ~opts.skip /\ opts.zip => assets["image"] = Whole(output) /\ assets["swu"] = Whole(output)

(* What is public has its tag, and that is the one the scripts validated,  *)
(* unless the draft was published by hand (doc/releasing.md, "the script   *)
(* pushes it first").                                                      *)
PublicTagged ==
  release.state = "public" => origin # 0 /\ (byHand \/ origin = tag)

(* Without --force nothing that is public or has a published name is       *)
(* replaced or removed, however earlier runs ended (doc/releasing.md, "an  *)
(* accidental re-run cannot silently replace published artifacts").        *)
NoSilentReplace ==
  \/ opts.force
  \/ /\ \A n \in {"image", "swu"} : prepared[n] # NoFile => prepared'[n] = prepared[n]
     /\ release.state = "public" => release' = release

(* The three together: runs with different options may break off and be    *)
(* repeated at every step.                                                 *)
ReleaseKept == [](Truthful /\ PublicTagged) /\ [][NoSilentReplace]_relVars

=============================================================================
