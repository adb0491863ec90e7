--------------------------- MODULE CourseContent ---------------------------
(***************************************************************************)
(* What one course teaches from: its syllabus and index on disk with the    *)
(* course row that describes them, an example under review, and the files   *)
(* a training run is given: export, train, validation, manifest.            *)
(*                                                                         *)
(* A syllabus is its number, an index and a course row the number of the    *)
(* syllabus they are of, a text the number of the edit it comes from.  A    *)
(* text or a split's file whose write is cut short counts as written.       *)
(* Coroutines of the event loop run between awaits without interruption;    *)
(* routes in the thread pool and the reindexing command do not.             *)
(***************************************************************************)
EXTENDS Integers, Sequences, FiniteSets

CONSTANTS
    Uploads,      \* the syllabus uploads that are made
    Reviewers,    \* staff with a review page open
    Admins,       \* administrators who prepare the training data
    MaxText,      \* bound: the texts of the example
    MaxSplits,    \* bound: the preparations carried through to a split
    MaxExports,   \* bound: the exports
    MaxFaults     \* bound: writes that fail, kills of the backend

ASSUME ContentAssumption ==
    /\ IsFiniteSet(Uploads) /\ Reviewers # {} /\ Admins # {}
    /\ MaxText \in Nat \ {0} /\ MaxSplits \in Nat /\ MaxExports \in Nat /\ MaxFaults \in Nat

VARIABLES
    syllabus,     \* the extracted text and the index of the syllabus; 0 for none
    row,          \* syllabusStatus and the syllabus the course row names
    upload,       \* an upload: where it is, and what it read when it began
    rebuild,      \* the syllabus reindex_course is embedding; 0 when not running
    seed,         \* the example's text, its reviewStatus
    shown,        \* the text of the example on each reviewer's page
    prep,         \* an administrator: where the preparation is
    export,       \* the exported example, with the number of the export and of
                  \* the one its summary is of
    files,        \* train, validation, manifest and export summary on disk
    reading,      \* the files a describe_dataset in progress has read
    run,          \* a training run: state, pinned, described and downloaded files
    faults,
    approved,     \* history: texts approved by somebody who had them in front of them
    excuse        \* history: what the code does not defend against has happened

syllabusVars == <<syllabus, row, upload, rebuild>>
reviewVars   == <<seed, shown, approved>>
dataVars     == <<prep, export, files, reading, run>>
contentVars == <<syllabusVars, reviewVars, dataVars, faults, excuse>>

Excuses == {"first uploads overlapped", "row not written", "commit cut short",
            "rebuilt an old text", "approved unseen", "export cut short", "split cut short",
            "replaced during a split"}
Bounded == 0..Cardinality(Uploads)

\* A file of one split: which split, and the export and the indexes it was made of.
NoFile    == [split |-> 0, text |-> 0, export |-> 0, indexes |-> {}]
NoExport  == [n |-> 0, text |-> 0, summary |-> 0]
FileNames == {"train", "validation", "manifest"}
NoTraining == [state |-> "none", pin |-> << >>, described |-> << >>, got |-> << >>]
IdlePrep  == [at |-> "idle", text |-> 0, export |-> 0, indexes |-> {}]
ReviewStates == {"generated", "edited", "approved", "rejected"}

ContentTypeOK ==
    /\ syllabus \in [text : Bounded, index : Bounded]
    /\ row \in [status : {"missing", "indexed", "index_failed"}, names : Bounded]
    /\ upload \in [Uploads -> [at : {"no", "building", "over"}, replacing : BOOLEAN]]
    /\ rebuild \in Bounded
    /\ seed \in [text : 1..MaxText, status : ReviewStates]
    /\ run.state \in {"none", "queued", "claimed", "fetching", "trained", "failed"}
    /\ approved \subseteq 1..MaxText /\ excuse \subseteq Excuses /\ faults \in 0..MaxFaults

ContentInit ==
    /\ syllabus = [text |-> 0, index |-> 0] /\ row = [status |-> "missing", names |-> 0]
    /\ upload = [u \in Uploads |-> [at |-> "no", replacing |-> FALSE]] /\ rebuild = 0
    /\ seed = [text |-> 1, status |-> "generated"]
    /\ shown = [r \in Reviewers |-> 1]
    /\ prep = [a \in Admins |-> IdlePrep] /\ export = NoExport
    /\ files = [f \in FileNames |-> NoFile] /\ reading = << >> /\ run = NoTraining
    /\ faults = 0 /\ approved = {} /\ excuse = {}

\* The files of a split are written without an await in between.
Writing(a) == prep[a].at \in {"wrote train", "wrote validation"}
LoopFree   == \A a \in Admins : ~ Writing(a)
Excuse(what, happened) == excuse' = IF happened THEN excuse \cup {what} ELSE excuse
Fault == faults < MaxFaults /\ faults' = faults + 1
Splitting == \E a \in Admins : prep[a].at = "retrieving" \/ Writing(a)

---------------------------------------------------------------------------
(* upload_course_syllabus, and reindex_course from the command line.        *)

\* Whether there is an index is read before the long extraction and embedding.
BeginUpload(u) ==
    /\ LoopFree /\ upload[u].at = "no"
    /\ upload' = [upload EXCEPT ![u] = [at |-> "building", replacing |-> syllabus.index # 0]]
    /\ UNCHANGED <<syllabus, row, rebuild, reviewVars, dataVars, faults, excuse>>

\* The uploads are numbered in the order they are committed.
NewSyllabus == Cardinality({u \in Uploads : upload[u].at = "over"}) + 1
NoSyllabus == [text |-> 0, index |-> 0]
Committed == [text |-> NewSyllabus, index |-> NewSyllabus]
FirstUploadsOverlap(u) == ~ upload[u].replacing /\ syllabus.index # 0
Ends(u) == upload' = [upload EXCEPT ![u].at = "over"]

\* Mutant: a failed replacement marks the course as having no index.
RecordsFailureAlways(u) == row' = [row EXCEPT !.status = "index_failed"]

\* _record_syllabus_failure: only a first upload says that there is no index, if
\* the database can be reached.
RecordsFailure(u) ==
    row' = row \/ (~ upload[u].replacing /\ row' = [row EXCEPT !.status = "index_failed"])

\* commit_syllabus and the update of the course row, one after the other.
CommitUpload(u) ==
    /\ LoopFree /\ upload[u].at = "building" /\ Ends(u)
    /\ syllabus' = Committed
    /\ \/ row' = [status |-> "indexed", names |-> NewSyllabus] /\ UNCHANGED faults
          /\ Excuse("replaced during a split", Splitting)
       \/ Fault /\ UNCHANGED row
          /\ excuse' = excuse \cup {"row not written"}
                         \cup (IF Splitting THEN {"replaced during a split"} ELSE {})
    /\ UNCHANGED <<rebuild, reviewVars, dataVars>>

\* Where commit_syllabus stands between two of its writes: it writes the text, then
\* the index; when one of them fails it deletes the text, then the index, and
\* writes those of its snapshot again.
Written == {syllabus, [syllabus EXCEPT !.text = NewSyllabus], Committed}
Deleted == {[w EXCEPT !.text = 0] : w \in Written} \cup {NoSyllabus}
PutBack == {[syllabus EXCEPT !.index = 0], syllabus}
MidCommit == Written \cup Deleted \cup PutBack

\* Extraction, chunking or embedding failed, which leaves everything as it was; or
\* a file could not be written, and what the disk still lets be deleted and
\* written again is.
UploadFails(u) ==
    /\ LoopFree /\ upload[u].at = "building" /\ Ends(u)
    /\ \/ UNCHANGED <<syllabus, faults>>
       \/ Fault /\ syllabus' \in MidCommit
    /\ RecordsFailure(u)
    /\ excuse' = excuse \cup (IF FirstUploadsOverlap(u) THEN {"first uploads overlapped"} ELSE {})
                        \cup (IF syllabus' # syllabus THEN {"commit cut short"} ELSE {})
                        \cup (IF syllabus' # syllabus /\ Splitting
                              THEN {"replaced during a split"} ELSE {})
    /\ UNCHANGED <<rebuild, reviewVars, dataVars>>

BeginRebuild ==
    /\ rebuild = 0 /\ syllabus.text # 0
    /\ rebuild' = syllabus.text
    /\ UNCHANGED <<syllabus, row, upload, reviewVars, dataVars, faults, excuse>>

\* build_course_rag_index saves the index; sync_course_record follows.
FinishRebuild ==
    /\ rebuild # 0 /\ rebuild' = 0
    /\ syllabus' = [syllabus EXCEPT !.index = rebuild]
    /\ row' \in {row, [row EXCEPT !.status = "indexed"]}
    /\ excuse' = excuse \cup (IF rebuild # syllabus.text THEN {"rebuilt an old text"} ELSE {})
                        \cup (IF row' = row /\ row.status # "indexed" THEN {"row not written"} ELSE {})
                        \cup (IF Splitting THEN {"replaced during a split"} ELSE {})
    /\ UNCHANGED <<upload, reviewVars, dataVars, faults>>

---------------------------------------------------------------------------
(* review_course_seed, which runs on the event loop without an await.       *)

LoadPage(r) ==
    /\ LoopFree /\ shown[r] # seed.text
    /\ shown' = [shown EXCEPT ![r] = seed.text]
    /\ UNCHANGED <<seed, approved, syllabusVars, dataVars, faults, excuse>>

Intents == {"approve", "reject", "edit", "edit and approve"}
Edits   == {"edit", "edit and approve"}

\* apply_seed_review: a new text takes the status that was asked for with it,
\* and a decision without a text applies to whatever text is stored.
StatusAsked(intent) == CASE intent \in {"approve", "edit and approve"} -> "approved"
                         [] intent = "reject" -> "rejected" [] intent = "edit" -> "edited"
Reviewed(intent) ==
    [text |-> IF intent \in Edits THEN seed.text + 1 ELSE seed.text, status |-> StatusAsked(intent)]

Review(r, intent) ==
    /\ LoopFree
    /\ intent \in Edits => seed.text < MaxText
    /\ seed' = Reviewed(intent)
    /\ LET seen == intent \in Edits \/ shown[r] = seed.text
       IN  /\ approved' = IF StatusAsked(intent) = "approved" /\ seen
                          THEN approved \cup {seed'.text} ELSE approved
           /\ Excuse("approved unseen", intent = "approve" /\ ~ seen)
    /\ shown' = [shown EXCEPT ![r] = seed'.text]
    /\ UNCHANGED <<syllabusVars, dataVars, faults>>

---------------------------------------------------------------------------
(* export_approved_course_seeds and prepare_course_training_split.          *)

\* _refuse_while_training_run_active, asked in the thread pool.
MayPrepare == run.state \notin {"claimed", "fetching"}
PrepStep(a, from, to) == prep[a].at = from /\ prep' = [prep EXCEPT ![a].at = to]

BeginExport(a) ==
    /\ LoopFree /\ MayPrepare /\ export.n < MaxExports
    /\ PrepStep(a, "idle", "exporting")
    /\ UNCHANGED <<export, files, reading, run, syllabusVars, reviewVars, faults, excuse>>

\* Mutant: an edit that waits for approval is exported.
ApprovedOrEdited == seed.status \in {"approved", "edited"}

ApprovedForExport == seed.status = "approved"

\* The records, and after them the summary with the time of the export.
Exports(text, summary) == export' = [n |-> export.n + 1, text |-> text, summary |-> summary]
ExportText == IF ApprovedForExport THEN seed.text ELSE 0

Export(a) ==
    /\ LoopFree /\ export.n < MaxExports
    /\ PrepStep(a, "exporting", "idle")
    /\ Exports(ExportText, export.n + 1)
    /\ Excuse("replaced during a split", Splitting)
    /\ UNCHANGED <<files, reading, run, syllabusVars, reviewVars, faults>>

\* A write fails after the records were replaced, or in the middle of them.
ExportCutShort ==
    /\ \E a \in Admins : prep[a].at = "exporting"
    /\ export.n < MaxExports
    /\ \E text \in {ExportText, 0} : Exports(text, export.summary)

ExportFails(a) ==
    /\ LoopFree /\ Fault
    /\ PrepStep(a, "exporting", "idle")
    /\ ExportCutShort
    /\ excuse' = excuse \cup {"export cut short"}
                        \cup (IF Splitting THEN {"replaced during a split"} ELSE {})
    /\ UNCHANGED <<files, reading, run, syllabusVars, reviewVars>>

LastSplit == files["train"].split

\* Whatever the export on disk has come from.
BeginSplit(a) ==
    /\ LoopFree /\ MayPrepare /\ LastSplit < MaxSplits
    /\ PrepStep(a, "idle", "splitting") /\ export.n # 0
    /\ UNCHANGED <<export, files, reading, run, syllabusVars, reviewVars, faults, excuse>>

\* The records are loaded once; each is then given the excerpts of the index
\* that is on disk when its turn comes.
LoadRecords(a) ==
    /\ LoopFree /\ prep[a].at = "splitting" /\ export.text # 0 /\ syllabus.index # 0
    /\ prep' = [prep EXCEPT ![a] = [at |-> "retrieving", text |-> export.text,
                                    export |-> export.n, indexes |-> {syllabus.index}]]
    /\ UNCHANGED <<export, files, reading, run, syllabusVars, reviewVars, faults, excuse>>

RetrieveMore(a) ==
    /\ LoopFree /\ prep[a].at = "retrieving" /\ syllabus.index \notin prep[a].indexes \cup {0}
    /\ prep' = [prep EXCEPT ![a].indexes = @ \cup {syllabus.index}]
    /\ UNCHANGED <<export, files, reading, run, syllabusVars, reviewVars, faults, excuse>>

\* Too few records, no index, or a retrieval that fails: nothing is written.
PrepFails(a) ==
    /\ LoopFree /\ prep[a].at \in {"exporting", "splitting", "retrieving"}
    /\ prep' = [prep EXCEPT ![a] = IdlePrep]
    /\ UNCHANGED <<export, files, reading, run, syllabusVars, reviewVars, faults, excuse>>

Records(a, n) == [split |-> n, text |-> prep[a].text, export |-> prep[a].export,
                  indexes |-> prep[a].indexes]
Writes(a, file, content) == files' = [files EXCEPT ![file] = content]

WriteTrain(a) ==
    /\ LoopFree /\ LastSplit < MaxSplits /\ PrepStep(a, "retrieving", "wrote train")
    /\ Writes(a, "train", Records(a, LastSplit + 1))
    /\ UNCHANGED <<export, reading, run, syllabusVars, reviewVars, faults, excuse>>

WriteValidation(a) ==
    /\ PrepStep(a, "wrote train", "wrote validation")
    /\ Writes(a, "validation", Records(a, LastSplit))
    /\ UNCHANGED <<export, reading, run, syllabusVars, reviewVars, faults, excuse>>

\* The manifest names the index that is there by now, and the export its summary
\* names.
WriteManifest(a) ==
    /\ prep[a].at = "wrote validation" /\ prep' = [prep EXCEPT ![a] = IdlePrep]
    /\ Writes(a, "manifest", [split |-> LastSplit, text |-> prep[a].text,
                              export |-> export.summary, indexes |-> {syllabus.index}])
    /\ UNCHANGED <<export, reading, run, syllabusVars, reviewVars, faults, excuse>>

\* A write fails when the training records have been replaced.
SplitFails(a) ==
    /\ Writing(a) /\ Fault
    /\ prep' = [prep EXCEPT ![a] = IdlePrep]
    /\ Excuse("split cut short", TRUE)
    /\ UNCHANGED <<export, files, reading, run, syllabusVars, reviewVars>>

---------------------------------------------------------------------------
(* The dataset of a run: pinned when it is queued, described and downloaded  *)
(* by its worker.                                                           *)

\* describe_dataset runs in the thread pool and reads one file after another.
Order == <<"train", "validation", "manifest", "summary">>
OnDisk(f) == IF f = "summary" THEN [NoFile EXCEPT !.export = export.summary] ELSE files[f]
Described == Len(reading) = Len(Order)

StartDescribe ==
    /\ LoopFree /\ reading = << >> /\ run.state \in {"none", "claimed"}
    /\ \A f \in FileNames : files[f] # NoFile
    /\ reading' = <<OnDisk("train")>>
    /\ UNCHANGED <<prep, export, files, run, syllabusVars, reviewVars, faults, excuse>>

DescribeNext ==
    /\ reading # << >> /\ ~ Described
    /\ reading' = Append(reading, OnDisk(Order[Len(reading) + 1]))
    /\ UNCHANGED <<prep, export, files, run, syllabusVars, reviewVars, faults, excuse>>

\* pin_dataset_for_enqueue and the row of the run.
Enqueue ==
    /\ LoopFree /\ run.state = "none" /\ Described
    /\ run' = [NoTraining EXCEPT !.state = "queued", !.pin = reading] /\ reading' = << >>
    /\ UNCHANGED <<prep, export, files, syllabusVars, reviewVars, faults, excuse>>

ClaimRun ==
    /\ LoopFree /\ run.state = "queued"
    /\ run' = [run EXCEPT !.state = "claimed"]
    /\ UNCHANGED <<prep, export, files, reading, syllabusVars, reviewVars, faults, excuse>>

\* Mutant: the files are only looked for, not compared with the pinned ones.
StillPinnedByCount == reading # << >> /\ run.pin # << >>

\* resolve_run_dataset
StillPinned == reading = run.pin

AnswerWorker ==
    /\ LoopFree /\ run.state = "claimed" /\ Described /\ reading' = << >>
    /\ run' = IF StillPinned THEN [run EXCEPT !.state = "fetching", !.described = reading]
              ELSE [NoTraining EXCEPT !.state = "failed"]
    /\ UNCHANGED <<prep, export, files, syllabusVars, reviewVars, faults, excuse>>

\* sync_run_dataset: each file as it is by then, against its described digest.
Download ==
    /\ run.state = "fetching"
    /\ LET n == Len(run.got) + 1
       IN  run' = IF OnDisk(Order[n]) = run.described[n]
                  THEN [run EXCEPT !.got = Append(@, OnDisk(Order[n])),
                                   !.state = IF n = Len(Order) THEN "trained" ELSE @]
                  ELSE [NoTraining EXCEPT !.state = "queued", !.pin = run.pin]
    /\ UNCHANGED <<prep, export, files, reading, syllabusVars, reviewVars, faults, excuse>>

RunOver ==
    /\ run.state \in {"trained", "failed"} /\ run' = NoTraining
    /\ UNCHANGED <<prep, export, files, reading, syllabusVars, reviewVars, faults, excuse>>

\* The backend is killed: what it had not written is gone, and of the coroutines
\* one may have been in the middle of its writes.
Kill ==
    /\ Fault
    /\ \/ UNCHANGED <<syllabus, export>>
       \/ /\ LoopFree /\ \E u \in Uploads : upload[u].at = "building"
          /\ syllabus' \in MidCommit /\ UNCHANGED export
       \/ LoopFree /\ ExportCutShort /\ UNCHANGED syllabus
    /\ upload' = [u \in Uploads |-> IF upload[u].at = "building" THEN [upload[u] EXCEPT !.at = "over"]
                                    ELSE upload[u]]
    /\ prep' = [a \in Admins |-> IdlePrep] /\ reading' = << >>
    /\ excuse' = excuse \cup (IF LoopFree THEN {} ELSE {"split cut short"})
                        \cup (IF export' # export THEN {"export cut short"} ELSE {})
                        \cup (IF syllabus' = syllabus THEN {}
                              ELSE IF syllabus' = Committed THEN {"row not written"}
                              ELSE {"commit cut short"})
    /\ UNCHANGED <<row, rebuild, reviewVars, files, run>>

ContentNext ==
    \/ \E u \in Uploads : BeginUpload(u) \/ CommitUpload(u) \/ UploadFails(u)
    \/ BeginRebuild \/ FinishRebuild
    \/ \E r \in Reviewers :
        LoadPage(r) \/ \E intent \in Intents : Review(r, intent)
    \/ \E a \in Admins :
        \/ BeginExport(a) \/ Export(a) \/ ExportFails(a) \/ BeginSplit(a) \/ LoadRecords(a)
        \/ RetrieveMore(a) \/ PrepFails(a)
        \/ WriteTrain(a) \/ WriteValidation(a) \/ WriteManifest(a) \/ SplitFails(a)
    \/ StartDescribe \/ DescribeNext \/ Enqueue \/ ClaimRun \/ AnswerWorker \/ Download \/ RunOver
    \/ Kill

ContentSpec == ContentInit /\ [][ContentNext]_contentVars

---------------------------------------------------------------------------
(* What the course may rely on.                                             *)

Excused(whats) == whats \cap excuse # {}

\* The course row says what is on disk, and the index is of the text beside it:
\* an upload that fails leaves the syllabus and index the course answers from.
\* Excused: a row that was never written, a commit that was killed or that the
\* disk did not let undo, two first uploads at once, and a rebuild that was
\* embedding a text since replaced.
StatusMatchesDisk ==
    /\ \/ row.status = "indexed" => syllabus.index # 0
       \/ Excused({"commit cut short"})
    /\ \/ row.status = "indexed" <=> syllabus.index # 0
       \/ Excused({"first uploads overlapped", "row not written", "commit cut short"})
    /\ row.names = syllabus.text \/ Excused({"row not written", "commit cut short"})
    /\ syllabus.index = syllabus.text \/ Excused({"commit cut short", "rebuilt an old text"})

Got(f) == run.got[CHOOSE n \in 1..Len(Order) : Order[n] = f]
Trained == run.state = "trained"

\* The manifest a run trains with names the export and the index its examples
\* were made of, unless one was replaced while the examples were being made, or the
\* writing of the export or of the split was killed or failed on the way.
ManifestIsTrue ==
    \/ Trained => /\ Got("manifest").export = Got("train").export
                  /\ Got("manifest").indexes = Got("train").indexes
    \/ Excused({"replaced during a split", "split cut short", "export cut short"})

ContentSafety == ContentTypeOK /\ StatusMatchesDisk /\ ManifestIsTrue

\* Whatever is rewritten while a run is queued, described and downloaded, it
\* trains on the files it was queued with, and they are of one split; unless the
\* writing of a split was killed or failed on the way, which leaves files of two
\* that are pinned as one.
TrainsOnOneSplit ==
    Trained =>
        /\ run.got = run.pin
        /\ \/ \E n \in 1..MaxSplits : \A f \in FileNames : Got(f).split = n
           \/ Excused({"split cut short"})

\* No text trains that nobody approved with that text in front of them; the
\* one way around it is an approval that lands on an edit its page never showed.
OnlyApprovedIsTrained ==
    \/ Trained => Got("train").text \in approved
    \/ Excused({"approved unseen"})

===========================================================================
